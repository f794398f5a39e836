--------------------------- MODULE CommandsProofs ---------------------------
(***************************************************************************)
(* What holds of the commands for any boards, versions, files, indexes and *)
(* command lines: what they say, leave behind, erase and flash.            *)
(***************************************************************************)
EXTENDS Commands, SequenceLemmas

-----------------------------------------------------------------------------
(* The phases of the commands.                                             *)

DriverPcs   == {"drivers", "elevate", "driver log"}
PagePcs     == {"variant", "release", "preserve", "size", "keep", "confirm"}
FormPcs     == {"wizard", "pick board", "open form"} \cup PagePcs
AskPcs      == {"translate", "resolve", "ask", "answer"}
ScratchPcs  == {"lookup", "space", "download", "extract"}
BoardPcs    == {"install", "support", "read", "decide", "answer again", "streams", "qdl"}
WorkPcs     == {"prepare"} \cup ScratchPcs \cup BoardPcs
FlashPcs    == DriverPcs \cup {"arguments", "take form"} \cup AskPcs \cup WorkPcs \cup {"unwind"}
DownloadPcs == {"download command", "which board", "select image", "which image", "save"}
TellPcs     == {"list", "cache list", "cache clear", "version", "daemon", "serving"}

\* Where a command may be: flash at its own phases, at a form only without a board and
\* at a question before the work only with one.
PhaseInv ==
    /\ args \in CommandLines
    /\ pc \in {"start", "end", "dead", "panicked"} \cup FlashPcs \cup FormPcs \cup DownloadPcs
                 \cup TellPcs
    /\ pc \in FlashPcs \cup FormPcs \cup {"panicked"} => args.command = "flash"
    /\ pc \in FormPcs \cup {"take form"} => FromWizard
    /\ pc \in AskPcs => ~FromWizard
    /\ pc \in DownloadPcs => args.command = "download"
    /\ pc \in TellPcs => args.command = IF pc = "serving" THEN "daemon" ELSE pc

-----------------------------------------------------------------------------
(* Where the steps lead.                                                   *)

\* From a page the form goes to a page.
LEMMA NeighboursArePages ==
  ASSUME NEW p \in PagePcs, NEW f PROVE Neighbours(p, f) \subseteq PagePcs
  <1>1. DOMAIN Pages = 1..6 BY DEF Pages
  <1>2. \A i \in 1..6 : Pages[i] \in PagePcs BY DEF Pages, PagePcs
  <1> QED BY <1>1, <1>2 DEF Neighbours

LEMMA OnPageIsPage == OnPage <=> pc \in PagePcs
  <1>1. DOMAIN Pages = 1..6 BY DEF Pages
  <1>2. {Pages[i] : i \in 1..6} = PagePcs BY DEF Pages, PagePcs
  <1> QED BY <1>1, <1>2 DEF OnPage

\* The wizard ends with a form to take, without an image, or with the command.
LEMMA FormMoves ==
  ASSUME WizardStep
  PROVE  /\ pc \in FormPcs /\ pc' \in FormPcs \cup {"take form", "panicked", "end"}
         /\ Own
  <1>1. CASE StartWizard
    BY <1>1 DEF StartWizard, FetchImages, FormPcs, Continue, Die
  <1>2. CASE PickBoard BY <1>2 DEF PickBoard, FormPcs, Continue
  <1>3. CASE OpenForm BY <1>3 DEF OpenForm, FormPcs, PagePcs
  <1>4. CASE TurnPage
    BY <1>4, OnPageIsPage, NeighboursArePages DEF TurnPage, FormPcs
  <1>5. CASE AbortForm BY <1>5, OnPageIsPage DEF AbortForm, FormPcs, Die, Leave
  <1>6. CASE Confirm BY <1>6 DEF Confirm, FormPcs, PagePcs, Continue, Leave
  <1> QED BY <1>1, <1>2, <1>3, <1>4, <1>5, <1>6 DEF WizardStep

LEMMA DriverMoves ==
  ASSUME DriverStep
  PROVE  /\ pc \in DriverPcs /\ pc' \in {"elevate", "driver log", "arguments", "end"}
         /\ Own
  <1>1. CASE InstallDirectly BY <1>1 DEF InstallDirectly, DriverPcs, Proceed
  <1>2. CASE MakeLogFile BY <1>2 DEF MakeLogFile, DriverPcs, Continue, Die
  <1>3. CASE RunElevated BY <1>3 DEF RunElevated, DriverPcs, Continue, Die
  <1>4. CASE PrintDriverLog BY <1>4 DEF PrintDriverLog, DriverPcs, Proceed
  <1> QED BY <1>1, <1>2, <1>3, <1>4 DEF DriverStep

\* A download works on nothing that flash left, and leaves no error.
LEMMA DownloadMoves ==
  ASSUME DownloadStep
  PROVE  /\ pc \in DownloadPcs /\ pc' \in DownloadPcs \cup {"end"}
         /\ Own /\ UNCHANGED <<workVars, room, early, device>>
  <1> USE DEF DownloadPcs, Continue, Die, Leave, worldVars, flashVars
  <1>1. CASE StartDownload BY <1>1 DEF StartDownload
  <1>2. CASE AskWhich BY <1>2 DEF AskWhich, FetchImages
  <1>3. CASE SelectImage BY <1>3 DEF SelectImage
  <1>4. CASE ResolveDownload BY <1>4 DEF ResolveDownload
  <1>5. CASE SaveImage BY <1>5 DEF SaveImage
  <1> QED BY <1>1, <1>2, <1>3, <1>4, <1>5 DEF DownloadStep

LEMMA TellMoves ==
  ASSUME TellStep
  PROVE  /\ pc \in TellPcs /\ pc' \in {"serving", "end"}
         /\ pc' = "serving" => pc = "daemon"
         /\ Own
  <1> USE DEF TellPcs, Die, Tell
  <1>1. CASE ListImages BY <1>1 DEF ListImages
  <1>2. CASE ListCache BY <1>2 DEF ListCache
  <1>3. CASE ClearAll BY <1>3 DEF ClearAll
  <1>4. CASE TellVersion BY <1>4 DEF TellVersion
  <1>5. CASE Listen BY <1>5 DEF Listen
  <1>6. CASE Serve BY <1>6 DEF Serve
  <1> QED BY <1>1, <1>2, <1>3, <1>4, <1>5, <1>6 DEF TellStep

\* The edges of flash outside of the wizard, those back to it excepted.
Edges ==
    {<<"ask", "prepare">>, <<"ask", "answer">>, <<"answer", "prepare">>, <<"answer", "end">>,
     <<"translate", "resolve">>, <<"translate", "ask">>, <<"translate", "end">>,
     <<"resolve", "ask">>, <<"resolve", "end">>,
     <<"prepare", "install">>, <<"prepare", "space">>, <<"prepare", "lookup">>,
     <<"lookup", "space">>, <<"space", "download">>, <<"space", "extract">>,
     <<"download", "extract">>, <<"extract", "install">>, <<"install", "support">>,
     <<"support", "read">>, <<"support", "streams">>, <<"read", "decide">>,
     <<"decide", "streams">>, <<"decide", "answer again">>, <<"answer again", "streams">>,
     <<"streams", "qdl">>, <<"unwind", "end">>}

LEMMA FlashMoves ==
  ASSUME FlashStep
  PROVE  /\ \/ <<pc, pc'>> \in Edges
            \/ pc \in WorkPcs /\ pc' = "unwind"
            \/ pc = "take form" /\ pc' = "prepare"
            \/ pc = "arguments" /\ pc' = "end"
            \/ pc = "arguments" /\ pc' = "wizard" /\ args.board = None
            \/ pc = "arguments" /\ pc' = "translate" /\ args.board # None
         /\ Own
  <1> USE DEF Edges, WorkPcs, ScratchPcs, BoardPcs, Continue, Die, Leave, Fail
  <1>1. CASE CheckArguments BY <1>1 DEF CheckArguments
  <1>2. CASE Translate BY <1>2 DEF Translate
  <1>3. CASE Resolve BY <1>3 DEF Resolve
  <1>4. CASE Ask BY <1>4 DEF Ask
  <1>5. CASE Answer BY <1>5 DEF Answer
  <1>6. CASE TakeForm BY <1>6 DEF TakeForm
  <1>7. CASE Prepare BY <1>7 DEF Prepare
  <1>8. CASE LookupCache BY <1>8 DEF LookupCache
  <1>9. CASE CheckFreeSpace BY <1>9 DEF CheckFreeSpace
  <1>10. CASE Download BY <1>10 DEF Download
  <1>11. CASE ExtractImage BY <1>11 DEF ExtractImage
  <1>12. CASE InstallQdl BY <1>12 DEF InstallQdl
  <1>13. CASE CheckSupport BY <1>13 DEF CheckSupport
  <1>14. CASE ReadBoard BY <1>14 DEF ReadBoard
  <1>15. CASE Decide BY <1>15 DEF Decide
  <1>16. CASE AnswerAgain BY <1>16 DEF AnswerAgain
  <1>17. CASE OpenStreams BY <1>17 DEF OpenStreams
  <1>18. CASE RunQdl BY <1>18 DEF RunQdl
  <1>19. CASE Unwind BY <1>19 DEF Unwind
  <1> QED
    BY <1>1, <1>2, <1>3, <1>4, <1>5, <1>6, <1>7, <1>8, <1>9, <1>10, <1>11, <1>12, <1>13, <1>14,
       <1>15, <1>16, <1>17, <1>18, <1>19 DEF FlashStep

\* Each command begins at a phase of its own.
LEMMA Begins ==
  ASSUME PhaseInv, PersistentPreRun
  PROVE  /\ pc = "start"
         /\ \/ pc' = "end"
            \/ pc' \in {"drivers", "arguments"} /\ args.command = "flash"
            \/ pc' = "download command" /\ args.command = "download"
            \/ /\ pc' \in {"list", "cache list", "cache clear", "version", "daemon"}
               /\ pc' = args.command
  <1>1. pc = "start" /\ pc' \in {First, "end"} BY DEF PersistentPreRun, Die
  <1>2. args.command \in {"flash", "download", "list", "cache list", "cache clear", "version",
                          "daemon"}
    BY CommandsType DEF PhaseInv
  <1>3. CASE args.command = "flash"
    <2>1. First \in {"drivers", "arguments"} BY <1>3 DEF First
    <2> QED BY <1>1, <1>3, <2>1
  <1>4. CASE args.command = "download"
    <2>1. First = "download command" BY <1>4 DEF First
    <2> QED BY <1>1, <1>4, <2>1
  <1>5. CASE args.command \notin {"flash", "download"}
    <2>1. First = args.command BY <1>5 DEF First
    <2> QED BY <1>1, <1>2, <1>5, <2>1
  <1> QED BY <1>3, <1>4, <1>5

\* It is about the phase and the command line alone.
LEMMA PhaseStays ==
  ASSUME PhaseInv, UNCHANGED <<args, pc>> PROVE PhaseInv'
  <1>1. FromWizard' = FromWizard BY DEF FromWizard
  <1> QED BY <1>1
    DEF PhaseInv, FlashPcs, FormPcs, PagePcs, DriverPcs, AskPcs, WorkPcs, ScratchPcs, BoardPcs,
        DownloadPcs, TellPcs

\* The commands do not meet: which phase belongs to which command line.
LEMMA PhaseStep == PhaseInv /\ [Next]_vars => PhaseInv'
  <1> SUFFICES ASSUME PhaseInv, [Next]_vars PROVE PhaseInv'
    OBVIOUS
  <1> USE DEF PhaseInv, FlashPcs, FormPcs, PagePcs, DriverPcs, AskPcs, WorkPcs, ScratchPcs, BoardPcs,
          DownloadPcs, TellPcs, FromWizard, Own
  <1>1. CASE PersistentPreRun BY <1>1, Begins DEF PersistentPreRun
  <1>2. CASE DriverStep BY <1>2, DriverMoves
  <1>3. CASE WizardStep BY <1>3, FormMoves
  <1>4. CASE FlashStep
    BY <1>4, FlashMoves DEF Edges
  <1>5. CASE DownloadStep BY <1>5, DownloadMoves
  <1>6. CASE TellStep BY <1>6, TellMoves
  <1>7. CASE Interrupt \/ ClearCache
    <2>1. UNCHANGED <<args, pc>> BY ONLY <1>7 DEF Interrupt, ClearCache, Own
    <2> QED BY ONLY <2>1, PhaseInv, PhaseStays
  <1>8. CASE Kill BY <1>8 DEF Kill
  <1>9. CASE UNCHANGED vars
    <2>1. UNCHANGED <<args, pc>> BY ONLY <1>9 DEF vars, cmdVars
    <2> QED BY ONLY <2>1, PhaseInv, PhaseStays
  <1> QED BY <1>1, <1>2, <1>3, <1>4, <1>5, <1>6, <1>7, <1>8, <1>9 DEF Next, CommandStep

-----------------------------------------------------------------------------
(* The output.                                                             *)

\* What was said is shown, or held back for the document.
Fields == {"format", "selected", "held", "warnings", "shown", "said", "exit"}
Good(o) ==
    /\ o = [f \in Fields |-> o[f]]
    /\ o.said \subseteq o.shown \cup o.held \cup o.warnings
    /\ InText(o) \/ o.exit = "failed" => o.said \subseteq o.shown

\* q is what comes of o.
Later(o, q) ==
    /\ Good(q)
    /\ q.format = o.format
    /\ o.shown \subseteq q.shown /\ o.said \subseteq q.said
    /\ q.exit \in {o.exit, "failed", "ok"}

LEMMA SayLater ==
  ASSUME NEW o, NEW v, Good(o), o.exit # "failed"
  PROVE  Later(o, Say(o, v)) /\ Say(o, v).exit = o.exit /\ (InText(o) => v \in Say(o, v).shown)
  <1>1. CASE InText(o) BY <1>1 DEF Good, Fields, Later, Say, Show, InText
  <1>2. CASE ~InText(o) BY <1>2 DEF Good, Fields, Later, Say, InText
  <1> QED BY <1>1, <1>2

LEMMA WarnLater ==
  ASSUME NEW o, NEW v, Good(o), o.exit # "failed"
  PROVE  Later(o, Warn(o, v)) /\ Warn(o, v).exit = o.exit /\ Warn(o, v).held = o.held
  <1>1. CASE InText(o) BY <1>1 DEF Good, Fields, Later, Warn, Show, InText
  <1>2. CASE ~InText(o) BY <1>2 DEF Good, Fields, Later, Warn, InText
  <1> QED BY <1>1, <1>2

LEMMA ShowsMore ==
  ASSUME NEW o, NEW S, Good(o)
  PROVE  LET q == Show(o, S)
         IN  /\ q = [f \in Fields |-> q[f]]
             /\ q.format = o.format /\ q.held = o.held /\ q.warnings = o.warnings
             /\ q.exit = o.exit
             /\ q.shown = o.shown \cup S /\ q.said = o.said \cup S
  BY DEF Good, Fields, Show

LEMMA ResultLater ==
  ASSUME NEW o, NEW v, Good(o), o.exit # "failed"
  PROVE  /\ Later(o, ShowResult(o, v)) /\ ShowResult(o, v).exit = o.exit
         /\ ShowResult(o, v).held = o.held
         /\ o.held = {} => ShowResult(o, v).said \subseteq ShowResult(o, v).shown
  <1> DEFINE q == ShowResult(o, v)
  <1>1. PICK S : S = {v} \cup o.warnings /\ q = Show(o, S) BY DEF ShowResult
  <1>2. /\ q.shown = o.shown \cup S /\ q.said = o.said \cup S
        /\ q.format = o.format /\ q.held = o.held /\ q.warnings = o.warnings
        /\ q.exit = o.exit
    BY <1>1, ShowsMore
  <1>3. q = [f \in Fields |-> q[f]]
    BY <1>1, ShowsMore
  <1> HIDE DEF q
  <1>4. Good(q) BY <1>1, <1>2, <1>3 DEF Good, Fields, InText
  <1>5. o.held = {} => q.said \subseteq q.shown BY <1>1, <1>2 DEF Good
  <1> QED BY <1>2, <1>4, <1>5 DEF Later, q

LEMMA FatalLater ==
  ASSUME NEW o, NEW v, Good(o), o.exit # "failed"
  PROVE  Later(o, Fatal(o, v)) /\ Fatal(o, v).said \subseteq Fatal(o, v).shown
  <1> DEFINE q == Fatal(o, v)
  <1>1. PICK S, r : S = {v} \cup o.warnings \cup o.held /\ r = Show(o, S) /\ q = [r EXCEPT !.exit = "failed"]
    BY DEF Fatal
  <1>2. /\ r.shown = o.shown \cup S /\ r.said = o.said \cup S
        /\ r.format = o.format
        /\ r = [f \in Fields |-> r[f]]
    BY <1>1, ShowsMore
  <1>3. /\ q = [f \in Fields |-> q[f]]
        /\ q.exit = "failed" /\ q.shown = r.shown /\ q.said = r.said /\ q.format = r.format
    BY <1>1, <1>2 DEF Fields
  <1> HIDE DEF q
  <1>4. q.said \subseteq q.shown BY <1>1, <1>2, <1>3 DEF Good
  <1>5. Good(q) BY <1>3, <1>4 DEF Good
  <1> QED BY <1>2, <1>3, <1>4, <1>5 DEF Later, q

LEMMA QuitLater ==
  ASSUME NEW o, Good(o), o.exit # "failed"
  PROVE  /\ Later(o, Quit(o)) /\ Quit(o).exit = "ok"
         /\ Quit(o).said = o.said /\ Quit(o).shown = o.shown
  BY DEF Good, Fields, Later, Quit, InText

\* Until it ends a command has no exit status; what only lists holds nothing back.
OutputInv ==
    /\ Good(io)
    /\ pc # "end" => io.exit = "none"
    /\ pc = "start" => io = Silent
    /\ pc \in {"list", "cache list"} => io.held = {}
    /\ pc = "end" /\ args.command \in {"list", "cache list"} => io.said \subseteq io.shown


\* What a step may say before it ends the command, if it does.
Heard(q) == Later(io, q) /\ q.exit = "none"

LEMMA HeardNothing == ASSUME Good(io), io.exit = "none" PROVE Heard(io)
  BY DEF Heard, Later

LEMMA HeardSay == ASSUME NEW q, NEW v, Heard(q) PROVE Heard(Say(q, v))
  <1>1. Good(q) /\ q.exit = "none" BY DEF Heard, Later
  <1>2. Later(q, Say(q, v)) /\ Say(q, v).exit = "none" BY <1>1, SayLater
  <1> QED BY <1>2 DEF Heard, Later

LEMMA HeardWarn == ASSUME NEW q, NEW v, Heard(q) PROVE Heard(Warn(q, v))
  <1>1. Good(q) /\ q.exit = "none" BY DEF Heard, Later
  <1>2. Later(q, Warn(q, v)) /\ Warn(q, v).exit = "none" BY <1>1, WarnLater
  <1> QED BY <1>2 DEF Heard, Later

LEMMA HeardResult == ASSUME NEW q, NEW v, Heard(q) PROVE Heard(ShowResult(q, v))
  <1>1. Good(q) /\ q.exit = "none" BY DEF Heard, Later
  <1>2. Later(q, ShowResult(q, v)) /\ ShowResult(q, v).exit = "none" BY <1>1, ResultLater
  <1> QED BY <1>2 DEF Heard, Later

LEMMA HeardFatal == ASSUME NEW q, NEW v, Heard(q) PROVE Later(io, Fatal(q, v))
  <1>1. Good(q) /\ q.exit = "none" BY DEF Heard, Later
  <1>2. Later(q, Fatal(q, v)) BY <1>1, FatalLater
  <1> QED BY <1>2 DEF Heard, Later

LEMMA HeardQuit == ASSUME NEW q, Heard(q) PROVE Later(io, Quit(q))
  <1>1. Good(q) /\ q.exit = "none" BY DEF Heard, Later
  <1>2. Later(q, Quit(q)) BY <1>1, QuitLater
  <1> QED BY <1>2 DEF Heard, Later

\* In every step the output grows.
Grows == Later(io, io') /\ (pc' # "end" => io'.exit = "none")

LEMMA GrowsAs ==
  /\ \A q : io' = q /\ Heard(q) => Grows
  /\ \A q, v : io' = Fatal(q, v) /\ pc' = "end" /\ Heard(q) => Grows
  /\ \A q : io' = Quit(q) /\ pc' = "end" /\ Heard(q) => Grows
  BY HeardFatal, HeardQuit DEF Heard, Grows

LEMMA HeardWarned == ASSUME NEW s, Good(io), io.exit = "none" PROVE Heard(Warned(s))
  BY HeardNothing, HeardWarn DEF Warned

LEMMA HeardTranslated == ASSUME NEW w, Good(io), io.exit = "none" PROVE Heard(Translated(w))
  BY HeardNothing, HeardWarn DEF Translated

LEMMA DriverOutput ==
  ASSUME DriverStep, Good(io), io.exit = "none" PROVE Grows
  <1> USE HeardNothing, GrowsAs DEF Continue, Die
  <1>1. CASE InstallDirectly
    <2>1. PICK p \in Endings : Proceed(p, IF p = "not run" THEN io ELSE Say(io, "pnputil output"))
      BY <1>1 DEF InstallDirectly
    <2>2. Heard(IF p = "not run" THEN io ELSE Say(io, "pnputil output")) BY HeardSay
    <2> QED BY <2>1, <2>2 DEF Proceed
  <1>2. CASE MakeLogFile BY <1>2 DEF MakeLogFile
  <1>3. CASE RunElevated BY <1>3 DEF RunElevated
  <1>4. CASE PrintDriverLog
    <2>1. Heard(IF log = "written" THEN Say(io, "pnputil output") ELSE io) BY HeardSay
    <2> QED BY <1>4, <2>1 DEF PrintDriverLog, Proceed
  <1> QED BY <1>1, <1>2, <1>3, <1>4 DEF DriverStep

LEMMA FormOutput ==
  ASSUME WizardStep, Good(io), io.exit = "none" PROVE Grows
  <1> USE HeardNothing, GrowsAs DEF Continue, Die, Leave
  <1>1. CASE StartWizard BY <1>1, HeardWarned, HeardWarn DEF StartWizard, FetchImages
  <1>2. CASE PickBoard BY <1>2 DEF PickBoard
  <1>3. CASE OpenForm BY <1>3 DEF OpenForm
  <1>4. CASE TurnPage BY <1>4 DEF TurnPage
  <1>5. CASE AbortForm BY <1>5, HeardSay DEF AbortForm
  <1>6. CASE Confirm BY <1>6, HeardSay DEF Confirm
  <1> QED BY <1>1, <1>2, <1>3, <1>4, <1>5, <1>6 DEF WizardStep

LEMMA FlashOutput ==
  ASSUME FlashStep, Good(io), io.exit = "none" PROVE Grows
  <1> USE HeardNothing, GrowsAs DEF Continue, Die, Leave, Fail
  <1>1. CASE CheckArguments BY <1>1 DEF CheckArguments
  <1>2. CASE Translate BY <1>2, HeardTranslated DEF Translate
  <1>3. CASE Resolve BY <1>3, HeardWarned DEF Resolve
  <1>4. CASE Ask BY <1>4, HeardSay, HeardWarn DEF Ask
  <1>5. CASE Answer BY <1>5 DEF Answer
  <1>6. CASE TakeForm BY <1>6 DEF TakeForm
  <1>7. CASE Prepare BY <1>7 DEF Prepare
  <1>8. CASE LookupCache BY <1>8 DEF LookupCache
  <1>9. CASE CheckFreeSpace BY <1>9 DEF CheckFreeSpace
  <1>10. CASE Download BY <1>10 DEF Download
  <1>11. CASE ExtractImage BY <1>11, HeardSay DEF ExtractImage
  <1>12. CASE InstallQdl BY <1>12 DEF InstallQdl
  <1>13. CASE CheckSupport BY <1>13, HeardSay DEF CheckSupport
  <1>14. CASE ReadBoard BY <1>14 DEF ReadBoard
  <1>15. CASE Decide BY <1>15, HeardSay DEF Decide
  <1>16. CASE AnswerAgain BY <1>16 DEF AnswerAgain
  <1>17. CASE OpenStreams BY <1>17 DEF OpenStreams
  <1>18. CASE RunQdl BY <1>18 DEF RunQdl
  <1>19. CASE Unwind BY <1>19, HeardSay DEF Unwind
  <1> QED
    BY <1>1, <1>2, <1>3, <1>4, <1>5, <1>6, <1>7, <1>8, <1>9, <1>10, <1>11, <1>12, <1>13, <1>14,
       <1>15, <1>16, <1>17, <1>18, <1>19 DEF FlashStep

LEMMA DownloadOutput ==
  ASSUME DownloadStep, Good(io), io.exit = "none" PROVE Grows
  <1> USE HeardNothing, GrowsAs DEF Continue, Die, Leave
  <1>1. CASE StartDownload BY <1>1, HeardTranslated DEF StartDownload
  <1>2. CASE AskWhich BY <1>2, HeardWarned, HeardWarn DEF AskWhich, FetchImages
  <1>3. CASE SelectImage BY <1>3, HeardSay DEF SelectImage
  <1>4. CASE ResolveDownload BY <1>4, HeardWarned DEF ResolveDownload
  <1>5. CASE SaveImage BY <1>5, HeardSay DEF SaveImage
  <1> QED BY <1>1, <1>2, <1>3, <1>4, <1>5 DEF DownloadStep

LEMMA TellOutput ==
  ASSUME TellStep, Good(io), io.exit = "none" PROVE Grows
  <1> USE HeardNothing, GrowsAs DEF Die, Tell
  <1>1. CASE ListImages
    BY <1>1, HeardWarned, HeardWarn, HeardResult DEF ListImages
  <1>2. CASE ListCache BY <1>2, HeardResult DEF ListCache
  <1>3. CASE ClearAll BY <1>3, HeardResult DEF ClearAll
  <1>4. CASE TellVersion BY <1>4, HeardResult, HeardWarn DEF TellVersion
  <1>5. CASE Listen BY <1>5, HeardResult DEF Listen
  <1>6. CASE Serve BY <1>6 DEF Serve
  <1> QED BY <1>1, <1>2, <1>3, <1>4, <1>5, <1>6 DEF TellStep

\* The listing commands have nothing held back when they show their result.
LEMMA ListOutput ==
  ASSUME ListImages \/ ListCache, Good(io), io.exit = "none", io.held = {}
  PROVE  io'.said \subseteq io'.shown
  <1>1. \A q, v : Good(q) /\ q.exit = "none" => Fatal(q, v).said \subseteq Fatal(q, v).shown
    BY FatalLater
  <1>2. ASSUME NEW q, NEW v, Good(q), q.exit = "none", q.held = {}
        PROVE  Quit(ShowResult(q, v)).said \subseteq Quit(ShowResult(q, v)).shown
    <2>1. /\ Good(ShowResult(q, v)) /\ ShowResult(q, v).exit = "none"
          /\ ShowResult(q, v).said \subseteq ShowResult(q, v).shown
      BY <1>2, ResultLater DEF Later
    <2> QED BY <2>1, QuitLater
  <1>3. \A s : Good(Warned(s)) /\ Warned(s).exit = "none" /\ Warned(s).held = {}
    BY WarnLater DEF Warned, Later
  <1>4. \A s, v : LET q == Warn(Warned(s), v) IN Good(q) /\ q.exit = "none" /\ q.held = {}
    BY <1>3, WarnLater DEF Later
  <1>5. CASE ListImages
    <2>1. CASE Die("not a board") BY <1>1, <2>1 DEF Die
    <2>2. CASE ~Die("not a board")
      <3>1. PICK s \in Snapshots, inventory \in BOOLEAN :
                \/ io' = Fatal(Warned(s), "no index")
                \/ Tell(IF inventory THEN Warned(s) ELSE Warn(Warned(s), "no inventory"), "images")
        BY <1>5, <2>2 DEF ListImages
      <3>2. CASE io' = Fatal(Warned(s), "no index") BY <1>1, <1>3, <3>2
      <3>3. CASE inventory /\ Tell(Warned(s), "images") BY <1>2, <1>3, <3>3 DEF Tell
      <3>4. CASE ~inventory /\ Tell(Warn(Warned(s), "no inventory"), "images")
        BY <1>2, <1>4, <3>4 DEF Tell
      <3> QED BY <3>1, <3>2, <3>3, <3>4
    <2> QED BY <2>1, <2>2
  <1>6. CASE ListCache BY <1>1, <1>2, <1>6 DEF ListCache, Tell, Die
  <1> QED BY <1>5, <1>6

LEMMA OutputStep == PhaseInv /\ OutputInv /\ [Next]_vars => OutputInv'
  <1> SUFFICES ASSUME PhaseInv, OutputInv, [Next]_vars PROVE OutputInv'
    OBVIOUS
  <1> USE DEF FlashPcs, FormPcs, PagePcs, DriverPcs, AskPcs, WorkPcs, ScratchPcs, BoardPcs, DownloadPcs,
          TellPcs
  <1>1. CASE PersistentPreRun
    <2>1. io = Silent /\ pc = "start" BY <1>1 DEF PersistentPreRun, OutputInv
    <2>2. CASE Die("invalid format") /\ pc' = "end"
      <3>1. Good(io) /\ io.exit = "none" BY <2>1 DEF OutputInv
      <3>2. Later(io, io') /\ io'.said \subseteq io'.shown BY <2>2, <3>1, FatalLater DEF Die
      <3> QED BY <2>2, <3>2 DEF OutputInv, Later
    <2>3. CASE io' = SetFormat(io, args.format) /\ pc' = First
      <3>1. /\ io'.said = {} /\ io'.held = {} /\ io'.exit = "none" /\ io' = [f \in Fields |-> io'[f]]
        BY <2>1, <2>3 DEF SetFormat, Silent, Fields
      <3>2. Good(io') BY <3>1 DEF Good
      <3>3. pc' # "start" /\ pc' # "end"
        BY <2>3, CommandsType DEF First, PhaseInv
      <3> QED BY <3>1, <3>2, <3>3 DEF OutputInv
    <2> QED BY <1>1, <2>2, <2>3 DEF PersistentPreRun, Die
  <1>2. CASE DriverStep \/ WizardStep \/ FlashStep \/ DownloadStep \/ TellStep
    <2>1. pc \notin {"start", "end"} /\ pc' # "start" /\ pc' \notin {"list", "cache list"} /\ args' = args
      BY <1>2, DriverMoves, FormMoves, FlashMoves, DownloadMoves, TellMoves DEF Edges, Own
    <2>2. Grows
      BY <1>2, <2>1, DriverOutput, FormOutput, FlashOutput, DownloadOutput, TellOutput DEF OutputInv
    <2>3. ASSUME pc' = "end", args.command \in {"list", "cache list"} PROVE io'.said \subseteq io'.shown
      <3>1. pc \in {"list", "cache list"}
        BY <1>2, <2>3, DriverMoves, FormMoves, FlashMoves, DownloadMoves, TellMoves DEF PhaseInv, Edges
      <3>2. TellStep
        BY <1>2, <3>1, DriverMoves, FormMoves, FlashMoves, DownloadMoves DEF Edges
      <3>3. ListImages \/ ListCache
        BY <3>1, <3>2 DEF TellStep, ClearAll, TellVersion, Listen, Serve
      <3> QED BY <2>1, <3>1, <3>3, ListOutput DEF OutputInv
    <2> QED BY <2>1, <2>2, <2>3 DEF OutputInv, Grows, Later
  <1>3. CASE Interrupt \/ ClearCache BY <1>3 DEF Interrupt, ClearCache, OutputInv, Own
  <1>4. CASE Kill BY <1>4 DEF Kill, OutputInv, Ended
  <1>5. CASE UNCHANGED vars BY <1>5 DEF vars, cmdVars, OutputInv
  <1> QED BY <1>1, <1>2, <1>3, <1>4, <1>5 DEF Next, CommandStep

-----------------------------------------------------------------------------
(* What is left on the disk, and the room there is.                        *)

\* The log of the drivers is one that is being written, or that of a failure.
LogInv ==
    /\ pc \in {"start", "drivers"} => log = "none"
    /\ pc \in {"start", "drivers", "elevate"} => pnputil = "not run"
    /\ log \in {"empty", "written"} =>
          pc \in {"elevate", "driver log", "dead"} \/ (pc = "end" /\ ~Installed(pnputil))

LEMMA LogStep == PhaseInv /\ LogInv /\ [Next]_vars => LogInv'
  <1> SUFFICES ASSUME PhaseInv, LogInv, [Next]_vars PROVE LogInv'
    OBVIOUS
  <1> USE DEF FlashPcs, FormPcs, PagePcs, DriverPcs, AskPcs, WorkPcs, ScratchPcs, BoardPcs, DownloadPcs,
          TellPcs, LogInv
  <1>1. CASE PersistentPreRun /\ UNCHANGED driverVars
    BY <1>1, Begins DEF driverVars
  <1>2. CASE InstallDirectly BY <1>2 DEF InstallDirectly, Proceed, Installed, Endings
  <1>3. CASE MakeLogFile BY <1>3 DEF MakeLogFile, Continue, Die
  <1>4. CASE RunElevated BY <1>4 DEF RunElevated, Continue, Die, driverVars, Installed
  <1>5. CASE PrintDriverLog BY <1>5 DEF PrintDriverLog, Proceed
  <1>6. CASE (WizardStep \/ FlashStep \/ DownloadStep \/ TellStep) /\ UNCHANGED driverVars
    BY <1>6, FormMoves, FlashMoves, DownloadMoves, TellMoves DEF Edges, driverVars
  <1>7. CASE (Interrupt \/ Kill \/ ClearCache) /\ UNCHANGED driverVars
    BY <1>7 DEF Interrupt, Kill, ClearCache, driverVars, Ended
  <1>8. CASE UNCHANGED vars BY <1>8 DEF vars, cmdVars, driverVars
  <1> QED BY <1>1, <1>2, <1>3, <1>4, <1>5, <1>6, <1>7, <1>8 DEF Next, CommandStep, DriverStep

\* There are temporary directories only while flash works.
TempInv ==
    /\ temp \subseteq {"scratch", "qdl"}
    /\ pc \notin WorkPcs \cup {"unwind", "end", "dead"} => temp = {}
    /\ pc = "end" => temp \subseteq IF err = "no qdl" THEN {"qdl"} ELSE {}

\* What flash may do to the temporary directories and to the error.
LEMMA FlashTemp ==
  ASSUME FlashStep, temp \subseteq {"scratch", "qdl"}
  PROVE  /\ temp' \subseteq {"scratch", "qdl"}
         /\ pc \notin WorkPcs \cup {"unwind"} => UNCHANGED <<temp, err, source>>
         /\ pc = "unwind" => err' = err /\ temp' \subseteq IF err = "no qdl" THEN {"qdl"} ELSE {}
  <1> USE DEF WorkPcs, ScratchPcs, BoardPcs, workVars
  <1>1. CASE CheckArguments \/ Translate \/ Resolve \/ Ask \/ Answer \/ TakeForm
    BY <1>1 DEF CheckArguments, Translate, Resolve, Ask, Answer, TakeForm, flashVars
  <1>2. CASE Prepare BY <1>2 DEF Prepare
  <1>3. CASE InstallQdl BY <1>3 DEF InstallQdl
  <1>4. CASE LookupCache \/ CheckFreeSpace \/ Download \/ ExtractImage
    BY <1>4 DEF LookupCache, CheckFreeSpace, Download, ExtractImage
  <1>5. CASE CheckSupport \/ ReadBoard \/ Decide \/ AnswerAgain \/ OpenStreams \/ RunQdl
    BY <1>5 DEF CheckSupport, ReadBoard, Decide, AnswerAgain, OpenStreams, RunQdl
  <1>6. CASE Unwind BY <1>6 DEF Unwind, Deferred
  <1> QED BY <1>1, <1>2, <1>3, <1>4, <1>5, <1>6 DEF FlashStep

LEMMA TempStep == PhaseInv /\ TempInv /\ [Next]_vars => TempInv'
  <1> SUFFICES ASSUME PhaseInv, TempInv, [Next]_vars PROVE TempInv'
    OBVIOUS
  <1> USE DEF FlashPcs, FormPcs, PagePcs, DriverPcs, AskPcs, WorkPcs, ScratchPcs, BoardPcs, DownloadPcs,
          TellPcs, TempInv
  <1>1. CASE PersistentPreRun /\ UNCHANGED flashVars
    BY <1>1 DEF PersistentPreRun, flashVars, workVars
  <1>2. CASE (DriverStep \/ WizardStep) /\ UNCHANGED flashVars
    BY <1>2, DriverMoves, FormMoves DEF flashVars, workVars
  <1>3. CASE FlashStep BY <1>3, FlashMoves, FlashTemp DEF Edges
  <1>4. CASE DownloadStep BY <1>4, DownloadMoves DEF workVars
  <1>5. CASE TellStep /\ UNCHANGED workVars BY <1>5, TellMoves DEF workVars
  <1>6. CASE Interrupt \/ Kill \/ ClearCache
    BY <1>6 DEF Interrupt, Kill, ClearCache, workVars
  <1>7. CASE UNCHANGED vars BY <1>7 DEF vars, cmdVars, flashVars, workVars
  <1> QED BY <1>1, <1>2, <1>3, <1>4, <1>5, <1>6, <1>7 DEF Next, CommandStep

\* A flash has no error before it unwinds, and the room it asked for as long as it needs it.
RoomInv ==
    /\ job.temp \in Disks /\ room \in [Disks -> Nat]
    /\ pc \notin {"unwind", "end", "dead"} => err = ""
    /\ pc = "download" => source = "download"
    /\ pc \in {"download", "extract"} => room[job.temp] >= Needed(source)
    /\ RoomIsEnough

JobFields == {"image", "board", "serial", "preserve", "size", "keep", "temp", "yes", "program"}
JobShape  == job = [f \in JobFields |-> job[f]]

LEMMA JobStep == PhaseInv /\ JobShape /\ [Next]_vars => JobShape'
  <1> SUFFICES ASSUME PhaseInv, JobShape, [Next]_vars PROVE JobShape'
    OBVIOUS
  <1> USE DEF JobShape, JobFields
  <1>1. CASE UNCHANGED job BY <1>1
  <1>2. CASE CheckArguments BY <1>2 DEF CheckArguments
  <1>3. CASE Translate \/ Resolve BY <1>3 DEF Translate, Resolve
  <1>4. CASE TakeForm BY <1>4 DEF TakeForm, NoJob
  <1>5. CASE Decide BY <1>5 DEF Decide
  <1>6. CASE StartDownload BY <1>6 DEF StartDownload
  <1>7. CASE SelectImage BY <1>7 DEF SelectImage
  <1>8. CASE ResolveDownload BY <1>8 DEF ResolveDownload
  <1>9. CASE Ask \/ Answer \/ Prepare \/ LookupCache \/ CheckFreeSpace
    BY <1>1, <1>9 DEF Ask, Answer, Prepare, LookupCache, CheckFreeSpace, flashVars
  <1>10. CASE Download \/ ExtractImage \/ InstallQdl \/ CheckSupport \/ ReadBoard
    BY <1>1, <1>10 DEF Download, ExtractImage, InstallQdl, CheckSupport, ReadBoard
  <1>11. CASE AnswerAgain \/ OpenStreams \/ RunQdl \/ Unwind
    BY <1>1, <1>11 DEF AnswerAgain, OpenStreams, RunQdl, Unwind
  <1>12. CASE AskWhich \/ SaveImage
    BY <1>1, <1>12 DEF AskWhich, SaveImage, flashVars
  <1>13. CASE Interrupt \/ Kill \/ ClearCache \/ UNCHANGED vars
    BY <1>1, <1>13 DEF Interrupt, Kill, ClearCache, vars, flashVars
  <1> QED
    BY <1>1, <1>2, <1>3, <1>4, <1>5, <1>6, <1>7, <1>8, <1>9, <1>10, <1>11, <1>12, <1>13
       DEF Next, CommandStep, FlashStep, DownloadStep, flashVars

\* The space that is asked for is enough.
LEMMA Enough ==
  ASSUME NEW r \in Nat
  PROVE  /\ r >= 12 => ~(r < ArchiveSize) /\ ~(r - ArchiveSize < ImageSize) /\ ~(r - 0 < ImageSize)
         /\ r >= 10 => ~(r - 0 < ImageSize)
  BY SizesType

LEMMA RoomStep == PhaseInv /\ JobShape /\ RoomInv /\ [Next]_vars => RoomInv'
  <1> SUFFICES ASSUME PhaseInv, JobShape, RoomInv, [Next]_vars PROVE RoomInv'
    OBVIOUS
  <1> USE DEF FlashPcs, FormPcs, PagePcs, DriverPcs, AskPcs, WorkPcs, ScratchPcs, BoardPcs, DownloadPcs,
          TellPcs, RoomInv, RoomIsEnough
  <1>1. CASE PersistentPreRun /\ UNCHANGED flashVars
    BY <1>1, Begins DEF PersistentPreRun, flashVars, workVars, worldVars
  <1>2. CASE (DriverStep \/ WizardStep) /\ UNCHANGED flashVars
    BY <1>2, DriverMoves, FormMoves DEF flashVars, workVars, worldVars
  <1>3. CASE FlashStep
    <2> USE DEF workVars, worldVars, Continue, Fail, Die, Leave, JobShape, JobFields
    <2>1. CASE CheckArguments
      <3>1. job'.temp \in Disks BY <2>1, TempType DEF CheckArguments, PhaseInv
      <3> QED BY <2>1, <3>1, FlashMoves DEF CheckArguments, Edges
    <2>2. CASE Translate \/ Resolve
      <3>1. job'.temp = job.temp BY <2>2 DEF Translate, Resolve
      <3> QED BY <2>2, <3>1 DEF Translate, Resolve
    <2>3. CASE Ask \/ Answer BY <2>3 DEF Ask, Answer, flashVars
    <2>4. CASE TakeForm BY <2>4 DEF TakeForm, NoJob, Disks
    <2>5. CASE Prepare BY <2>5 DEF Prepare
    <2>6. CASE LookupCache BY <2>6 DEF LookupCache
    <2>7. CASE CheckFreeSpace BY <2>7 DEF CheckFreeSpace
    <2>8. CASE Download
      <3>1. room[job.temp] \in Nat /\ room[job.temp] >= 12 /\ source = "download"
        BY <2>8 DEF Download, Needed
      <3>2. CASE room[DownloadDisk] < ArchiveSize /\ Fail("disk full")
        <4>1. DownloadDisk # job.temp
          <5>1. ~(room[job.temp] < ArchiveSize) BY <3>1, Enough
          <5> QED BY <3>2, <5>1
        <4>2. job.keep /\ job.temp # "home" BY <4>1 DEF DownloadDisk
        <4> QED BY <2>8, <3>1, <3>2, <4>2 DEF Download
      <3> QED BY <2>8, <3>1, <3>2 DEF Download
    <2>9. CASE ExtractImage
      <3>1. room[job.temp] \in Nat /\ room[job.temp] >= Needed(source)
        BY <2>9 DEF ExtractImage
      <3>2. PICK r \in Nat : r = room[job.temp] BY <3>1
      <3>3. ASSUME source = "download" PROVE ~(r - Taken < ImageSize)
        <4>1. r >= 12 BY <3>1, <3>2, <3>3 DEF Needed
        <4>2. Taken = 0 \/ Taken = ArchiveSize BY DEF Taken
        <4> QED BY <4>1, <4>2, Enough
      <3>4. ASSUME source # "download" PROVE ~(r - Taken < ImageSize)
        <4>1. r >= 10 BY <3>1, <3>2, <3>4 DEF Needed
        <4>2. Taken = 0 BY <3>4 DEF Taken
        <4> QED BY <4>1, <4>2, Enough
      <3> QED BY <2>9, <3>2, <3>3, <3>4 DEF ExtractImage
    <2>10. CASE InstallQdl \/ CheckSupport \/ ReadBoard
      BY <2>10 DEF InstallQdl, CheckSupport, ReadBoard
    <2>11. CASE Decide
      <3>1. job'.temp = job.temp /\ job'.keep = job.keep BY <2>11 DEF Decide
      <3> QED BY <2>11, <3>1 DEF Decide
    <2>12. CASE AnswerAgain \/ OpenStreams BY <2>12 DEF AnswerAgain, OpenStreams
    <2>13. CASE RunQdl BY <2>13 DEF RunQdl
    <2>14. CASE Unwind BY <2>14 DEF Unwind
    <2> QED
      BY <1>3, <2>1, <2>2, <2>3, <2>4, <2>5, <2>6, <2>7, <2>8, <2>9, <2>10, <2>11, <2>12, <2>13, <2>14
         DEF FlashStep
  <1>4. CASE DownloadStep
    <2>1. job'.temp \in Disks
      BY <1>4 DEF DownloadStep, StartDownload, AskWhich, SelectImage, ResolveDownload, SaveImage, JobShape,
                  JobFields, Disks, flashVars
    <2> QED BY <1>4, <2>1, DownloadMoves DEF workVars
  <1>5. CASE TellStep /\ UNCHANGED <<job, workVars, room>> BY <1>5, TellMoves DEF workVars
  <1>6. CASE Interrupt \/ ClearCache BY <1>6 DEF Interrupt, ClearCache, workVars, Own
  <1>7. CASE Kill BY <1>7 DEF Kill, workVars
  <1>8. CASE UNCHANGED vars BY <1>8 DEF vars, cmdVars, flashVars, workVars, worldVars
  <1> QED BY <1>1, <1>2, <1>3, <1>4, <1>5, <1>6, <1>7, <1>8 DEF Next, CommandStep

-----------------------------------------------------------------------------
(* The boards.                                                             *)

Clean == device = [d \in Connected |-> Untouched]

\* Nothing is written before qdl runs, and qdl does not run for an image of which the
\* extraction was interrupted.
SpareInv ==
    /\ pc \notin {"unwind", "end", "dead"} => Clean
    /\ early => interrupted
    /\ early /\ ~IsDirectory(job.image) => pc \notin BoardPcs /\ Clean

LEMMA SpareStep == PhaseInv /\ JobShape /\ SpareInv /\ [Next]_vars => SpareInv'
  <1> SUFFICES ASSUME PhaseInv, JobShape, SpareInv, [Next]_vars PROVE SpareInv'
    OBVIOUS
  <1> USE DEF FlashPcs, FormPcs, PagePcs, DriverPcs, AskPcs, WorkPcs, ScratchPcs, BoardPcs, DownloadPcs,
          TellPcs, Own
  <1>1. CASE PersistentPreRun /\ UNCHANGED flashVars
    <2>1. pc = "start" /\ pc' \notin BoardPcs BY <1>1, Begins
    <2> QED BY <1>1, <2>1 DEF PersistentPreRun, flashVars, worldVars, SpareInv, Clean
  <1>2. CASE (DriverStep \/ WizardStep) /\ UNCHANGED flashVars
    BY <1>2, DriverMoves, FormMoves DEF flashVars, worldVars, SpareInv, Clean
  <1>3. CASE FlashStep
    <2> USE DEF worldVars, flashVars, workVars, Continue, Fail, Die, Leave
    <2>1. CASE UNCHANGED <<early, device>> /\ pc \notin BoardPcs \cup {"unwind"} /\ pc' \notin BoardPcs
      <3>1. Clean' BY <2>1, <1>3, FlashMoves DEF Edges, SpareInv, Clean
      <3>2. early' => interrupted' BY <2>1, <1>3, FlashMoves DEF SpareInv
      <3> QED BY <2>1, <3>1, <3>2 DEF SpareInv
    <2>2. CASE CheckArguments \/ Translate \/ Resolve \/ Ask \/ Answer \/ TakeForm
      <3>1. UNCHANGED <<early, device>>
        BY <2>2 DEF CheckArguments, Translate, Resolve, Ask, Answer, TakeForm
      <3>2. pc \notin BoardPcs \cup {"unwind"} /\ pc' \notin BoardPcs
        BY <2>2 DEF CheckArguments, Translate, Resolve, Ask, Answer, TakeForm
      <3> QED BY <2>1, <3>1, <3>2
    <2>3. CASE Prepare BY <2>3 DEF Prepare, SpareInv, Clean
    <2>4. CASE LookupCache \/ CheckFreeSpace \/ Download
      BY <2>1, <2>4 DEF LookupCache, CheckFreeSpace, Download
    <2>5. CASE ExtractImage BY <2>5 DEF ExtractImage, ToTheEnd, SpareInv, Clean
    <2>6. CASE InstallQdl \/ CheckSupport \/ ReadBoard \/ AnswerAgain \/ OpenStreams
      <3>1. pc \in BoardPcs /\ UNCHANGED <<job, interrupted, early, device>>
        BY <2>6 DEF InstallQdl, CheckSupport, ReadBoard, AnswerAgain, OpenStreams
      <3> QED BY <3>1 DEF SpareInv, Clean, IsDirectory, IsLocal
    <2>7. CASE Decide
      <3>1. job'.image = job.image BY <2>7 DEF Decide, JobShape, JobFields
      <3> QED BY <2>7, <3>1 DEF Decide, SpareInv, Clean, IsDirectory, IsLocal
    <2>8. CASE RunQdl BY <2>8 DEF RunQdl, SpareInv
    <2>9. CASE Unwind BY <2>9 DEF Unwind, SpareInv, Clean
    <2> QED BY <1>3, <2>2, <2>3, <2>4, <2>5, <2>6, <2>7, <2>8, <2>9 DEF FlashStep
  <1>4. CASE DownloadStep
    <2>1. Clean /\ UNCHANGED <<interrupted, early, device>> /\ pc' \notin BoardPcs
      BY <1>4, DownloadMoves DEF SpareInv
    <2> QED BY <2>1 DEF SpareInv, Clean
  <1>5. CASE TellStep /\ UNCHANGED <<job, early, device>>
    BY <1>5, TellMoves DEF SpareInv, Clean
  <1>6. CASE Interrupt
    BY <1>6 DEF Interrupt, SpareInv, Clean, Ended, Extracted
  <1>7. CASE Kill
    <2>1. pc # "qdl" => UNCHANGED device BY <1>7 DEF Kill
    <2> QED BY <1>7, <2>1 DEF Kill, SpareInv, Clean
  <1>8. CASE ClearCache BY <1>8 DEF ClearCache, SpareInv, Clean
  <1>9. CASE UNCHANGED vars BY <1>9 DEF vars, cmdVars, flashVars, worldVars, SpareInv, Clean
  <1> QED BY <1>1, <1>2, <1>3, <1>4, <1>5, <1>6, <1>7, <1>8, <1>9 DEF Next, CommandStep

\* What asks is on the screen in text, and only text comes as far as qdl; the work begins
\* with what the user asked for, and with a consent unless none is needed.
ConsentInv ==
    /\ pc \in AskPcs => job.preserve = args.preserve /\ job.yes = args.yes
    /\ pc \in {"answer", "answer again"} /\ InText(io) => "proceed?" \in io.shown
    /\ pc \in WorkPcs =>
          /\ job.preserve = KeepAsked
          /\ InText(io) => job.preserve \/ args.yes \/ FromWizard \/ "erase" \in consent
    /\ pc \in {"streams", "qdl"} /\ InText(io) /\ job.preserve =>
          job.program # "full" \/ "give up" \in consent
    /\ pc = "qdl" => InText(io)
    /\ ErasedWithConsent

LEMMA CleanIsKept == Clean => ErasedWithConsent /\ Flashed = {}
  <1> SUFFICES ASSUME Clean PROVE ErasedWithConsent /\ Flashed = {}
    OBVIOUS
  <1>1. \A d \in Connected : device[d].data = "kept" /\ device[d].image = NoImage
    BY DEF Clean, Untouched
  <1> QED BY <1>1 DEF ErasedWithConsent, Flashed

LEMMA ErasedByQdl ==
  ASSUME SpareInv, ConsentInv, pc = "qdl", UNCHANGED <<args, form, consent>>,
         NEW d \in Selected, device' = Written(d)
  PROVE  ErasedWithConsent'
  <1> SUFFICES ASSUME NEW e \in Connected, device'[e].data = "gone"
               PROVE  \/ "give up" \in consent
                      \/ ~KeepAsked /\ (args.yes \/ FromWizard \/ "erase" \in consent)
    BY DEF ErasedWithConsent, KeepAsked, FromWizard
  <1>1. Clean BY DEF SpareInv
  <1>2. job.program = "full"
    BY <1>1 DEF Clean, Written, Untouched
  <1>3. pc \in WorkPcs BY DEF WorkPcs, BoardPcs
  <1> QED BY <1>2, <1>3 DEF ConsentInv

\* Another step erases nothing, and forgets no consent.
LEMMA NothingErased ==
  ASSUME ErasedWithConsent, UNCHANGED <<args, form, device>>, consent \subseteq consent'
  PROVE  ErasedWithConsent'
  BY DEF ErasedWithConsent, KeepAsked, FromWizard

LEMMA ConsentStep ==
  PhaseInv /\ JobShape /\ OutputInv /\ SpareInv /\ ConsentInv /\ [Next]_vars => ConsentInv'
  <1> SUFFICES ASSUME PhaseInv, JobShape, OutputInv, SpareInv, ConsentInv, [Next]_vars
               PROVE  ConsentInv'
    OBVIOUS
  <1> USE DEF FlashPcs, FormPcs, PagePcs, DriverPcs, AskPcs, WorkPcs, ScratchPcs, BoardPcs, DownloadPcs,
          TellPcs
  <1>1. CASE UNCHANGED device /\ Clean /\ pc' \notin AskPcs \cup WorkPcs
    <2>1. Clean' BY <1>1 DEF Clean
    <2>2. ErasedWithConsent' BY <2>1, CleanIsKept, PTL
    <2> QED BY <1>1, <2>2 DEF ConsentInv
  <1>2. CASE PersistentPreRun /\ UNCHANGED flashVars
    <2>1. pc = "start" /\ pc' \notin AskPcs \cup WorkPcs BY <1>2, Begins
    <2> QED BY <1>1, <1>2, <2>1 DEF SpareInv, flashVars, worldVars
  <1>3. CASE (DriverStep \/ WizardStep) /\ UNCHANGED flashVars
    BY <1>1, <1>3, DriverMoves, FormMoves DEF SpareInv, flashVars, worldVars
  <1>4. CASE FlashStep /\ UNCHANGED form
    <2>1. InText(io)' = InText(io) /\ io.shown \subseteq io'.shown /\ Good(io) /\ io.exit = "none"
      <3>1. pc \notin {"start", "end"} BY <1>4, FlashMoves DEF Edges
      <3>2. Good(io) /\ io.exit = "none" BY <3>1 DEF OutputInv
      <3> QED BY <1>4, <3>2, FlashOutput DEF Grows, Later, InText
    <2>2. UNCHANGED args BY <1>4, FlashMoves DEF Own
    <2>3. FromWizard' = FromWizard /\ KeepAsked' = KeepAsked
      BY <1>4, <2>2 DEF FromWizard, KeepAsked
    <2> USE DEF worldVars, flashVars, workVars, Continue, Fail, Die, Leave
    <2>4. CASE CheckArguments
      <3>1. ErasedWithConsent' BY <2>4, <2>2, <1>4, NothingErased DEF CheckArguments, ConsentInv
      <3>2. pc' = "translate" => job'.preserve = args.preserve /\ job'.yes = args.yes
        BY <2>4 DEF CheckArguments, JobShape, JobFields
      <3> QED BY <2>4, <3>1, <3>2, <2>2, FlashMoves DEF CheckArguments, Edges, ConsentInv
    <2>5. CASE Translate \/ Resolve
      <3>1. ErasedWithConsent' BY <2>5, <2>2, <1>4, NothingErased DEF Translate, Resolve, ConsentInv
      <3>2. job'.preserve = job.preserve /\ job'.yes = job.yes /\ pc' \in {"resolve", "ask", "end"}
        BY <2>5 DEF Translate, Resolve, JobShape, JobFields
      <3>3. pc \in AskPcs BY <2>5 DEF Translate, Resolve
      <3> QED BY <3>1, <3>2, <3>3, <2>2 DEF ConsentInv
    <2>6. CASE Ask
      <3>1. ErasedWithConsent' BY <2>6, <2>2, <1>4, NothingErased DEF Ask, ConsentInv
      <3>2. /\ ~FromWizard /\ job.preserve = args.preserve /\ job.yes = args.yes
            /\ UNCHANGED <<job, consent>>
        BY <2>6 DEF Ask, PhaseInv, ConsentInv
      <3>3. CASE pc' = "prepare"
        <4>1. job.yes \/ job.preserve BY <2>6, <3>3 DEF Ask, NotAsked
        <4> QED BY <3>1, <3>2, <3>3, <4>1, <2>2, <2>3 DEF ConsentInv, KeepAsked
      <3>4. CASE pc' = "answer" /\ io' = Say(Warn(io, "data is erased"), "proceed?")
        <4>1. Good(Warn(io, "data is erased")) /\ Warn(io, "data is erased").exit = "none"
              /\ Warn(io, "data is erased").format = io.format
          BY <2>1, WarnLater DEF Later
        <4>2. InText(io) => "proceed?" \in io'.shown BY <3>4, <4>1, SayLater DEF InText
        <4> QED BY <3>1, <3>2, <3>4, <4>2, <2>1, <2>2 DEF ConsentInv
      <3> QED BY <2>6, <3>3, <3>4 DEF Ask
    <2>7. CASE Answer
      <3>1. consent \subseteq consent' BY <2>7 DEF Answer, Agree
      <3>2. ErasedWithConsent' BY <2>7, <2>2, <1>4, <3>1, NothingErased DEF Answer, ConsentInv
      <3>3. ~FromWizard /\ job.preserve = args.preserve /\ UNCHANGED job
        BY <2>7 DEF Answer, PhaseInv, ConsentInv
      <3>4. pc' = "prepare" /\ InText(io) => "erase" \in consent'
        BY <2>7 DEF Answer, Agree, ConsentInv
      <3>5. pc' \in {"prepare", "end"} BY <2>7 DEF Answer
      <3> QED BY <3>2, <3>3, <3>4, <3>5, <2>1, <2>2, <2>3 DEF ConsentInv, KeepAsked
    <2>8. CASE TakeForm
      <3>1. ErasedWithConsent' BY <2>8, <2>2, <1>4, NothingErased DEF TakeForm, ConsentInv
      <3>2. FromWizard /\ job'.preserve = form.preserve /\ pc' = "prepare"
        BY <2>8 DEF TakeForm, PhaseInv, NoJob
      <3> QED BY <3>1, <3>2, <2>3 DEF ConsentInv, KeepAsked
    <2>9. CASE /\ pc \in WorkPcs /\ pc' \in WorkPcs \cup {"unwind"}
               /\ pc' \notin {"answer again", "streams", "qdl"}
               /\ UNCHANGED <<job, consent, device>>
      <3>1. ErasedWithConsent' BY <2>9, <2>2, <1>4, NothingErased DEF ConsentInv
      <3> QED BY <2>9, <3>1, <2>1, <2>2, <2>3 DEF ConsentInv
    <2>10. CASE Prepare \/ LookupCache \/ CheckFreeSpace \/ Download \/ ExtractImage \/ InstallQdl \/ ReadBoard
      BY <2>9, <2>10 DEF Prepare, LookupCache, CheckFreeSpace, Download, ExtractImage, InstallQdl, ReadBoard
    <2>11. CASE CheckSupport
      <3>1. pc \in WorkPcs /\ UNCHANGED <<job, consent, device>> BY <2>11 DEF CheckSupport
      <3>2. CASE pc' = "streams"
        <4>1. ~job.preserve BY <2>11, <3>2 DEF CheckSupport, Supported
        <4>2. ErasedWithConsent' BY <3>1, <2>2, <1>4, NothingErased DEF ConsentInv
        <4> QED BY <3>1, <3>2, <4>1, <4>2, <2>1, <2>2, <2>3 DEF ConsentInv
      <3>3. pc' \in {"read", "streams", "unwind"} BY <2>11 DEF CheckSupport
      <3> QED BY <2>9, <3>1, <3>2, <3>3
    <2>12. CASE Decide
      <3>1. ErasedWithConsent' BY <2>12, <2>2, <1>4, NothingErased DEF Decide, ConsentInv
      <3>2. /\ job'.preserve = job.preserve /\ UNCHANGED consent /\ pc \in WorkPcs
            /\ pc' \in {"streams", "answer again", "unwind"}
        BY <2>12 DEF Decide, JobShape, JobFields
      <3>3. pc' = "streams" => ~job'.preserve \/ job'.program = "nouser"
        BY <2>12 DEF Decide, JobShape, JobFields
      <3>4. ASSUME pc' = "answer again", InText(io) PROVE "proceed?" \in io'.shown
        <4>1. io' = Say(Say(io, "data cannot be kept"), "proceed?") BY <2>12, <3>4 DEF Decide
        <4>2. /\ Good(Say(io, "data cannot be kept")) /\ Say(io, "data cannot be kept").exit = "none"
              /\ Say(io, "data cannot be kept").format = io.format
          BY <2>1, SayLater DEF Later
        <4> QED BY <3>4, <4>1, <4>2, SayLater DEF InText
      <3> QED BY <3>1, <3>2, <3>3, <3>4, <2>1, <2>2, <2>3 DEF ConsentInv
    <2>13. CASE AnswerAgain
      <3>1. consent \subseteq consent' /\ UNCHANGED <<job, device>> /\ pc \in WorkPcs
        BY <2>13 DEF AnswerAgain, Agree
      <3>2. ErasedWithConsent' BY <2>2, <1>4, <3>1, NothingErased DEF ConsentInv
      <3>3. pc' = "streams" /\ InText(io) => "give up" \in consent'
        BY <2>13 DEF AnswerAgain, Agree, ConsentInv
      <3>4. pc' \in {"streams", "unwind"} BY <2>13 DEF AnswerAgain
      <3> QED BY <3>1, <3>2, <3>3, <3>4, <2>1, <2>2, <2>3 DEF ConsentInv
    <2>14. CASE OpenStreams
      <3>1. /\ UNCHANGED <<job, consent, device>> /\ pc = "streams" /\ pc' \in {"qdl", "unwind"}
            /\ pc' = "qdl" => InText(io)
        BY <2>14 DEF OpenStreams, HasStreams
      <3>2. ErasedWithConsent' BY <2>2, <1>4, <3>1, NothingErased DEF ConsentInv
      <3> QED BY <3>1, <3>2, <2>1, <2>2, <2>3 DEF ConsentInv
    <2>15. CASE RunQdl
      <3>1. UNCHANGED consent /\ pc = "qdl" /\ pc' = "unwind" BY <2>15 DEF RunQdl
      <3>2. CASE \E d \in Selected : device' = Written(d)
        <4>1. ErasedWithConsent' BY <1>4, <2>2, <3>1, <3>2, ErasedByQdl
        <4> QED BY <3>1, <4>1 DEF ConsentInv
      <3>3. CASE UNCHANGED device
        <4>1. ErasedWithConsent' BY <1>4, <2>2, <3>1, <3>3, NothingErased DEF ConsentInv
        <4> QED BY <3>1, <4>1 DEF ConsentInv
      <3> QED BY <2>15, <3>2, <3>3 DEF RunQdl
    <2>16. CASE Unwind
      <3>1. UNCHANGED <<consent, device>> /\ pc' = "end" BY <2>16 DEF Unwind
      <3>2. ErasedWithConsent' BY <2>2, <1>4, <3>1, NothingErased DEF ConsentInv
      <3> QED BY <3>1, <3>2 DEF ConsentInv
    <2> QED
      BY <1>4, <2>4, <2>5, <2>6, <2>7, <2>8, <2>10, <2>11, <2>12, <2>13, <2>14, <2>15, <2>16
         DEF FlashStep
  <1>5. CASE DownloadStep BY <1>1, <1>5, DownloadMoves DEF SpareInv
  <1>6. CASE TellStep /\ UNCHANGED device BY <1>1, <1>6, TellMoves DEF SpareInv
  <1>7. CASE (Interrupt \/ ClearCache) /\ UNCHANGED form
    <2>1. UNCHANGED <<args, pc, io, job, consent, device>>
      BY <1>7 DEF Interrupt, ClearCache, Own, workVars
    <2>2. ErasedWithConsent' BY <1>7, <2>1, NothingErased DEF ConsentInv
    <2> QED BY <1>7, <2>1, <2>2 DEF ConsentInv, KeepAsked, FromWizard
  <1>8. CASE Kill /\ UNCHANGED form
    <2>1. UNCHANGED <<args, consent>> /\ pc' = "dead" BY <1>8 DEF Kill, Own, workVars
    <2>2. CASE pc = "qdl" /\ \E d \in Selected : device' = Written(d)
      <3>1. ErasedWithConsent' BY <1>8, <2>1, <2>2, ErasedByQdl
      <3> QED BY <2>1, <3>1 DEF ConsentInv
    <2>3. CASE UNCHANGED device
      <3>1. ErasedWithConsent' BY <1>8, <2>1, <2>3, NothingErased DEF ConsentInv
      <3> QED BY <2>1, <3>1 DEF ConsentInv
    <2> QED BY <1>8, <2>2, <2>3 DEF Kill
  <1>9. CASE UNCHANGED vars
    <2>1. UNCHANGED <<args, pc, io, form, job, consent, device>>
      BY <1>9 DEF vars, cmdVars, flashVars, workVars, worldVars
    <2>2. ErasedWithConsent' BY <2>1, NothingErased DEF ConsentInv
    <2> QED BY <2>1, <2>2 DEF ConsentInv, KeepAsked, FromWizard
  <1> QED BY <1>2, <1>3, <1>4, <1>5, <1>6, <1>7, <1>8, <1>9 DEF Next, CommandStep

-----------------------------------------------------------------------------
(* The wizard.                                                             *)

FormFields == {"offered", "image", "capacity", "preserve", "typed", "keep"}

\* A form is of one board once it is chosen; a size is taken only if it fits what the
\* other pages say in the end; and no image is taken before the form is.
WizardInv ==
    /\ published \in Published
    /\ form = [f \in FormFields |-> form[f]]
    /\ pc \in FormPcs \ {"wizard"} => form.offered \subseteq Releases
    /\ pc = "pick board" => form.capacity = 0
    /\ pc \in PagePcs \cup {"open form", "take form"} =>
          /\ \A r \in form.offered : r.board = form.image.board
          /\ Capacity[form.image.board] = {} => form.capacity = 0
    /\ pc \in {"keep", "confirm", "take form"} /\ RootSize(form) > 0 => Valid(form)
    /\ pc \in {"start", "arguments", "take form"} \cup DriverPcs \cup FormPcs => job = NoJob
    /\ WizardIsHonoured

\* The newest of what is offered exists.
LEMMA NewestOffered ==
  ASSUME NEW b, NEW images, images \subseteq Releases, images # {}, \A r \in images : r.board = b
  PROVE  (CHOOSE r \in Resolved(images, b, None) : TRUE) \in images
  <1> DEFINE S == {r.version : r \in images}
  <1>1. S \in SUBSET Versions /\ S # {} BY DEF Releases
  <1>2. PICK v \in S : \A u \in S : Rank[u] <= Rank[v] BY <1>1, NewestExists
  <1>3. PICK r \in images : r.version = v BY <1>2
  <1>4. \A q \in images : Rank[q.version] <= Rank[r.version] BY <1>2, <1>3
  <1>5. r \in Resolved(images, b, None) BY <1>3, <1>4 DEF Resolved
  <1>6. (CHOOSE q \in Resolved(images, b, None) : TRUE) \in Resolved(images, b, None) BY <1>5
  <1> QED BY <1>6 DEF Resolved

\* Only over a hidden page is the one of the size passed.
LEMMA SizeIsPassed ==
  ASSUME NEW p \in {"variant", "release", "preserve"}, NEW f, NEW q \in Neighbours(p, f),
         q \in {"keep", "confirm"}
  PROVE  ~Visible("size", f)
  <1> DEFINE shown == {i \in DOMAIN Pages : Visible(Pages[i], f)}
             here  == CHOOSE i \in DOMAIN Pages : Pages[i] = p
  <1>1. /\ DOMAIN Pages = 1..6 /\ Pages[1] = "variant" /\ Pages[2] = "release"
        /\ Pages[3] = "preserve" /\ Pages[4] = "size" /\ Pages[5] = "keep" /\ Pages[6] = "confirm"
    BY DEF Pages
  <1>2. \A i \in 1..6 : i = 1 \/ i = 2 \/ i = 3 \/ i = 4 \/ i = 5 \/ i = 6 OBVIOUS
  <1>3. \E i \in DOMAIN Pages : Pages[i] = p BY <1>1
  <1>4. here \in 1..6 /\ Pages[here] = p BY <1>1, <1>3
  <1>5. here < 4 BY <1>1, <1>2, <1>4
  <1> SUFFICES ASSUME Visible("size", f) PROVE FALSE
    OBVIOUS
  <1>6. 4 \in {j \in shown : j > here} BY <1>1, <1>5, <1>4
  <1>7. PICK i \in 1..6 : /\ Pages[i] = q
                          /\ i <= 4 \/ i < here
    BY <1>1, <1>6 DEF Neighbours
  <1> HIDE DEF here
  <1>8. i <= 4 BY <1>4, <1>5, <1>7
  <1> QED BY <1>1, <1>2, <1>7, <1>8

\* What the pages do to the form.
LEMMA PageFilled ==
  ASSUME WizardInv, pc \in PagePcs, NEW g \in Filled(pc, form)
  PROVE  /\ g = [f \in FormFields |-> g[f]] /\ g.offered = form.offered
         /\ g.image = form.image \/ g.image \in form.offered
         /\ pc # "variant" => g.capacity = form.capacity
         /\ pc = "variant" => g.image = form.image /\ Capacity[form.image.board] # {}
         /\ pc = "size" => Valid(g)
         /\ pc \in {"keep", "confirm"} =>
               /\ g.image = form.image /\ g.capacity = form.capacity
               /\ g.preserve = form.preserve /\ g.typed = form.typed
  <1> USE DEF WizardInv, FormFields, PagePcs
  <1>1. CASE pc = "variant" BY <1>1 DEF Filled
  <1>2. CASE pc = "release" BY <1>2 DEF Filled
  <1>3. CASE pc = "preserve" BY <1>3 DEF Filled
  <1>4. CASE pc = "size" BY <1>4 DEF Filled
  <1>5. CASE pc = "keep" BY <1>5 DEF Filled
  <1>6. CASE pc = "confirm" BY <1>6 DEF Filled
  <1> QED BY <1>1, <1>2, <1>3, <1>4, <1>5, <1>6

\* What the form says of the root depends on four of its pages.
LEMMA SameRoot ==
  ASSUME NEW f, NEW g, g.image = f.image, g.capacity = f.capacity, g.preserve = f.preserve,
         g.typed = f.typed
  PROVE  RootSize(g) = RootSize(f) /\ Valid(g) = Valid(f)
  BY DEF RootSize, Valid, Share, LeavesRoom

LEMMA NoRoot ==
  ASSUME NEW f, f.preserve \/ f.capacity = 0 PROVE ~(RootSize(f) > 0)
  <1>1. RootSize(f) = 0 BY DEF RootSize
  <1> QED BY <1>1

\* From a page to a page, over those that are hidden.
LEMMA PageStep ==
  ASSUME WizardInv, TurnPage, UNCHANGED flashVars
  PROVE  /\ form' = [f \in FormFields |-> form'[f]] /\ form'.offered = form.offered
         /\ \A r \in form'.offered : r.board = form'.image.board
         /\ Capacity[form'.image.board] = {} => form'.capacity = 0
         /\ pc' \in {"keep", "confirm"} /\ RootSize(form') > 0 => Valid(form')
  <1>1. pc \in PagePcs BY OnPageIsPage DEF TurnPage
  <1>2. PICK g \in Filled(pc, form) : form' = g /\ pc' \in Neighbours(pc, g) BY DEF TurnPage
  <1>3. /\ g = [f \in FormFields |-> g[f]] /\ g.offered = form.offered
        /\ g.image = form.image \/ g.image \in form.offered
        /\ pc # "variant" => g.capacity = form.capacity
        /\ pc = "variant" => g.image = form.image /\ Capacity[form.image.board] # {}
        /\ pc = "size" => Valid(g)
        /\ pc \in {"keep", "confirm"} =>
              /\ g.image = form.image /\ g.capacity = form.capacity
              /\ g.preserve = form.preserve /\ g.typed = form.typed
    BY <1>1, PageFilled
  <1>4. g.image.board = form.image.board BY <1>1, <1>3 DEF WizardInv
  <1>5. Capacity[g.image.board] = {} => g.capacity = 0 BY <1>1, <1>3, <1>4 DEF WizardInv
  <1>6. ASSUME pc' \in {"keep", "confirm"}, RootSize(g) > 0 PROVE Valid(g)
    <2>1. CASE pc \in {"variant", "release", "preserve"}
      <3>1. ~Visible("size", g) BY <1>2, <1>6, <2>1, SizeIsPassed
      <3>2. g.preserve \/ g.capacity = 0 BY <1>5, <3>1 DEF Visible
      <3> QED BY <1>6, <3>2, NoRoot
    <2>2. CASE pc = "size" BY <1>3, <2>2
    <2>3. CASE pc \in {"keep", "confirm"} BY <1>3, <1>6, <2>3, SameRoot DEF WizardInv
    <2> QED BY <1>1, <2>1, <2>2, <2>3 DEF PagePcs
  <1> QED BY <1>2, <1>3, <1>4, <1>5, <1>6, <1>1 DEF WizardInv

\* Without an image there is nothing to be honoured.
LEMMA NothingTaken == job = NoJob => WizardIsHonoured
  BY DEF NoJob, WizardIsHonoured

LEMMA HonouredIsKept ==
  ASSUME WizardIsHonoured, UNCHANGED <<args, form>>,
         job'.image = job.image, job'.board = job.board, job'.keep = job.keep,
         job'.preserve = job.preserve, job'.size = job.size
  PROVE  WizardIsHonoured'
  BY DEF WizardIsHonoured, FromWizard, Summary, RootSize, Share, LeavesRoom

\* A root that is taken was checked against the capacity.
LEMMA FormIsTaken ==
  ASSUME WizardInv, PhaseInv, TakeForm, UNCHANGED form PROVE WizardIsHonoured'
  <1>1. pc = "take form" /\ UNCHANGED args BY DEF TakeForm, Own
  <1>2. /\ job'.board = form.image.board /\ job'.image = form.image /\ job'.keep = form.keep
        /\ job'.preserve = form.preserve /\ job'.size = RootSize(form)
    BY DEF TakeForm, NoJob
  <1>3. Summary(form)' = [board |-> job'.board, version |-> job'.image.version,
                          cached |-> job'.keep, preserved |-> job'.preserve, root |-> job'.size]
    BY <1>2 DEF Summary, RootSize, Share
  <1>4. ASSUME RootSize(form) > 0
        PROVE  /\ ~form.preserve /\ RootSize(form) >= MinRootSize
               /\ LeavesRoom(RootSize(form), form.capacity)
    <2>1. Valid(form) BY <1>1, <1>4 DEF WizardInv
    <2>2. ~form.preserve /\ form.capacity # 0 BY <1>4, NoRoot
    <2>3. form.typed.kind = "number"
      <3>1. form.typed.kind # "number" => RootSize(form) = 0 BY DEF RootSize
      <3> QED BY <1>4, <3>1
    <2>4. RootSize(form) = Share(form.capacity, form.typed) BY <2>2, <2>3 DEF RootSize
    <2> QED BY <2>1, <2>2, <2>3, <2>4 DEF Valid
  <1> QED BY <1>1, <1>2, <1>3, <1>4 DEF WizardIsHonoured, MinRootSize, LeavesRoom

LEMMA WizardStepInv ==
  PhaseInv /\ JobShape /\ WizardInv /\ [Next]_vars => WizardInv'
  <1> SUFFICES ASSUME PhaseInv, JobShape, WizardInv, [Next]_vars PROVE WizardInv'
    OBVIOUS
  <1> USE DEF FlashPcs, FormPcs, PagePcs, DriverPcs, AskPcs, WorkPcs, ScratchPcs, BoardPcs, DownloadPcs,
          TellPcs
  <1>1. CASE PersistentPreRun /\ UNCHANGED <<form, flashVars>>
    <2>1. UNCHANGED <<args, published, form, job>> /\ pc = "start"
      BY <1>1 DEF PersistentPreRun, Own, flashVars
    <2>2. WizardIsHonoured' BY <2>1, HonouredIsKept DEF WizardInv
    <2> QED BY <1>1, <2>1, <2>2, Begins DEF WizardInv
  <1>2. CASE DriverStep /\ UNCHANGED <<form, flashVars>>
    <2>1. UNCHANGED <<args, published, form, job>> BY <1>2, DriverMoves DEF Own, flashVars
    <2>2. WizardIsHonoured' BY <2>1, HonouredIsKept DEF WizardInv
    <2> QED BY <1>2, <2>1, <2>2, DriverMoves DEF WizardInv
  <1>3. CASE WizardStep /\ UNCHANGED flashVars
    <2>1. /\ UNCHANGED <<args, published, job>> /\ pc \in FormPcs /\ job = NoJob
          /\ published \subseteq Releases
      BY <1>3, FormMoves, PublishedType DEF Own, flashVars, WizardInv
    <2>2. WizardIsHonoured'
      <3>1. (job = NoJob)' BY <2>1
      <3> QED BY <3>1, NothingTaken, PTL
    <2>3. CASE StartWizard
      <3>1. CASE UNCHANGED form /\ pc' \in {"end", "panicked"}
        BY <2>1, <2>2, <3>1 DEF WizardInv
      <3>2. CASE \E s \in Snapshots : /\ form' = [NoForm EXCEPT !.offered = s.releases, !.keep = args.cache]
                                      /\ pc' = "pick board"
        BY <2>1, <2>2, <3>2 DEF WizardInv, NoForm, FormFields, Snapshots
      <3> QED BY <2>3, <3>1, <3>2 DEF StartWizard, FetchImages, Continue, Die
    <2>4. CASE PickBoard
      <3>1. PICK b \in Offered :
               LET images == {r \in form.offered : r.board = b}
               IN  form' = [form EXCEPT !.offered = images,
                                        !.image = CHOOSE r \in Resolved(images, b, None) : TRUE]
        BY <2>4 DEF PickBoard
      <3> DEFINE images == {r \in form.offered : r.board = b}
      <3>2. pc = "pick board" BY <2>4 DEF PickBoard
      <3>3. images \subseteq Releases /\ images # {} /\ \A r \in images : r.board = b
        BY <2>1, <3>2 DEF WizardInv, Offered
      <3> HIDE DEF images
      <3>4. /\ form'.offered = images /\ form'.capacity = form.capacity
            /\ form' = [f \in FormFields |-> form'[f]]
            /\ form'.image = CHOOSE r \in Resolved(images, b, None) : TRUE
        <4>1. form' = [form EXCEPT !.offered = images,
                                   !.image = CHOOSE r \in Resolved(images, b, None) : TRUE]
          BY <3>1 DEF images
        <4>2. form = [f \in FormFields |-> form[f]] BY DEF WizardInv
        <4>3. PICK i : i = CHOOSE r \in Resolved(images, b, None) : TRUE OBVIOUS
        <4>4. form' = [form EXCEPT !.offered = images, !.image = i] BY <4>1, <4>3
        <4>5. /\ form'.offered = images /\ form'.capacity = form.capacity /\ form'.image = i
              /\ form' = [f \in FormFields |-> form'[f]]
          BY <4>2, <4>4 DEF FormFields
        <4> QED BY <4>3, <4>5
      <3>5. form'.image \in images BY <3>3, <3>4, NewestOffered
      <3>6. pc = "pick board" /\ pc' = "open form" BY <2>4 DEF PickBoard, Continue
      <3> QED BY <2>1, <2>2, <3>3, <3>4, <3>5, <3>6 DEF WizardInv
    <2>5. CASE OpenForm
      <3>1. pc = "open form" /\ pc' \in {"variant", "release"} /\ UNCHANGED form
        BY <2>5 DEF OpenForm
      <3> QED BY <2>1, <2>2, <3>1 DEF WizardInv
    <2>6. CASE TurnPage
      <3>1. pc \in PagePcs /\ pc' \in PagePcs
        BY <2>6, OnPageIsPage, NeighboursArePages DEF TurnPage
      <3> QED BY <1>3, <2>1, <2>2, <2>6, <3>1, PageStep DEF WizardInv
    <2>7. CASE AbortForm
      <3>1. pc' = "end" /\ UNCHANGED form BY <2>7 DEF AbortForm, Die, Leave
      <3> QED BY <2>1, <2>2, <3>1 DEF WizardInv
    <2>8. CASE Confirm
      <3>1. pc = "confirm" /\ pc' \in {"take form", "end"} /\ UNCHANGED form
        BY <2>8 DEF Confirm, Continue, Leave
      <3> QED BY <2>1, <2>2, <3>1 DEF WizardInv
    <2> QED BY <1>3, <2>3, <2>4, <2>5, <2>6, <2>7, <2>8 DEF WizardStep
  <1>4. CASE FlashStep /\ UNCHANGED form
    <2>1. UNCHANGED <<args, published, form>> BY <1>4, FlashMoves DEF Own
    <2>2. /\ pc' \notin {"start", "arguments", "take form"} \cup DriverPcs \cup (FormPcs \ {"wizard"})
          /\ pc' = "wizard" => pc = "arguments"
      BY <1>4, FlashMoves DEF Edges
    <2>3. pc' = "wizard" => UNCHANGED job
      BY <1>4, <2>2 DEF FlashStep, CheckArguments, Translate, Resolve, Ask, Answer, TakeForm, Prepare,
         LookupCache, CheckFreeSpace, Download, ExtractImage, InstallQdl, CheckSupport, ReadBoard, Decide,
         AnswerAgain, OpenStreams, RunQdl, Unwind, Continue
    <2>4. WizardIsHonoured'
      <3>1. CASE ~FromWizard BY <2>1, <3>1 DEF WizardIsHonoured, FromWizard
      <3>2. CASE TakeForm BY <1>4, <3>2, FormIsTaken
      <3>3. CASE Decide
        <4>1. /\ job'.image = job.image /\ job'.board = job.board /\ job'.keep = job.keep
              /\ job'.preserve = job.preserve /\ job'.size = job.size
          BY <3>3 DEF Decide, JobShape, JobFields
        <4> QED BY <2>1, <4>1, HonouredIsKept DEF WizardInv
      <3>4. CASE FromWizard /\ ~TakeForm /\ ~Decide
        <4>1. pc \notin AskPcs BY <3>4 DEF PhaseInv
        <4>2. args.board = None BY <3>4 DEF FromWizard
        <4>3. UNCHANGED job
          BY <1>4, <3>4, <4>1, <4>2 DEF FlashStep, CheckArguments, Translate, Resolve, Ask, Answer, Prepare,
             LookupCache, CheckFreeSpace, Download, ExtractImage, InstallQdl, CheckSupport, ReadBoard,
             AnswerAgain, OpenStreams, RunQdl, Unwind
        <4> QED BY <2>1, <4>3, HonouredIsKept DEF WizardInv
      <3> QED BY <3>1, <3>2, <3>3, <3>4
    <2> QED BY <2>1, <2>2, <2>3, <2>4 DEF WizardInv
  <1>5. CASE DownloadStep
    <2>1. /\ UNCHANGED <<args, published>> /\ pc \in DownloadPcs
          /\ pc' \in DownloadPcs \cup {"end"}
      BY <1>5, DownloadMoves DEF Own
    <2>2. ~FromWizard /\ args.command = "download" BY <2>1 DEF PhaseInv, FromWizard
    <2>3. WizardIsHonoured' BY <2>1, <2>2 DEF WizardIsHonoured, FromWizard
    <2>4. form' = [f \in FormFields |-> form'[f]]
      <3>1. CASE UNCHANGED form BY <3>1 DEF WizardInv
      <3>2. CASE ~(UNCHANGED form)
        <4>1. \E rs, k : form' = [NoForm EXCEPT !.offered = rs, !.keep = k]
          BY <1>5, <3>2 DEF DownloadStep, StartDownload, AskWhich, SelectImage, ResolveDownload, SaveImage,
                           FetchImages
        <4> QED BY <4>1 DEF NoForm, FormFields
      <3> QED BY <3>1, <3>2
    <2> QED BY <2>1, <2>3, <2>4 DEF WizardInv
  <1>6. CASE TellStep /\ UNCHANGED <<form, job>>
    <2>1. UNCHANGED <<args, published>> /\ pc' \in {"serving", "end"} BY <1>6, TellMoves DEF Own
    <2>2. WizardIsHonoured' BY <1>6, <2>1, HonouredIsKept DEF WizardInv
    <2> QED BY <1>6, <2>1, <2>2 DEF WizardInv
  <1>7. CASE (Interrupt \/ Kill \/ ClearCache \/ UNCHANGED vars) /\ UNCHANGED form
    <2>1. UNCHANGED <<args, published, form, job>> /\ pc' \in {pc, "dead"}
      BY <1>7 DEF Interrupt, Kill, ClearCache, Own, vars, cmdVars, flashVars
    <2>2. WizardIsHonoured' BY <2>1, HonouredIsKept DEF WizardInv
    <2> QED BY <2>1, <2>2 DEF WizardInv
  <1> QED BY <1>1, <1>2, <1>3, <1>4, <1>5, <1>6, <1>7 DEF Next, CommandStep, vars

-----------------------------------------------------------------------------
(* What the command line means.                                            *)

\* The number of a serial is the number that is meant, and normalized it is read again
\* as the same number: decimal digits are never taken for hexadecimal ones.
LEMMA SerialIsMeant ==
  ASSUME args \in CommandLines, args.serial # NoSerial, ~BadSerial
  PROVE  /\ Normal(args.serial) # NoSerial
         /\ FromNum(Normal(args.serial)) = {MeantSerial(args.serial)}
  <1> DEFINE s == args.serial
             n == MeantSerial(s)
  <1>1. s.digits \in Seq(0..15) /\ s.prefixed \in BOOLEAN BY SerialsType
  <1>2. s.digits \in Seq(Nat)
    <2>1. 0..15 \subseteq Nat OBVIOUS
    <2> QED BY <1>1, <2>1, SeqWidens
  <1>3. n \in Nat BY <1>2, ValueIsNat DEF MeantSerial
  <1>4. Parse(s) = {n} /\ n \in 0..MaxSerial
    <2>1. Parse(s) # {} BY DEF BadSerial
    <2>2. s.digits # <<>> BY <2>1 DEF Parse, FromNum, FromHex
    <2>3. /\ Value(s.digits, 10) \in Nat /\ Value(s.digits, 16) \in Nat
          /\ Value(s.digits, 10) <= Value(s.digits, 16)
      BY <1>2, ValueIsNat, ValueGrows
    <2>4. CASE ~s.prefixed /\ AllDecimal(s.digits)
      <3>1. FromNum(s) = {n} \cap 0..MaxSerial BY <2>2, <2>4 DEF FromNum, MeantSerial
      <3>2. FromNum(s) # {}
        <4>1. CASE Value(s.digits, 16) <= MaxSerial
          <5>1. n <= MaxSerial BY <1>3, <2>3, <2>4, <4>1, MaxSerialType DEF MeantSerial
          <5> QED BY <1>3, <3>1, <5>1, MaxSerialType
        <4>2. CASE ~(Value(s.digits, 16) <= MaxSerial)
          <5>1. FromHex(s) = {} BY <2>3, <4>2, MaxSerialType DEF FromHex
          <5> QED BY <2>1, <5>1 DEF Parse
        <4> QED BY <4>1, <4>2
      <3> QED BY <3>1, <3>2 DEF Parse
    <2>5. CASE s.prefixed \/ ~AllDecimal(s.digits)
      <3>1. FromNum(s) = {} BY <2>5 DEF FromNum
      <3>2. FromHex(s) = {n} \cap 0..MaxSerial BY <2>2, <2>5 DEF FromHex, MeantSerial
      <3> QED BY <2>1, <3>1, <3>2 DEF Parse
    <2> QED BY <2>4, <2>5
  <1>5. Normal(s) = Decimal(n) BY <1>4 DEF Normal
  <1> HIDE DEF n
  <1>6. Digits(n) \in Seq(0..9) /\ Digits(n) # <<>> /\ Value(Digits(n), 10) = n
    BY <1>3, DigitsSpell
  <1>7. AllDecimal(Digits(n)) BY <1>6 DEF AllDecimal
  <1>8. Decimal(n) # NoSerial BY <1>6 DEF Decimal, NoSerial
  <1>9. FromNum(Decimal(n)) = {n} BY <1>4, <1>6, <1>7 DEF FromNum, Decimal
  <1> QED BY <1>5, <1>8, <1>9 DEF n

\* The words of a command line after the deprecated ones are translated.
LEMMA WordsAreMeant ==
  ASSUME args.board # None, ~Conflict(Words), LegacyArgs(Words).board \in Boards
  PROVE  /\ LegacyArgs(Words).board = MeantBoard
         /\ LegacyArgs(Words).version = MeantVersion
         /\ LegacyArgs(Words).image = MeantPath
  <1> USE WordsDiffer DEF Words, MeantBoard, MeantVersion, MeantPath
  <1>1. CASE args.board \in Boards BY <1>1 DEF LegacyArgs
  <1>2. CASE args.board = "latest" BY <1>2 DEF LegacyArgs
  <1>3. CASE args.board \in Versions BY <1>3 DEF LegacyArgs
  <1>4. CASE args.board \notin Boards \cup {None, "latest"} \cup Versions
    BY <1>4 DEF LegacyArgs, IsPath
  <1> QED BY <1>1, <1>2, <1>3, <1>4

\* What a job without a file on the disk is to be resolved from.
Named ==
    /\ args.board # None => job.board = MeantBoard /\ job.image.version = MeantVersion
    /\ MeantVersion # None => job.image.version = MeantVersion

\* Once the indexes are read the job is what the command line means, and stays so, and
\* what is on a board is what the job was.
MeantInv ==
    /\ pc \in AskPcs \cup WorkPcs /\ ~FromWizard =>
          ~BadSerial /\ job.serial = Normal(args.serial)
    /\ pc = "resolve" => MeantPath = None /\ Named
    /\ pc \in {"download command", "which board", "select image"} =>
          "version" \in DOMAIN job.image
    /\ pc \in {"which board", "select image"} => args.board = None
    /\ pc = "which board" => job.image.version = MeantVersion
    /\ pc = "which image" => Named
    /\ pc \in {"ask", "answer", "save"} \cup WorkPcs => Meant(job.image)
    /\ pc # "end" => saved = NoImage
    /\ FlashedIsMeant

\* What is meant depends on the command line, the indexes, the form and the board, and it
\* stays what is meant while more is said.
SaidMore ==
    /\ UNCHANGED <<args, published>> /\ form'.image = form.image /\ job'.board = job.board
    /\ io.said \subseteq io'.said

LEMMA MeantIsKept ==
  ASSUME SaidMore
  PROVE  /\ saved' = saved /\ Meant(saved) => Meant(saved)'
         /\ saved' = job.image /\ Meant(job.image) => Meant(saved)'
         /\ job'.image = job.image /\ Meant(job.image) => Meant(job.image)'
         /\ \A d : device'[d].image = job.image /\ Meant(job.image) => Meant(device[d].image)'
         /\ \A d : device' = device /\ Meant(device[d].image) => Meant(device[d].image)'
  <1> USE DEF SaidMore, Meant, FromWizard, MeantPath, MeantBoard, MeantVersion, NewestOf, IsLocal
  <1>1. saved' = saved /\ Meant(saved) => Meant(saved)' OBVIOUS
  <1>2. saved' = job.image /\ Meant(job.image) => Meant(saved)' OBVIOUS
  <1>3. job'.image = job.image /\ Meant(job.image) => Meant(job.image)' OBVIOUS
  <1>4. \A d : device'[d].image = job.image /\ Meant(job.image) => Meant(device[d].image)' OBVIOUS
  <1>5. \A d : device' = device /\ Meant(device[d].image) => Meant(device[d].image)' OBVIOUS
  <1> QED BY <1>1, <1>2, <1>3, <1>4, <1>5

\* Nothing on the boards and nothing downloaded is nothing unmeant.
LEMMA NothingUnmeant == Clean /\ saved = NoImage => FlashedIsMeant
  BY CleanIsKept DEF FlashedIsMeant

LEMMA MeantStays ==
  ASSUME FlashedIsMeant, SaidMore, UNCHANGED <<device, saved>> PROVE FlashedIsMeant'
  <1>1. Flashed' = Flashed /\ FromWizard' = FromWizard BY DEF Flashed, FromWizard, SaidMore
  <1>2. \A d \in Flashed : Meant(device[d].image)' BY MeantIsKept DEF FlashedIsMeant
  <1>3. saved' # NoImage => Meant(saved)' BY MeantIsKept DEF FlashedIsMeant
  <1>4. \A d \in Flashed : args'.serial # NoSerial /\ ~FromWizard' => d = MeantSerial(args'.serial)
    BY <1>1 DEF FlashedIsMeant, SaidMore, MeantSerial
  <1>5. MeantSerial(args'.serial) = MeantSerial(args.serial)' BY DEF MeantSerial
  <1> QED BY <1>1, <1>2, <1>3, <1>4, <1>5 DEF FlashedIsMeant

\* What qdl writes is the image of the job, to the board with its serial number.
LEMMA WrittenIsMeant ==
  ASSUME PhaseInv, MeantInv, Clean, pc = "qdl", SaidMore, UNCHANGED saved,
         NEW d \in Selected, device' = Written(d)
  PROVE  FlashedIsMeant'
  <1>1. pc \in WorkPcs BY DEF WorkPcs, BoardPcs
  <1>2. Meant(job.image) /\ saved = NoImage BY <1>1 DEF MeantInv
  <1>3. Flashed' \subseteq {d} /\ d \in Connected /\ device'[d].image = job.image
    <2>1. d \in Connected BY DEF Selected
    <2>2. \A e \in Connected : device[e] = Untouched BY DEF Clean
    <2>3. \A e \in Connected : e # d => device'[e].image = NoImage
      BY <2>2 DEF Written, Untouched, Clean
    <2>4. device'[d].image = job.image BY <2>1 DEF Written, Clean
    <2> QED BY <2>1, <2>3, <2>4 DEF Flashed
  <1>4. Meant(device[d].image)' BY <1>2, <1>3, MeantIsKept
  <1>5. ASSUME args.serial # NoSerial, ~FromWizard PROVE d = MeantSerial(args.serial)
    <2>1. args \in CommandLines /\ ~BadSerial /\ job.serial = Normal(args.serial)
      BY <1>1, <1>5 DEF PhaseInv, MeantInv
    <2>2. job.serial # NoSerial /\ FromNum(job.serial) = {MeantSerial(args.serial)}
      BY <1>5, <2>1, SerialIsMeant
    <2> QED BY <2>2 DEF Selected
  <1>6. FromWizard' = FromWizard /\ args' = args BY DEF SaidMore, FromWizard
  <1>7. \A e \in Flashed' : args'.serial # NoSerial /\ ~FromWizard' => e = MeantSerial(args'.serial)
    BY <1>3, <1>5, <1>6
  <1>8. \A e \in Flashed' : Meant(device[e].image)' BY <1>3, <1>4
  <1>9. MeantSerial(args'.serial) = MeantSerial(args.serial)' BY DEF MeantSerial
  <1> QED BY <1>2, <1>7, <1>8, <1>9 DEF FlashedIsMeant

\* Of an index that was read, or that failed with the user told, the release found is
\* the one that was named.
LEMMA ResolvedIsMeant ==
  ASSUME published \subseteq Releases, Named, ~FromWizard,
         args.command = "flash" => MeantPath = None,
         NEW s \in Snapshots, NEW r \in Resolved(s.releases, job.board, job.image.version),
         UNCHANGED <<args, published>>, s.failed => "index failed" \in io'.said, job'.image = r
  PROVE  Meant(job.image)'
  <1>1. r \in published /\ r \in s.releases BY DEF Resolved, Snapshots
  <1>2. r.path = None BY <1>1 DEF Releases
  <1>3. r.board = job.board /\ (job.image.version # None => r.version = job.image.version)
    BY DEF Resolved
  <1>4. ASSUME "index failed" \notin io'.said, job.image.version = None
        PROVE  \A q \in published : q.board = r.board => Rank[q.version] <= Rank[r.version]
    <2>1. s.releases = published BY <1>4 DEF Snapshots
    <2> QED BY <1>3, <1>4, <2>1 DEF Resolved
  <1>5. /\ ~IsLocal(r)
        /\ args.board # None => r.board = MeantBoard
        /\ MeantVersion # None => r.version = MeantVersion
        /\ args.board # None /\ MeantVersion = None /\ "index failed" \notin io'.said => NewestOf(r)
    BY <1>2, <1>3, <1>4 DEF IsLocal, Named, NewestOf
  <1> QED BY <1>5 DEF Meant, FromWizard, MeantPath, MeantBoard, MeantVersion, NewestOf, IsLocal

LEMMA WarnedSays ==
  ASSUME NEW s, Good(io), s.failed
  PROVE  "index failed" \in Warned(s).said
  BY DEF Warned, Warn, InText, Show, Good, Fields

\* What a command line means does not change.
LEMMA SameWords ==
  ASSUME args' = args
  PROVE  /\ FromWizard' = FromWizard /\ BadSerial' = BadSerial
         /\ Normal(args.serial)' = Normal(args.serial)
         /\ MeantPath' = MeantPath /\ MeantBoard' = MeantBoard /\ MeantVersion' = MeantVersion
  <1>1. FromWizard' = FromWizard BY DEF FromWizard
  <1>2. BadSerial' = BadSerial BY DEF BadSerial, Parse, FromNum, FromHex, AllDecimal
  <1>3. Normal(args.serial)' = Normal(args.serial) BY DEF Normal, Parse, FromNum, FromHex, AllDecimal
  <1>4. MeantPath' = MeantPath /\ MeantBoard' = MeantBoard /\ MeantVersion' = MeantVersion
    BY DEF MeantPath, MeantBoard, MeantVersion
  <1> QED BY <1>1, <1>2, <1>3, <1>4

\* Before the work there is nothing that could be wrong.
LEMMA NotYetMeant ==
  ASSUME MeantInv, Clean, UNCHANGED <<device, saved>>, pc # "end"
  PROVE  FlashedIsMeant' /\ saved' = NoImage
  <1>1. saved' = NoImage BY DEF MeantInv
  <1>2. Clean' BY DEF Clean
  <1>3. (saved = NoImage)' BY <1>1 DEF NoImage, LocalImage
  <1>4. FlashedIsMeant' BY <1>2, <1>3, NothingUnmeant, PTL
  <1> QED BY <1>1, <1>4

\* The arguments and the indexes.
LEMMA ArgumentsMeant ==
  ASSUME PhaseInv, JobShape, WizardInv, MeantInv, Clean, Good(io), UNCHANGED <<form, saved>>,
         CheckArguments \/ Translate \/ Resolve
  PROVE  MeantInv'
  <1> USE DEF FlashPcs, FormPcs, PagePcs, DriverPcs, AskPcs, WorkPcs, ScratchPcs, BoardPcs
  <1>1. FlashedIsMeant' /\ saved' = NoImage
    <2>1. UNCHANGED device /\ pc # "end"
      BY DEF CheckArguments, Translate, Resolve, worldVars
    <2> QED BY <2>1, NotYetMeant
  <1>2. UNCHANGED <<args, published>> BY DEF CheckArguments, Translate, Resolve, Own
  <1>3. FromWizard' = FromWizard /\ BadSerial' = BadSerial BY <1>2, SameWords
  <1>4. Normal(args.serial)' = Normal(args.serial) BY <1>2, SameWords
  <1>5. /\ MeantPath' = MeantPath /\ MeantBoard' = MeantBoard /\ MeantVersion' = MeantVersion
    BY <1>2, SameWords
  <1>6. CASE CheckArguments
    <2>1. pc' \in {"end", "wizard", "translate"}
      BY <1>6 DEF CheckArguments, Continue, Die
    <2>2. pc' = "translate" => ~BadSerial /\ job'.serial = Normal(args.serial)
      BY <1>6 DEF CheckArguments, Continue, Die, JobShape, JobFields
    <2> QED BY <1>1, <1>3, <1>4, <2>1, <2>2 DEF MeantInv
  <1>7. CASE Translate
    <2> DEFINE w == LegacyArgs(Words)
    <2>1. CASE pc' = "end" BY <1>1, <2>1 DEF MeantInv
    <2>2. CASE pc' # "end"
      <3>1. /\ ~Conflict(Words) /\ w.board \in Boards
            /\ job' = [job EXCEPT !.board = w.board,
                                  !.image = [LocalImage(w.image) EXCEPT !.version = w.version]]
            /\ pc' = IF w.image = None THEN "resolve" ELSE "ask"
        BY <1>7, <2>2 DEF Translate, Die
      <3>2. ~FromWizard /\ args.command = "flash" /\ args.board # None /\ pc = "translate"
        BY <1>7 DEF Translate, PhaseInv, FromWizard
      <3>3. w.board = MeantBoard /\ w.version = MeantVersion /\ w.image = MeantPath
        BY <3>1, <3>2, WordsAreMeant
      <3> HIDE DEF w
      <3>4. job'.board = w.board /\ job'.serial = job.serial
            /\ job'.image.path = w.image /\ job'.image.version = w.version
        BY <3>1 DEF JobShape, JobFields, LocalImage
      <3>5. ~BadSerial' /\ job'.serial = Normal(args.serial)'
        BY <3>2, <3>4, <1>3, <1>4 DEF MeantInv
      <3>6. CASE w.image = None
        <4>1. pc' = "resolve" BY <3>1, <3>6
        <4>2. MeantPath' = None /\ Named' BY <1>5, <3>3, <3>4, <3>6 DEF Named
        <4> QED BY <1>1, <3>5, <4>1, <4>2 DEF MeantInv
      <3>7. CASE w.image # None
        <4>1. pc' = "ask" BY <3>1, <3>7
        <4>2. /\ ~FromWizard' /\ MeantPath' # None /\ args'.command = "flash"
              /\ job'.image.path = MeantPath' /\ job'.board = MeantBoard'
          BY <1>2, <1>3, <1>5, <3>2, <3>3, <3>4, <3>7
        <4>3. Meant(job.image)' BY <4>2 DEF Meant
        <4> QED BY <1>1, <3>5, <4>1, <4>3 DEF MeantInv
      <3> QED BY <3>6, <3>7
    <2> QED BY <2>1, <2>2
  <1>8. CASE Resolve
    <2>1. CASE pc' = "end" BY <1>1, <2>1 DEF MeantInv
    <2>2. CASE pc' # "end"
      <3>1. pc = "resolve" /\ pc' = "ask" BY <1>8, <2>2 DEF Resolve
      <3>2. PICK s \in Snapshots : \E r \in Resolved(s.releases, job.board, job.image.version) :
               job' = [job EXCEPT !.image = r] /\ io' = Warned(s)
        BY <1>8, <2>2 DEF Resolve
      <3>3. PICK r \in Resolved(s.releases, job.board, job.image.version) :
               job' = [job EXCEPT !.image = r]
        BY <3>2
      <3>4. job'.image = r /\ job'.serial = job.serial BY <3>3 DEF JobShape, JobFields
      <3>5. ~FromWizard /\ MeantPath = None /\ Named /\ published \subseteq Releases
        BY <3>1, PublishedType DEF PhaseInv, MeantInv, WizardInv
      <3>6. s.failed => "index failed" \in io'.said BY <3>2, WarnedSays
      <3>7. Meant(job.image)' BY <1>2, <3>4, <3>5, <3>6, ResolvedIsMeant
      <3>8. ~BadSerial' /\ job'.serial = Normal(args.serial)'
        BY <3>1, <3>4, <3>5, <1>3, <1>4 DEF MeantInv
      <3> QED BY <1>1, <3>1, <3>7, <3>8 DEF MeantInv
    <2> QED BY <2>1, <2>2
  <1> QED BY <1>6, <1>7, <1>8

\* download.
LEMMA DownloadMeant ==
  ASSUME PhaseInv, JobShape, WizardInv, MeantInv, Clean, OutputInv, DownloadStep
  PROVE  MeantInv'
  <1> USE DEF AskPcs, WorkPcs, ScratchPcs, BoardPcs
  <1>1. /\ UNCHANGED <<args, published, device>> /\ pc \in DownloadPcs
        /\ pc' \in DownloadPcs \cup {"end"}
    BY DownloadMoves DEF Own
  <1>2. ~FromWizard /\ args.command = "download" BY <1>1 DEF PhaseInv, FromWizard
  <1>3. pc \notin {"start", "end"} BY <1>1 DEF DownloadPcs
  <1>4. Good(io) /\ io.exit = "none" BY <1>3 DEF OutputInv
  <1>5. io.said \subseteq io'.said BY <1>4, DownloadOutput DEF Grows, Later
  <1>6. UNCHANGED saved => FlashedIsMeant' /\ saved' = NoImage BY <1>1, <1>3, NotYetMeant
  <1>7. MeantBoard' = MeantBoard /\ MeantVersion' = MeantVersion BY <1>1, SameWords
  <1>8. CASE StartDownload
    <2> DEFINE w == LegacyArgs(Words)
    <2>1. UNCHANGED saved BY <1>8 DEF StartDownload
    <2>2. CASE pc' = "end" BY <1>6, <2>1, <2>2 DEF MeantInv
    <2>3. CASE pc' # "end"
      <3>1. /\ ~Conflict(Words) /\ w.board \in Boards \cup {None}
            /\ job' = [job EXCEPT !.board = w.board, !.image.version = w.version,
                                  !.keep = args.dest = None, !.temp = "other"]
            /\ pc' = IF w.board = None THEN "which board" ELSE "which image"
        BY <1>8, <2>3 DEF StartDownload, Die
      <3> HIDE DEF w
      <3>2. "version" \in DOMAIN job.image BY <1>8 DEF StartDownload, MeantInv
      <3>3. job'.board = w.board BY <3>1 DEF JobShape, JobFields
      <3>4. job'.image = [job.image EXCEPT !.version = w.version] BY <3>1 DEF JobShape, JobFields
      <3>5. job'.image.version = w.version /\ "version" \in DOMAIN job'.image BY <3>2, <3>4
      <3>6. CASE args.board = None
        <4>1. w = Words BY <3>6, WordsDiffer DEF w, LegacyArgs, Words
        <4>2. w.version = args.version /\ w.board = None BY <3>6, <4>1 DEF Words
        <4>3. MeantVersion = args.version BY <3>6, WordsDiffer DEF MeantVersion
        <4>4. pc' = "which board" BY <3>1, <4>2
        <4> QED BY <1>1, <1>6, <1>7, <2>1, <3>5, <3>6, <4>2, <4>3, <4>4 DEF MeantInv
      <3>7. CASE args.board # None
        <4>1. w.board # None
          BY <3>1, <3>7, WordsDiffer, UnoQType DEF w, LegacyArgs, Words
        <4>2. w.board = MeantBoard /\ w.version = MeantVersion
          BY <3>1, <3>7, <4>1, WordsAreMeant DEF w
        <4>3. pc' = "which image" BY <3>1, <4>1
        <4>4. Named' BY <1>7, <3>3, <3>5, <4>2 DEF Named
        <4> QED BY <1>6, <2>1, <4>3, <4>4 DEF MeantInv
      <3> QED BY <3>6, <3>7
    <2> QED BY <2>2, <2>3
  <1>9. CASE AskWhich
    <2>1. UNCHANGED <<job, saved>> /\ pc = "which board" /\ pc' \in {"select image", "end"}
      BY <1>9 DEF AskWhich, FetchImages, Die, flashVars
    <2> QED BY <1>1, <1>6, <2>1 DEF MeantInv
  <1>10. CASE SelectImage
    <2>1. UNCHANGED saved /\ pc = "select image" /\ pc' \in {"which image", "end"}
      BY <1>10 DEF SelectImage, Continue, Die, Leave
    <2>2. args.board = None /\ "version" \in DOMAIN job.image BY <2>1 DEF MeantInv
    <2>3. CASE pc' = "end" BY <1>6, <2>1, <2>3 DEF MeantInv
    <2>4. CASE pc' = "which image"
      <3>1. \E r : job' = [job EXCEPT !.board = r.board,
                                      !.image.version = IF args.version = None THEN r.version
                                                        ELSE args.version]
        BY <1>10, <2>4 DEF SelectImage, Die, Leave
      <3>2. args.version # None => job'.image.version = args.version
        BY <2>2, <3>1 DEF JobShape, JobFields
      <3>3. MeantVersion = args.version BY <2>2, WordsDiffer DEF MeantVersion
      <3>4. Named' BY <1>1, <1>7, <2>2, <3>2, <3>3 DEF Named
      <3> QED BY <1>6, <2>1, <2>4, <3>4 DEF MeantInv
    <2> QED BY <2>1, <2>3, <2>4
  <1>11. CASE ResolveDownload
    <2>1. UNCHANGED saved /\ pc = "which image" /\ pc' \in {"save", "end"}
      BY <1>11 DEF ResolveDownload
    <2>2. CASE pc' = "end" BY <1>6, <2>1, <2>2 DEF MeantInv
    <2>3. CASE pc' = "save"
      <3>1. PICK s \in Snapshots : \E r \in Resolved(s.releases, job.board, job.image.version) :
               job' = [job EXCEPT !.image = r] /\ io' = Warned(s)
        BY <1>11, <2>3 DEF ResolveDownload
      <3>2. PICK r \in Resolved(s.releases, job.board, job.image.version) :
               job' = [job EXCEPT !.image = r]
        BY <3>1
      <3>3. job'.image = r BY <3>2 DEF JobShape, JobFields
      <3>4. Named /\ published \subseteq Releases
        BY <2>1, PublishedType DEF MeantInv, WizardInv
      <3>5. s.failed => "index failed" \in io'.said BY <1>4, <3>1, WarnedSays
      <3>6. Meant(job.image)' BY <1>1, <1>2, <3>3, <3>4, <3>5, ResolvedIsMeant
      <3> QED BY <1>6, <2>1, <2>3, <3>6 DEF MeantInv
    <2> QED BY <2>1, <2>2, <2>3
  <1>12. CASE SaveImage
    <2>1. pc = "save" /\ pc' = "end" /\ UNCHANGED <<form, job>> BY <1>12 DEF SaveImage, Leave, Die
    <2>2. CASE UNCHANGED saved BY <1>6, <2>1, <2>2 DEF MeantInv
    <2>3. CASE saved' = job.image
      <3>1. SaidMore BY <1>1, <1>5, <2>1 DEF SaidMore
      <3>2. Meant(job.image) BY <2>1 DEF MeantInv
      <3>3. Meant(saved)' BY <2>3, <3>1, <3>2, MeantIsKept
      <3>4. Flashed' = {}
        <4>1. Clean' BY <1>1 DEF Clean
        <4>2. (Flashed = {})' BY <4>1, CleanIsKept, PTL
        <4> QED BY <4>2
      <3>5. FlashedIsMeant' BY <3>3, <3>4 DEF FlashedIsMeant
      <3> QED BY <2>1, <3>5 DEF MeantInv
    <2> QED BY <1>12, <2>2, <2>3 DEF SaveImage
  <1> QED BY <1>8, <1>9, <1>10, <1>11, <1>12 DEF DownloadStep

\* What is flashed is settled before the work begins.
LEMMA WorkMeant ==
  ASSUME PhaseInv, JobShape, MeantInv, SpareInv, OutputInv, FlashStep, UNCHANGED <<form, saved>>,
         pc \in {"ask", "answer", "take form"} \cup WorkPcs \cup {"unwind"}
  PROVE  MeantInv'
  <1> USE DEF AskPcs, WorkPcs, ScratchPcs, BoardPcs
  <1>1. /\ UNCHANGED <<args, published>>
        /\ pc' \in {"answer", "prepare", "unwind", "end"} \cup WorkPcs
        /\ pc # "end" /\ pc # "start"
    BY FlashMoves DEF Edges, Own
  <1>2. Good(io) /\ io.exit = "none" BY <1>1 DEF OutputInv
  <1>3. io.said \subseteq io'.said BY <1>2, FlashOutput DEF Grows, Later
  <1>4. FromWizard' = FromWizard /\ BadSerial' = BadSerial BY <1>1, SameWords
  <1>5. Normal(args.serial)' = Normal(args.serial) BY <1>1, SameWords
  <1>6. pc # "unwind" => Clean BY DEF SpareInv
  <1>7. CASE /\ pc \in {"ask", "answer"} \cup WorkPcs /\ UNCHANGED device
             /\ job'.image = job.image /\ job'.board = job.board /\ job'.serial = job.serial
    <2>1. SaidMore BY <1>1, <1>3, <1>7 DEF SaidMore
    <2>2. Meant(job.image)' BY <1>7, <2>1, MeantIsKept DEF MeantInv
    <2>3. FlashedIsMeant' /\ saved' = NoImage BY <1>1, <1>6, <1>7, NotYetMeant
    <2>4. ~FromWizard' => ~BadSerial' /\ job'.serial = Normal(args.serial)'
      BY <1>4, <1>5, <1>7 DEF MeantInv
    <2> QED BY <1>1, <2>2, <2>3, <2>4 DEF MeantInv
  <1>8. CASE Ask \/ Answer \/ Prepare \/ LookupCache \/ CheckFreeSpace \/ Download \/ ExtractImage
    BY <1>7, <1>8
       DEF Ask, Answer, Prepare, LookupCache, CheckFreeSpace, Download, ExtractImage, flashVars, worldVars
  <1>9. CASE InstallQdl \/ CheckSupport \/ ReadBoard \/ AnswerAgain \/ OpenStreams
    BY <1>7, <1>9 DEF InstallQdl, CheckSupport, ReadBoard, AnswerAgain, OpenStreams, worldVars
  <1>10. CASE Decide
    <2>1. job'.image = job.image /\ job'.board = job.board /\ job'.serial = job.serial
      BY <1>10 DEF Decide, JobShape, JobFields
    <2>2. pc = "decide" /\ UNCHANGED device BY <1>10 DEF Decide, worldVars
    <2> QED BY <1>7, <2>1, <2>2
  <1>11. CASE TakeForm
    <2>1. /\ pc = "take form" /\ pc' = "prepare" /\ UNCHANGED device
          /\ job'.image = form.image
      BY <1>11 DEF TakeForm, Continue, worldVars, NoJob
    <2>2. FromWizard' BY <1>4, <2>1 DEF PhaseInv
    <2>3. Meant(job.image)' BY <2>1, <2>2 DEF Meant
    <2>4. FlashedIsMeant' /\ saved' = NoImage BY <1>6, <2>1, NotYetMeant
    <2> QED BY <2>1, <2>2, <2>3, <2>4 DEF MeantInv
  <1>12. CASE RunQdl
    <2>1. pc = "qdl" /\ pc' = "unwind" /\ UNCHANGED job BY <1>12 DEF RunQdl, Fail
    <2>2. saved' = NoImage BY <2>1 DEF MeantInv
    <2>3. CASE UNCHANGED device
      <3>1. FlashedIsMeant' BY <1>6, <2>1, <2>3, NotYetMeant
      <3> QED BY <2>1, <2>2, <3>1 DEF MeantInv
    <2>4. CASE \E d \in Selected : device' = Written(d)
      <3>1. SaidMore BY <1>1, <1>3, <2>1 DEF SaidMore
      <3>2. FlashedIsMeant' BY <1>6, <2>1, <2>4, <3>1, WrittenIsMeant
      <3> QED BY <2>1, <2>2, <3>2 DEF MeantInv
    <2> QED BY <1>12, <2>3, <2>4 DEF RunQdl
  <1>13. CASE Unwind
    <2>1. pc = "unwind" /\ pc' = "end" /\ UNCHANGED <<job, device>> BY <1>13 DEF Unwind, worldVars, Die, Leave
    <2>2. SaidMore BY <1>1, <1>3, <2>1 DEF SaidMore
    <2>3. FlashedIsMeant' BY <2>1, <2>2, MeantStays DEF MeantInv
    <2> QED BY <2>1, <2>3 DEF MeantInv
  <1>14. ~(CheckArguments \/ Translate \/ Resolve) BY DEF CheckArguments, Translate, Resolve
  <1> QED BY <1>8, <1>9, <1>10, <1>11, <1>12, <1>13, <1>14 DEF FlashStep

LEMMA MeantStep ==
  PhaseInv /\ JobShape /\ OutputInv /\ SpareInv /\ WizardInv /\ MeantInv /\ [Next]_vars => MeantInv'
  <1> SUFFICES ASSUME PhaseInv, JobShape, OutputInv, SpareInv, WizardInv, MeantInv, [Next]_vars
               PROVE  MeantInv'
    OBVIOUS
  <1> USE DEF FlashPcs, FormPcs, PagePcs, DriverPcs, AskPcs, WorkPcs, ScratchPcs, BoardPcs, DownloadPcs,
          TellPcs
  <1>1. CASE /\ UNCHANGED <<device, saved>> /\ Clean /\ pc # "end"
             /\ pc' \notin AskPcs \cup WorkPcs \cup DownloadPcs
    BY <1>1, NotYetMeant DEF MeantInv
  <1>2. CASE PersistentPreRun /\ UNCHANGED <<flashVars, saved>>
    <2>1. pc = "start" /\ pc' \notin (AskPcs \cup WorkPcs \cup DownloadPcs) \ {"download command"}
      BY <1>2, Begins
    <2>2. Clean /\ UNCHANGED <<job, device>> BY <1>2, <2>1 DEF SpareInv, flashVars, worldVars
    <2>3. job = NoJob BY <2>1 DEF WizardInv
    <2>4. "version" \in DOMAIN job'.image BY <2>2, <2>3 DEF NoJob, NoImage, LocalImage
    <2>5. FlashedIsMeant' /\ saved' = NoImage BY <1>2, <2>1, <2>2, NotYetMeant
    <2> QED BY <2>1, <2>4, <2>5 DEF MeantInv
  <1>3. CASE (DriverStep \/ WizardStep) /\ UNCHANGED <<flashVars, saved>>
    <2>1. pc \notin {"unwind", "end", "dead"} /\ pc' \notin AskPcs \cup WorkPcs \cup DownloadPcs
      BY <1>3, DriverMoves, FormMoves
    <2> QED BY <1>1, <1>3, <2>1 DEF SpareInv, flashVars, worldVars
  <1>4. CASE FlashStep /\ UNCHANGED <<form, saved>>
    <2>1. CASE CheckArguments \/ Translate \/ Resolve
      <3>1. pc \notin {"start", "unwind", "end", "dead"} BY <2>1 DEF CheckArguments, Translate, Resolve
      <3>2. Clean /\ Good(io) BY <3>1 DEF SpareInv, OutputInv
      <3> QED BY <1>4, <2>1, <3>2, ArgumentsMeant
    <2>2. CASE ~(CheckArguments \/ Translate \/ Resolve)
      <3>1. pc \in {"ask", "answer", "take form"} \cup WorkPcs \cup {"unwind"}
        BY <1>4, <2>2 DEF FlashStep, Ask, Answer, TakeForm, Prepare, LookupCache, CheckFreeSpace, Download,
           ExtractImage, InstallQdl, CheckSupport, ReadBoard, Decide, AnswerAgain, OpenStreams, RunQdl,
           Unwind
      <3> QED BY <1>4, <3>1, WorkMeant
    <2> QED BY <2>1, <2>2
  <1>5. CASE DownloadStep
    <2>1. Clean BY <1>5, DownloadMoves DEF SpareInv
    <2> QED BY <1>5, <2>1, DownloadMeant
  <1>6. CASE TellStep /\ UNCHANGED <<device, saved>>
    <2>1. pc \notin {"unwind", "end", "dead"} /\ pc' \notin AskPcs \cup WorkPcs \cup DownloadPcs
      BY <1>6, TellMoves
    <2> QED BY <1>1, <1>6, <2>1 DEF SpareInv
  <1>7. CASE (Interrupt \/ ClearCache \/ UNCHANGED vars) /\ UNCHANGED <<form, saved>>
    <2>1. UNCHANGED <<args, pc, io, published, form, job, device, saved>>
      BY <1>7 DEF Interrupt, ClearCache, Own, vars, cmdVars, flashVars, worldVars
    <2>2. SaidMore BY <2>1 DEF SaidMore
    <2>3. FlashedIsMeant' BY <2>1, <2>2, MeantStays DEF MeantInv
    <2>4. pc \in {"ask", "answer", "save"} \cup WorkPcs => Meant(job.image)'
      BY <2>1, <2>2, MeantIsKept DEF MeantInv
    <2>5. /\ FromWizard' = FromWizard /\ BadSerial' = BadSerial /\ Named' = Named
          /\ Normal(args.serial)' = Normal(args.serial)
          /\ MeantPath' = MeantPath /\ MeantVersion' = MeantVersion
      BY <2>1, SameWords DEF Named
    <2> QED BY <2>1, <2>3, <2>4, <2>5 DEF MeantInv
  <1>8. CASE Kill /\ UNCHANGED <<form, saved>>
    <2>1. UNCHANGED <<args, published, io, job>> /\ pc' = "dead" /\ pc # "end"
      BY <1>8 DEF Kill, Own, Ended
    <2>2. SaidMore BY <1>8, <2>1 DEF SaidMore
    <2>3. saved' = NoImage BY <1>8, <2>1 DEF MeantInv
    <2>4. CASE UNCHANGED device
      <3>1. FlashedIsMeant' BY <1>8, <2>2, <2>4, MeantStays DEF MeantInv
      <3> QED BY <2>1, <2>3, <3>1 DEF MeantInv
    <2>5. CASE pc = "qdl" /\ \E d \in Selected : device' = Written(d)
      <3>1. Clean BY <2>5 DEF SpareInv
      <3>2. FlashedIsMeant' BY <1>8, <2>2, <2>5, <3>1, WrittenIsMeant
      <3> QED BY <2>1, <2>3, <3>2 DEF MeantInv
    <2> QED BY <1>8, <2>4, <2>5 DEF Kill
  <1> QED BY <1>2, <1>3, <1>4, <1>5, <1>6, <1>7, <1>8 DEF Next, CommandStep, vars

-----------------------------------------------------------------------------
(* The theorems.                                                           *)

CommandsInv ==
    /\ PhaseInv /\ JobShape /\ OutputInv /\ LogInv /\ TempInv /\ RoomInv /\ SpareInv /\ ConsentInv
    /\ WizardInv /\ MeantInv

\* A command line begins with nothing done.
LEMMA InitCommands == Init => CommandsInv
  <1> SUFFICES ASSUME Init PROVE CommandsInv
    OBVIOUS
  <1> USE DEF Init, InitCommand, InitDrivers, InitWizard, InitFlash
  <1>1. PhaseInv
    BY DEF PhaseInv, FlashPcs, FormPcs, PagePcs, DriverPcs, AskPcs, WorkPcs, ScratchPcs, BoardPcs,
       DownloadPcs, TellPcs
  <1>2. JobShape BY DEF JobShape, JobFields, NoJob
  <1>3. OutputInv
    <2>1. io = [f \in Fields |-> io[f]] BY DEF Silent, Fields
    <2> QED BY <2>1 DEF OutputInv, Good, Silent
  <1>4. LogInv BY DEF LogInv
  <1>5. TempInv BY DEF TempInv
  <1>6. RoomInv BY RoomsType DEF RoomInv, RoomIsEnough, NoJob, Disks
  <1>7. SpareInv BY DEF SpareInv, Clean
  <1>8. ConsentInv
    <2>1. ErasedWithConsent BY CleanIsKept DEF Clean
    <2> QED BY <2>1 DEF ConsentInv, AskPcs, WorkPcs, ScratchPcs, BoardPcs
  <1>9. WizardInv
    <2>1. WizardIsHonoured BY NothingTaken
    <2>2. form = [f \in FormFields |-> form[f]] BY DEF FormFields, NoForm
    <2> QED BY <2>1, <2>2 DEF WizardInv, FormPcs, PagePcs, DriverPcs
  <1>10. MeantInv
    <2>1. FlashedIsMeant BY NothingUnmeant DEF Clean
    <2> QED BY <2>1 DEF MeantInv, AskPcs, WorkPcs, ScratchPcs, BoardPcs
  <1> QED
    BY <1>1, <1>2, <1>3, <1>4, <1>5, <1>6, <1>7, <1>8, <1>9, <1>10 DEF CommandsInv

LEMMA CommandsInductive == Spec => []CommandsInv
  <1>1. CommandsInv /\ [Next]_vars => CommandsInv'
    BY PhaseStep, JobStep, OutputStep, LogStep, TempStep, RoomStep, SpareStep, ConsentStep, WizardStepInv,
       MeantStep
       DEF CommandsInv
  <1> QED BY <1>1, InitCommands, PTL DEF Spec

\* flash.go, drivers_windows.go: whatever fails, a command leaves no temporary
\* directory, but that of a qdl that could not be written, and a log only of drivers
\* that were not installed.
THEOREM NothingTemporary == Spec => []NothingTemporaryStays
  <1>1. CommandsInv => NothingTemporaryStays
    BY DEF CommandsInv, TempInv, LogInv, NothingTemporaryStays
  <1> QED BY <1>1, CommandsInductive, PTL

\* updater: the disk space asked for before the work is enough for it, if an archive
\* and what is in it fit the two constants and the archive goes to the disk that was
\* looked at.
THEOREM RoomSuffices == Spec => []RoomIsEnough
  <1>1. CommandsInv => RoomIsEnough BY DEF CommandsInv, RoomInv
  <1> QED BY <1>1, CommandsInductive, PTL

\* main.go, flasher.go: Ctrl-C at any moment before an archive is extracted leaves every
\* board alone.
THEOREM InterruptSpares == Spec => []InterruptSparesBoard
  <1>1. CommandsInv => InterruptSparesBoard
    BY CleanIsKept DEF CommandsInv, SpareInv, InterruptSparesBoard
  <1> QED BY <1>1, CommandsInductive, PTL

\* feedback.go: what was said before a failure, in text, or by a command that lists, is
\* shown when the process has exited, in every format.
THEOREM NothingLost == Spec => []NothingIsLost
  <1>1. CommandsInv => NothingIsLost BY DEF CommandsInv, OutputInv, Good, NothingIsLost
  <1> QED BY <1>1, CommandsInductive, PTL

\* flash.go, flasher.go: for any command line, no data on a board are erased without the
\* consent of a user who saw the question, or of --yes where they were not to be kept.
THEOREM Consented == Spec => []ErasedWithConsent
  <1>1. CommandsInv => ErasedWithConsent BY DEF CommandsInv, ConsentInv
  <1> QED BY <1>1, CommandsInductive, PTL

\* interactive.go: for any variants and any way through the pages, what is flashed is
\* what the last page showed, and a root that is taken fits the variant chosen last.
THEOREM WizardHonoured == Spec => []WizardIsHonoured
  <1>1. CommandsInv => WizardIsHonoured BY DEF CommandsInv, WizardInv
  <1> QED BY <1>1, CommandsInductive, PTL

\* argparse.go, serial.go, flash.go, download.go: for any command line, in the arguments
\* of today or in those of before boards were named, and whatever is on the disk or in the
\* indexes, what is on a board or was downloaded is what the command line means, and it is
\* on the board with the serial number given, however many digits that has.
THEOREM WhatIsMeant == Spec => []FlashedIsMeant
  <1>1. CommandsInv => FlashedIsMeant BY DEF CommandsInv, MeantInv
  <1> QED BY <1>1, CommandsInductive, PTL
=============================================================================
