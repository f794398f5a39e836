------------------------------ MODULE Registry ------------------------------
(***************************************************************************)
(* The registry client (internal/registry): Fetch reads every index, any   *)
(* of which may be missing or fail, and merges them into one snapshot,     *)
(* newest first; Filter, Resolve and List answer from the snapshot.        *)
(***************************************************************************)
EXTENDS Naturals, Sequences, FiniteSets, Versions
LOCAL INSTANCE SequencesExt

CONSTANTS
    Indexes,     \* how many indexes indexURLs names, the published ones first
    Label,       \* the labels indexes name boards by
    BoardOf,     \* the board of a label, for the labels of supported boards
    OsOf,        \* the distribution each spelling of one names, perhaps Unnamed
    DefaultOs,   \* DefaultOs[b]: the distribution of a board if none is asked for
    Version,     \* the versions releases carry
    Archive,     \* what a release points at: a URL and its checksum
    Unusable,    \* the archives whose URL or checksum cannot be right
    Answers,     \* bound: what an index may answer
    Unnamed      \* the board or distribution of a request that names none

Entry  == [version : Version, label : Label, distro : DOMAIN OsOf, archive : Archive]
Boards == {BoardOf[l] : l \in DOMAIN BoardOf}
Oses   == {OsOf[d] : d \in DOMAIN OsOf}
Asked  == Oses \cup {DefaultOs[b] : b \in Boards} \cup {Unnamed}

ASSUME IndexesType == Indexes \in Nat
ASSUME BoardOfType == DOMAIN BoardOf \subseteq Label /\ Unnamed \notin Boards
ASSUME DefaultOsType == DOMAIN DefaultOs = Boards
ASSUME VersionType == \A v \in Version : v # <<>> /\ v \in Seq(Seq(0..9))
ASSUME AnswersType ==
    \A a \in Answers : /\ DOMAIN a = {"status", "entries"}
                       /\ a.status \in {"ok", "not found", "failed"}
                       /\ a.entries \in Seq(Entry)
                       /\ a.status # "ok" => a.entries = <<>>

Release ==
    [version : Version, board : Boards, os : Oses, archive : Archive, latest : BOOLEAN]
AnyVersion == <<>>

VARIABLES
    answered,    \* what each index answered, for the indexes read
    res,         \* the releases read so far, then the snapshot
    errs,        \* the indexes Fetch reports an error for
    phase,       \* "fetching", "fetched", or what was done with the snapshot
    request,     \* what was asked of the snapshot
    answer,      \* whether that succeeded, and the releases it returned
    chosen       \* the release the user picked in the form of a download, if one

vars == <<answered, res, errs, phase, request, answer, chosen>>

-----------------------------------------------------------------------------
(* What an index becomes, and what a snapshot is.                          *)

\* What appending the elements of s at the indexes in K, one by one, makes.
Kept(s, K) ==
    [n \in 1..Cardinality(K) |-> s[CHOOSE k \in K : 1 + Cardinality({j \in K : j < k}) = n]]

\* The first of them, if there is one.
FirstOf(s, K) == IF K = {} THEN <<>> ELSE <<s[CHOOSE k \in K : \A j \in K : k <= j]>>

\* (Mutant: the checksum is left to the download.)
KnownBoard(e) == e.label \in DOMAIN BoardOf
Usable(e) == KnownBoard(e) /\ e.archive \notin Unusable

Parsed(e) == [version |-> e.version, board |-> BoardOf[e.label], os |-> OsOf[e.distro],
              archive |-> e.archive, latest |-> FALSE]

\* slices.SortStableFunc: after those that are newer, and those before it that
\* are not older.
Place(rs, i) ==
    1 + Cardinality({j \in DOMAIN rs :
            \/ Older(rs[i].version, rs[j].version)
            \/ j < i /\ ~Older(rs[j].version, rs[i].version)})
Sorted(rs) == [n \in DOMAIN rs |-> rs[CHOOSE i \in DOMAIN rs : Place(rs, i) = n]]

\* (Mutant: a sort that does not keep the order of equal versions.)
SortUnstable(rs) == Sorted(Reverse(rs))
SortNewestFirst(rs) == Sorted(rs)

Readable(entries) ==
    LET usable == Kept(entries, {i \in DOMAIN entries : Usable(entries[i])})
    IN  [i \in DOMAIN usable |-> Parsed(usable[i])]

Parse(entries) == SortNewestFirst(Readable(entries))

Line(r) == <<r.board, r.os>>

MarkLatest(rs) ==
    [i \in DOMAIN rs |->
        [rs[i] EXCEPT !.latest = \A j \in 1..(i - 1) : Line(rs[j]) # Line(rs[i])]]

Matches(r, os, board) == (os = Unnamed \/ r.os = os) /\ (board = Unnamed \/ r.board = board)
Filter(rs, os, board) == Kept(rs, {i \in DOMAIN rs : Matches(rs[i], os, board)})

\* slices.MaxFunc returns the first of the greatest.
\* (Mutant: the arguments are swapped, as they are in the sort.)
NewestSwapped(rs) ==
    FirstOf(rs, {i \in DOMAIN rs : \A j \in DOMAIN rs : ~Older(rs[j].version, rs[i].version)})
Newest(rs) ==
    FirstOf(rs, {i \in DOMAIN rs : \A j \in DOMAIN rs : ~Older(rs[i].version, rs[j].version)})

ByVersion(rs, version) == FirstOf(rs, {i \in DOMAIN rs : rs[i].version = version})

Resolved(rs, os, board, version) ==
    LET matching == Filter(rs, os, board)
    IN  IF version = AnyVersion THEN Newest(matching) ELSE ByVersion(matching, version)

-----------------------------------------------------------------------------
Init ==
    /\ answered = <<>>
    /\ res = <<>>
    /\ errs = {}
    /\ phase = "fetching"
    /\ request = [os |-> Unnamed, board |-> Unnamed, version |-> AnyVersion]
    /\ answer = [ok |-> TRUE, releases |-> <<>>]
    /\ chosen = <<>>

\* A failure is kept for the end.
\* (Mutant: it ends the loop.)
FailAtOnce(i) == errs' = errs \cup {i} /\ phase' = "fetched"
FailLater(i) == errs' = errs \cup {i} /\ UNCHANGED phase

\* One index after the other.
Load ==
    /\ phase = "fetching" /\ Len(answered) < Indexes
    /\ \E a \in Answers :
         /\ answered' = Append(answered, a)
         /\ res' = res \o Parse(a.entries)
         /\ IF a.status = "failed" THEN FailLater(Len(answered) + 1)
                                   ELSE UNCHANGED <<errs, phase>>
    /\ UNCHANGED <<request, answer, chosen>>

\* (Mutant: each index is sorted already.)
MergeAsRead(rs) == MarkLatest(rs)
Merged(rs) == MarkLatest(SortNewestFirst(rs))

Merge ==
    /\ phase = "fetching" /\ Len(answered) = Indexes
    /\ res' = Merged(res)
    /\ phase' = "fetched"
    /\ UNCHANGED <<answered, errs, request, answer, chosen>>

\* A snapshot nothing has been done with yet.
Fresh == phase = "fetched" /\ chosen = <<>>

\* The flash and download commands and the Flash request.
Resolve ==
    /\ Fresh
    /\ \E os \in Oses \cup {Unnamed}, board \in Boards, version \in Version \cup {AnyVersion} :
         LET rel == Resolved(res, os, board, version)
         IN  /\ request' = [os |-> os, board |-> board, version |-> version]
             /\ answer' = [ok |-> rel # <<>>, releases |-> rel]
    /\ phase' = "resolved"
    /\ UNCHANGED <<answered, res, errs, chosen>>

\* (Mutant: an error hides the releases that could be read.)
AnyFailed == errs # {}
NothingRead == errs # {} /\ res = <<>>

\* The List request and the list command.
List ==
    /\ Fresh
    /\ \E os \in Oses \cup {Unnamed}, board \in Boards \cup {Unnamed} :
         /\ request' = [os |-> os, board |-> board, version |-> AnyVersion]
         /\ answer' = IF NothingRead THEN [ok |-> FALSE, releases |-> <<>>]
                      ELSE [ok |-> TRUE, releases |-> Filter(res, os, board)]
    /\ phase' = "listed"
    /\ UNCHANGED <<answered, res, errs, chosen>>

\* The wizard takes the first of the boards for which there is a release, or lets
\* the user choose one, and one of its distributions if it has several.
Wizard ==
    /\ Fresh /\ ~NothingRead
    /\ \/ /\ \E i \in DOMAIN res :
             LET r == res[i]
             IN  /\ request' = [os |-> r.os, board |-> r.board, version |-> AnyVersion]
                 /\ answer' = [ok |-> TRUE, releases |-> Filter(res, r.os, r.board)]
          /\ phase' = "offered"
       \/ res = <<>> /\ phase' = "panicked" /\ UNCHANGED <<request, answer>>
    /\ UNCHANGED <<answered, res, errs, chosen>>

\* (Mutant: the default of the board goes before what was picked.)
DefaultFirst(picked, flag, board) == DefaultOs[board]
OsAsked(picked, flag, board) ==
    IF picked # Unnamed THEN picked ELSE IF flag # Unnamed THEN flag ELSE DefaultOs[board]

\* The form of the download command: one of the images it offers.
Choose ==
    /\ Fresh /\ ~NothingRead
    /\ \E i \in DOMAIN res, flag \in Oses \cup {Unnamed} :
         /\ chosen' = <<res[i]>>
         /\ request' = [os      |-> OsAsked(res[i].os, flag, res[i].board),
                        board   |-> res[i].board,
                        version |-> res[i].version]
    /\ phase' = "chosen"
    /\ UNCHANGED <<answered, res, errs, answer>>

\* By the second round trip one index (a bound) may fail, or hold more releases.
Later(before, now) ==
    \/ now.status = "failed"
    \/ now.status = "ok" /\ IsPrefix(before.entries, now.entries)

\* The command reads every index again,
FetchAgain ==
    /\ phase = "chosen"
    /\ \E i \in DOMAIN answered, a \in Answers :
         /\ Later(answered[i], a)
         /\ answered' = [answered EXCEPT ![i] = a]
    /\ res' = FlattenSeq([i \in DOMAIN answered |-> Parse(answered'[i].entries)])
    /\ errs' = {i \in DOMAIN answered : answered'[i].status = "failed"}
    /\ phase' = "fetching"
    /\ UNCHANGED <<request, answer, chosen>>

\* to resolve what was picked.
Download ==
    /\ phase = "fetched" /\ chosen # <<>>
    /\ LET rel == Resolved(res, request.os, request.board, request.version)
       IN  answer' = [ok |-> rel # <<>>, releases |-> rel]
    /\ phase' = "downloaded"
    /\ UNCHANGED <<answered, res, errs, request, chosen>>

Next == Load \/ Merge \/ Resolve \/ List \/ Wizard \/ Choose \/ FetchAgain \/ Download

Spec == Init /\ [][Next]_vars

-----------------------------------------------------------------------------
(* Properties.                                                             *)

Indexed == 1..Len(answered)

\* The usable releases of the indexes read, in the order they are published in.
Published == FlattenSeq([i \in Indexed |-> Readable(answered[i].entries)])

Occurrences(r, rs) ==
    Cardinality({i \in DOMAIN rs : [rs[i] EXCEPT !.latest = FALSE] = r})

\* "One index failing does not hide the rest": every usable release of the indexes
\* that could be read is in the snapshot as often as it was published, and an
\* error is reported for those that failed and for no other.
FailureIsContained ==
    phase # "fetching" =>
        /\ Len(answered) = Indexes
        /\ Len(res) = Len(Published)
        /\ \A i \in DOMAIN Published :
             Occurrences(Published[i], res) = Occurrences(Published[i], Published)
        /\ errs = {i \in Indexed : answered[i].status = "failed"}

\* Of every line, of whichever indexes it spans, exactly one release is flagged
\* as the latest, and none that could be read is newer.
LatestIsNewest ==
    phase # "fetching" =>
        \A i \in DOMAIN Published :
            LET flagged == {n \in DOMAIN res : res[n].latest /\ Line(res[n]) = Line(Published[i])}
            IN  /\ Cardinality(flagged) = 1
                /\ \A n \in flagged : ~Older(res[n].version, Published[i].version)

\* A request that names no version is answered with the newest release that
\* matches it, which is the latest of its line; it fails only if none matches.
\* "What is published stays visible": of two indexes that hold a version of a
\* line, the first one decides which archive is flashed, whatever the other adds.
ResolvedIsPublished ==
    LET matching == Filter(Published, request.os, request.board)
        carrying == Kept(matching, {i \in DOMAIN matching : matching[i].version = request.version})
        wanted   == IF request.version = AnyVersion THEN matching ELSE carrying
        rel      == answer.releases[1]
    IN  phase = "resolved" =>
            /\ answer.ok <=> wanted # <<>>
            /\ answer.ok /\ request.version = AnyVersion =>
                 /\ rel.latest /\ Matches(rel, request.os, request.board)
                 /\ \A i \in DOMAIN matching : ~Older(rel.version, matching[i].version)
            /\ answer.ok /\ request.version # AnyVersion =>
                 [rel EXCEPT !.latest = FALSE] = carrying[1]

\* List answers, and the wizard offers, everything that matches, newest first, and
\* the flag of every line survives the filter: the first image of the wizard is the
\* one it calls the latest.  They fail only if there is nothing to show and an index
\* could not be read.
ListIsComplete ==
    phase \in {"listed", "offered"} =>
        LET matching == Filter(Published, request.os, request.board)
            listed   == answer.releases
        IN  /\ ~answer.ok => Published = <<>> /\ errs # {}
            /\ answer.ok => Len(listed) = Len(matching)
            /\ \A i, j \in DOMAIN listed :
                 i < j => ~Older(listed[i].version, listed[j].version)
            /\ \A i \in DOMAIN listed : \E j \in 1..i :
                 listed[j].latest /\ Line(listed[j]) = Line(listed[i])

\* The image picked in the form is the one downloaded, although the indexes are
\* read again: of a line that names its distribution, and carries a version once,
\* no other archive can take its place, and it is found if it could be read.
ChosenIsDownloaded ==
    phase = "downloaded" /\ chosen[1].os # Unnamed =>
        LET pick  == [chosen[1] EXCEPT !.latest = FALSE]
            alike == Kept(Published, {i \in DOMAIN Published :
                         /\ Line(Published[i]) = Line(pick)
                         /\ Published[i].version = pick.version})
        IN  /\ answer.ok <=> alike # <<>>
            /\ answer.ok => \E i \in DOMAIN alike :
                 [answer.releases[1] EXCEPT !.latest = FALSE] = alike[i]
            /\ alike = <<pick>> => [answer.releases[1] EXCEPT !.latest = FALSE] = pick

\* "No releases and no error means nothing is published yet": the wizard has no
\* board to begin with then, and has to stop instead of taking the first.
WizardHasBoard == phase # "panicked"
=============================================================================
