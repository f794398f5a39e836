------------------------------- MODULE Wizard -------------------------------
(***************************************************************************)
(* The interactive wizard (interactive.go): it offers what the indexes     *)
(* hold, and asks page by page what to flash.  The user goes back and      *)
(* forth between the pages, and what was filled in stays.                  *)
(***************************************************************************)
EXTENDS CommandLine

CONSTANTS
    Capacity,      \* Capacity[b]: what the storage of the variants of board b holds
    GiB,
    Percentages    \* bound: the numbers users enter

ASSUME CapacityType == \A b \in Boards : Capacity[b] \subseteq Nat \ {0}

VARIABLE form      \* what was fetched and is offered, and what was filled in

MinRootSize          == 9 * GiB
MinUserPartitionSize == 2 * GiB
SystemReservedBytes  == 1 * GiB

\* What is entered where a number is wanted.
Text(kind, n) == [kind |-> kind, n |-> n]
Blank   == Text("blank", 0)
Entered == {Blank, Text("junk", 0)} \cup {Text("number", n) : n \in Percentages}

NoForm == [offered |-> {}, image |-> NoImage, capacity |-> 0, preserve |-> FALSE,
           typed |-> Blank, keep |-> FALSE]

InitWizard == form = NoForm

\* fetchImages and, where versions are listed, readImageCache; without any image,
\* `nothing' happens.
FetchImages(next, keep, versions, nothing) ==
    /\ \E s \in Snapshots, inventory \in {TRUE, ~versions} :
         CASE s.releases # {} ->
                /\ form' = [NoForm EXCEPT !.offered = s.releases, !.keep = keep]
                /\ io' = IF inventory THEN Warned(s) ELSE Warn(Warned(s), "no inventory")
                /\ pc' = next
           [] s.releases = {} /\ s.failed -> Die("manifest") /\ UNCHANGED form
           [] OTHER -> nothing /\ UNCHANGED form
    /\ Own

StartWizard ==
    /\ pc = "wizard"
    /\ FetchImages("pick board", args.cache, TRUE, Continue("panicked"))

\* When there is one board it is not asked for.
Offered  == {r.board : r \in form.offered}
OneBoard == \A b, c \in Offered : b = c

\* Ready variables: the first of the options of a select is chosen until the
\* user moves.
PickBoard ==
    /\ pc = "pick board" /\ (OneBoard \/ ~interrupted)
    /\ \E b \in Offered :
         LET images == {r \in form.offered : r.board = b}
         IN  form' = [form EXCEPT !.offered = images,
                                  !.image = CHOOSE r \in Resolved(images, b, None) : TRUE]
    /\ Continue("open form")
    /\ Own

\* The pages, of which a board has those its storage is known for.
Pages == <<"variant", "release", "preserve", "size", "keep", "confirm">>

Visible(p, f) ==
    CASE p = "variant"  -> Capacity[f.image.board] # {}
      [] p = "size"     -> Capacity[f.image.board] # {} /\ ~f.preserve
      [] p = "preserve" -> f.image.board \in Sizable
      [] OTHER -> TRUE

OpenForm ==
    /\ pc = "open form"
    /\ pc' = IF Visible("variant", form) THEN "variant" ELSE "release"
    /\ Own /\ UNCHANGED <<io, form>>

\* parsePercentage and rootSizeFromPct.
Share(capacity, typed) == (capacity * typed.n) \div 100

\* parseRootSize.
\* (Mutant: what was typed counts, also where it was not asked for.)
SizeTyped(f) == IF f.typed.kind = "number" THEN Share(f.capacity, f.typed) ELSE 0
RootSize(f) ==
    IF f.preserve \/ f.typed.kind # "number" \/ f.capacity = 0 THEN 0
    ELSE Share(f.capacity, f.typed)

\* The room a root leaves.
LeavesRoom(root, capacity) == root + SystemReservedBytes + MinUserPartitionSize < capacity

Valid(f) ==
    \/ f.typed.kind = "blank"
    \/ /\ f.typed.kind = "number" /\ f.typed.n \in 1..95
       /\ Share(f.capacity, f.typed) >= MinRootSize
       /\ LeavesRoom(Share(f.capacity, f.typed), f.capacity)

\* What a page may be left with.
Filled(p, f) ==
    CASE p = "variant"  -> {[f EXCEPT !.capacity = c] : c \in Capacity[f.image.board]}
      [] p = "release"  -> {[f EXCEPT !.image = r] : r \in f.offered}
      [] p = "preserve" -> {[f EXCEPT !.preserve = b] : b \in BOOLEAN}
      [] p = "size"     -> {g \in {[f EXCEPT !.typed = t] : t \in Entered} : Valid(g)}
      [] p = "keep"     -> {[f EXCEPT !.keep = b] : b \in BOOLEAN}
      [] p = "confirm"  -> {f}

\* One page on, or back, over those that are hidden.
Neighbours(p, f) ==
    LET shown    == {i \in DOMAIN Pages : Visible(Pages[i], f)}
        here     == CHOOSE i \in DOMAIN Pages : Pages[i] = p
        Next1(S) == {i \in S : \A j \in S : i <= j}
        Prev1(S) == {i \in S : \A j \in S : i >= j}
    IN  {Pages[i] : i \in Next1({j \in shown : j > here}) \cup Prev1({j \in shown : j < here})}

OnPage == pc \in {Pages[i] : i \in DOMAIN Pages}

TurnPage ==
    /\ OnPage /\ ~interrupted
    /\ \E f \in Filled(pc, form) : form' = f /\ pc' \in Neighbours(pc, f)
    /\ Own /\ UNCHANGED io

\* Ctrl-C in a form is a key that aborts it; a cancelled context is an error.
AbortForm ==
    /\ OnPage \/ (pc = "pick board" /\ ~OneBoard)
    /\ IF interrupted THEN Die("wizard failed") ELSE Leave(Say(io, "canceled"))
    /\ Own /\ UNCHANGED form

Confirm ==
    /\ pc = "confirm" /\ ~interrupted
    /\ \/ Continue("take form")
       \/ Leave(Say(io, "canceled"))
    /\ Own /\ UNCHANGED form

WizardStep ==
    StartWizard \/ PickBoard \/ OpenForm \/ TurnPage \/ AbortForm \/ Confirm

\* What the last page shows, buildSummary.
Summary(f) ==
    [board |-> f.image.board, version |-> f.image.version, cached |-> f.keep,
     preserved |-> f.preserve, root |-> RootSize(f)]
=============================================================================
