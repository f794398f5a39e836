------------------------------ MODULE Feedback ------------------------------
(***************************************************************************)
(* cmd/feedback: what a command says, and what of it reaches the user.     *)
(* Text is shown as it is said.  JSON (which stands here for its minified  *)
(* form too) is a document: what is said is held back until a result or a  *)
(* fatal error is printed, which takes the warnings, or everything, along. *)
(***************************************************************************)
Formats == {"text", "json"}

\* The package and the two streams of a process.  What is said is a name.
\* `said' is history.
Silent ==
    [format |-> "text", selected |-> FALSE, held |-> {}, warnings |-> {},
     shown |-> {}, said |-> {}, exit |-> "none"]

SetFormat(io, f) == [io EXCEPT !.format = f, !.selected = TRUE, !.warnings = {}]

InText(io) == io.format = "text"

Show(io, what) == [io EXCEPT !.shown = @ \cup what, !.said = @ \cup what]

\* Say is Print and Printf.
Say(io, v) ==
    IF InText(io) THEN Show(io, {v})
                  ELSE [io EXCEPT !.held = @ \cup {v}, !.said = @ \cup {v}]

Warn(io, v) ==
    IF InText(io) THEN Show(io, {v})
                  ELSE [io EXCEPT !.warnings = @ \cup {v}, !.said = @ \cup {v}]

\* In text nothing is held, and what is warned of has been shown.
ShowResult(io, v) == Show(io, {v} \cup io.warnings)

\* (Mutant: the document of the error has only the warnings.)
FatalAlone(io, v) == [Show(io, {v} \cup io.warnings) EXCEPT !.exit = "failed"]
Fatal(io, v) == [Show(io, {v} \cup io.warnings \cup io.held) EXCEPT !.exit = "failed"]

Quit(io) == [io EXCEPT !.exit = "ok"]

\* DirectStreams, without which qdl has nowhere to write to.
\* (Mutant: whatever the format.)
AnyStreams(io) == io.selected
HasStreams(io) == io.selected /\ InText(io)
=============================================================================
