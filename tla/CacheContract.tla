--------------------------- MODULE CacheContract ---------------------------
(***************************************************************************)
(* What the image cache promises to its callers, without directories,      *)
(* staging or locks: an entry is complete or unusable, an answered request *)
(* finds the image, and only a request that overlapped a Clear may find    *)
(* that the archive has gone.                                              *)
(***************************************************************************)
CONSTANTS Key, Request, KeyOf

VARIABLES
    entry,      \* entry[k]: "complete" when Lookup would accept it
    clearing,   \* whether a Clear is running
    disturbed,  \* the requests that overlapped a Clear
    answer      \* answer[r]: how request r stands

vars == <<entry, clearing, disturbed, answer>>

Pending == {r \in Request : answer[r] \in {"waiting", "promised"}}
Usable(r) == entry[KeyOf[r]] = "complete" \/ r \in disturbed

Become(r, a) == answer' = [answer EXCEPT ![r] = a]

Init ==
    /\ entry \in [Key -> {"complete", "unusable"}]
    /\ clearing = FALSE
    /\ disturbed = {}
    /\ answer = [r \in Request |-> "idle"]

Begin(r) ==
    /\ answer[r] = "idle"
    /\ Become(r, "waiting")
    /\ disturbed' = IF clearing THEN disturbed \cup {r} ELSE disturbed
    /\ UNCHANGED <<entry, clearing>>

\* An entry becomes complete in one step, on behalf of a request for it.
Publish(r) ==
    /\ answer[r] = "waiting"
    /\ entry[KeyOf[r]] = "unusable"
    /\ entry' = [entry EXCEPT ![KeyOf[r]] = "complete"]
    /\ UNCHANGED <<clearing, disturbed, answer>>

\* A path is promised on a verified entry.
Promise(r) ==
    /\ answer[r] = "waiting"
    /\ Usable(r)
    /\ Become(r, "promised")
    /\ UNCHANGED <<entry, clearing, disturbed>>

Read(r) ==
    /\ answer[r] = "promised"
    /\ \/ Usable(r) /\ Become(r, "image")
       \/ r \in disturbed /\ Become(r, "gone")
    /\ UNCHANGED <<entry, clearing, disturbed>>

\* A miss is never reported on a complete entry.
Miss(r) ==
    /\ answer[r] = "waiting"
    /\ entry[KeyOf[r]] = "unusable"
    /\ Become(r, "missed")
    /\ UNCHANGED <<entry, clearing, disturbed>>

GiveUp(r) ==
    /\ answer[r] = "waiting"
    /\ Become(r, "error") \/ Become(r, "dead")
    /\ UNCHANGED <<entry, clearing, disturbed>>

ClearStart ==
    /\ clearing' = TRUE
    /\ disturbed' = disturbed \cup Pending
    /\ UNCHANGED <<entry, answer>>

\* What a disturbed request publishes may be unusable, and disturbs the others.
Spoil(r) ==
    /\ answer[r] = "waiting"
    /\ r \in disturbed
    /\ entry[KeyOf[r]] = "unusable"
    /\ disturbed' = disturbed \cup Pending
    /\ UNCHANGED <<entry, clearing, answer>>

Lose(k) ==
    /\ clearing
    /\ entry[k] = "complete"
    /\ entry' = [entry EXCEPT ![k] = "unusable"]
    /\ UNCHANGED <<clearing, disturbed, answer>>

ClearEnd ==
    /\ clearing
    /\ clearing' = FALSE
    /\ UNCHANGED <<entry, disturbed, answer>>

Next ==
    \/ \E r \in Request :
         Begin(r) \/ Publish(r) \/ Spoil(r) \/ Promise(r) \/ Read(r) \/ Miss(r) \/ GiveUp(r)
    \/ \E k \in Key : Lose(k)
    \/ ClearStart \/ ClearEnd

Spec == Init /\ [][Next]_vars
=============================================================================
