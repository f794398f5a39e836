------------------------------ MODULE Drivers ------------------------------
(***************************************************************************)
(* The Windows drivers, which the flash command has installed before all   *)
(* else: in the process itself, or by an elevated child whose console is   *)
(* hidden and which mirrors its output to a log file.                      *)
(***************************************************************************)
EXTENDS CommandLine

VARIABLES
    pnputil,   \* how pnputil ended, "not run" if it was not, or not started
    log        \* the log file: "none", "empty", "written" or "removed"

driverVars == <<pnputil, log>>

\* 0, 259, 3010, and any other code.
Endings == {"not run", "success", "no more items", "reboot", "error"}

InitDrivers == pnputil = "not run" /\ log = "none"

\* What InstallDrivers returns an error for.
Installed(p) == p \in {"success", "no more items"}

Proceed(p, heard) ==
    IF Installed(p) THEN io' = heard /\ pc' = "arguments"
    ELSE /\ io' = Fatal(heard, IF p = "reboot" THEN "reboot required" ELSE "drivers failed")
         /\ pc' = "end"

\* The process is elevated already.
InstallDirectly ==
    /\ pc = "drivers"
    /\ \E p \in Endings :
         /\ pnputil' = p
         /\ Proceed(p, IF p = "not run" THEN io ELSE Say(io, "pnputil output"))
    /\ Own /\ UNCHANGED log

MakeLogFile ==
    /\ pc = "drivers"
    /\ \/ log' = "empty" /\ Continue("elevate")
       \/ log' = log /\ Die("drivers failed")
    /\ Own /\ UNCHANGED pnputil

\* The user may decline.  What the child does before it runs pnputil is not
\* mirrored when it fails, and the log may not be writable.
RunElevated ==
    /\ pc = "elevate"
    /\ \/ /\ \E p \in Endings, l \in {"empty", "written"} : pnputil' = p /\ log' = l
          /\ Continue("driver log")
       \/ Die("drivers failed") /\ UNCHANGED driverVars
    /\ Own

\* The deferred removal of the log comes with a return only: Fatal exits.
PrintDriverLog ==
    /\ pc = "driver log"
    /\ Proceed(pnputil, IF log = "written" THEN Say(io, "pnputil output") ELSE io)
    /\ log' = IF Installed(pnputil) THEN "removed" ELSE log
    /\ Own /\ UNCHANGED pnputil

DriverStep == InstallDirectly \/ MakeLogFile \/ RunElevated \/ PrintDriverLog
=============================================================================
