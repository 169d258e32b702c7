------------------------------ MODULE FileTopic ------------------------------
(***************************************************************************)
(* What the user of the file topic relies on: commands are answered one by *)
(* one; a command changes its own file at one instant, from what it was to *)
(* a whole download of that name or to nothing; it is confirmed when that  *)
(* has happened, and after an error it has not.  Where files are kept, and *)
(* how a download arrives, is not said here.                               *)
(***************************************************************************)
CONSTANTS
    Names,
    Files,     \* what a download may leave under each name
    Absent

VARIABLES
    stored,    \* what is stored under each name
    stage,     \* of the command in progress: "none", "taken", "done", "ok" or "error"
    command

vars == <<stored, stage, command>>

Commands == [action : {"download", "delete"}, name : Names]

Init == stored = [n \in Names |-> Absent] /\ stage = "none"

Take ==
    /\ stage = "none" /\ stage' = "taken"
    /\ command' \in Commands
    /\ UNCHANGED stored

Download ==
    /\ command.action = "download"
    /\ \E f \in Files[command.name] : stored' = [stored EXCEPT ![command.name] = f]

Delete ==
    /\ command.action = "delete" /\ stored[command.name] # Absent
    /\ stored' = [stored EXCEPT ![command.name] = Absent]

Change == stage = "taken" /\ stage' = "done" /\ (Download \/ Delete)

\* A list, or a command that makes no sense, is answered at once.
List    == stage = "none" /\ stage' = "ok" /\ UNCHANGED stored
Confirm == stage = "done" /\ stage' = "ok" /\ UNCHANGED stored
Refuse  == stage \in {"none", "taken"} /\ stage' = "error" /\ UNCHANGED stored
Respond == stage \in {"ok", "error"} /\ stage' = "none" /\ UNCHANGED stored

Next == Take \/ Change \/ List \/ Confirm \/ Refuse \/ Respond

Spec == Init /\ [][Next]_vars
=============================================================================
