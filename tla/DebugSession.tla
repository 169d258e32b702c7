---------------------------- MODULE DebugSession ----------------------------
(***************************************************************************)
(* What a debugger relies on when it talks to a target over a link: it is  *)
(* told of a stop only when the target has stopped, each request is        *)
(* answered once and by its own answer, and between a stop and the next    *)
(* `c' or `D' the target does not run.  How the target is reached, halted  *)
(* and polled is not said here.                                            *)
(***************************************************************************)
VARIABLES
    phase,     \* where the conversation is
    halted,    \* the target is halted
    misled     \* something has happened after which nothing is promised

vars == <<phase, halted, misled>>

Init == phase = "detached" /\ halted \in BOOLEAN /\ misled = FALSE

Step(from, to) == phase = from /\ phase' = to

\* The debugger: "attaching", "asking", "resuming" and "leaving" have its
\* request on the way, "told" and "left" the answer.
Request ==
    /\ \/ Step("detached", "attaching")
       \/ Step("stopped", "asking") \/ Step("stopped", "resuming") \/ Step("stopped", "leaving")
    /\ UNCHANGED halted

Hear ==
    /\ Step("told", "stopped") \/ Step("left", "detached")
    /\ UNCHANGED halted

Vanish == Step("stopped", "detached") /\ UNCHANGED halted

\* The server: an attach and a stop end with a halted target, a command keeps it.
Stop   == (Step("attaching", "told") \/ Step("running", "told")) /\ halted' = TRUE
Answer == Step("asking", "told") /\ UNCHANGED halted

\* A target that cannot be resumed stays halted; the session goes on.
Resume == (Step("resuming", "running") \/ Step("leaving", "left")) /\ halted' \in BOOLEAN

\* The target stops by itself, and that only while it may run.
TargetStops ==
    /\ phase \in {"running", "left", "detached", "attaching"}
    /\ halted' = TRUE
    /\ UNCHANGED phase

Next ==
    \/ (Request \/ Hear \/ Vanish \/ Stop \/ Answer \/ Resume \/ TargetStops) /\ UNCHANGED misled
    \/ misled' = TRUE

Spec == Init /\ [][Next]_vars
=============================================================================
