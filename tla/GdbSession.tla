----------------------------- MODULE GdbSession -----------------------------
(***************************************************************************)
(* The server and its client seen as a DebugSession.  A history variable,  *)
(* without influence on any step, records the three events that the code   *)
(* does not guard against and after which GDB may believe what is not so.  *)
(***************************************************************************)
EXTENDS GdbServer

VARIABLE misled

sessionVars == <<vars, misled>>

\* S05 is sent for a ^C although the poll has reported the stop already; `?' is
\* answered without a look at the target, which `D' has let run; GDB is gone with
\* a request or an answer on its way, or with the target running.
StopSentTwice == HandleInterrupt /\ ~s_running
StopAssumed   == HandleHaltReason /\ ~s_running /\ ~ActiveHalted
LeftInBetween == GdbVanishes /\ gdb.mode # "stopped"

Misleads == StopSentTwice \/ StopAssumed \/ LeftInBetween

SessionInit == Init /\ misled = FALSE
SessionNext == Next /\ misled' = (misled \/ Misleads)

SessionSpec     == SessionInit /\ [][SessionNext]_sessionVars
FairSessionSpec == SessionSpec /\ Fairness
---------------------------------------------------------------------------
(* The session.                                                            *)

Attaching == toServer # <<>> /\ toServer[Len(toServer)].op = "?"

\* Where the conversation is: what GDB waits for, and on which side of the link
\* the request or its answer is.
Phase ==
    CASE gdb.mode \in {"detached", "stopped"}           -> gdb.mode
      [] gdb.mode = "leaving" /\ toGdb # <<>>           -> "left"
      [] gdb.mode = "leaving" /\ toGdb = <<>>           -> "leaving"
      [] gdb.mode \in {"waiting", "running"} /\ toGdb # <<>> -> "told"
      [] gdb.mode = "waiting" /\ toGdb = <<>>           ->
            IF Attaching THEN "attaching" ELSE "asking"
      [] gdb.mode = "running" /\ toGdb = <<>>           ->
            IF s_running THEN "running" ELSE "resuming"

\* Until one of the three events the server, either backend behind it, is a
\* debug session: a stop that GDB hears of is true when it hears of it and stays
\* true until it asks for `c' or `D', no answer is left over, and none is missing.
Session == INSTANCE DebugSession
    WITH phase <- Phase, halted <- ActiveHalted, misled <- misled
ImplementsSession == Session!Spec
=============================================================================
