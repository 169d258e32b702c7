---------------------------- MODULE TargetLocal ----------------------------
(***************************************************************************)
(* The local backend (target_local.c): it debugs the FreeRTOS tasks of the *)
(* ESP32 itself.  A state l holds the file's static variables and the      *)
(* scheduler's view of the tasks:                                          *)
(*   halted, suspended, excluded, handles, breakpoints                     *)
(*   run   "absent" (not created or deleted), "ready" or "suspended"       *)
(*   at    the mepc of each task's saved frame                             *)
(* Tasks that is_system_task excludes by name are left out, but for the    *)
(* server's own task; s_suspended, s_excluded are sets, because each task  *)
(* enters at most once.                                                    *)
(***************************************************************************)
EXTENDS Breakpoints, Sequences, FiniteSets

CONSTANT AppTasks     \* the application's tasks: counter_a and counter_b

Main == "main"        \* the task that runs app_main
Srv  == "gdb_srv"     \* the task that runs gdb_server_task

ASSUME TaskAssumption ==
    IsFiniteSet(AppTasks) /\ Main \notin AppTasks /\ Srv \notin AppTasks

Task == AppTasks \cup {Main, Srv}

LocalState ==
    [halted : BOOLEAN, suspended : SUBSET Task, excluded : SUBSET Task,
     handles : Seq(Task), breakpoints : BreakpointTable,
     run : [Task -> {"absent", "ready", "suspended"}], at : [Task -> Addr]]

Existing(l) == {t \in Task : l.run[t] # "absent"}

\* The orders in which uxTaskGetSystemState may list the tasks of S.
Orders(S) ==
    {order \in [1 .. Cardinality(S) -> S] : \A t \in S : \E i \in DOMAIN order : order[i] = t}

\* gdb_server_init ran in main; the server's task excluded itself.
LocalBoot ==
    [halted |-> FALSE, suspended |-> {}, excluded |-> {Main, Srv},
     handles |-> <<>>, breakpoints |-> EmptyTable,
     run |-> [t \in Task |-> IF t \in AppTasks THEN "absent" ELSE "ready"],
     at |-> [t \in Task |-> 0]]

LocalExclude(l, t) == [l EXCEPT !.excluded = @ \cup {t}]

LocalInit(l) ==
    [l EXCEPT !.excluded = {}, !.suspended = {}, !.halted = FALSE,
              !.handles = <<>>, !.breakpoints = EmptyTable]

\* The tasks that halt suspends and that are looked at for a breakpoint.
Debuggable(l) == {t \in Task \ {Srv} : l.run[t] = "ready" /\ t \notin l.excluded}

\* Mutants: halting twice forgets the tasks; only listed tasks are suspended.
LocalHaltTwice(l) ==
    [l EXCEPT !.halted = TRUE, !.suspended = Debuggable(l),
              !.run = [t \in Task |->
                  IF t \in Debuggable(l) THEN "suspended" ELSE l.run[t]]]
LocalHaltListed(l) ==
    LET listed == {t \in Debuggable(l) : \E i \in 1 .. Len(l.handles) : l.handles[i] = t}
    IN IF l.halted THEN l
       ELSE [l EXCEPT !.halted = TRUE, !.suspended = listed,
                      !.run = [t \in Task |->
                          IF t \in listed THEN "suspended" ELSE l.run[t]]]

LocalHalt(l) ==
    IF l.halted THEN l
    ELSE [l EXCEPT !.halted = TRUE, !.suspended = Debuggable(l),
                   !.run = [t \in Task |->
                       IF t \in Debuggable(l) THEN "suspended" ELSE l.run[t]]]

LocalResume(l) ==
    IF ~l.halted THEN l
    ELSE [l EXCEPT !.halted = FALSE, !.suspended = {},
                   !.run = [t \in Task |->
                       IF t \in l.suspended THEN "ready" ELSE l.run[t]]]

LocalGetThreads(l, order) == [l EXCEPT !.handles = order]

HasHandle(l, tid) == tid \in 1 .. Len(l.handles)

LocalWritePc(l, tid, pc) ==
    IF ~HasHandle(l, tid) THEN l
    ELSE [l EXCEPT !.at = [t \in Task |-> IF t = l.handles[tid] THEN pc ELSE l.at[t]]]

LocalSetBreakpoint(l, a)   == [l EXCEPT !.breakpoints = TableSet(@, a)]
LocalClearBreakpoint(l, a) == [l EXCEPT !.breakpoints = TableClear(@, a)]
LocalClearAllBreakpoints(l) == [l EXCEPT !.breakpoints = EmptyTable]

\* The tasks whose frame lies at a breakpoint, and the thread id reported for
\* one: hit_thread_id is left unassigned for a task that is not in the list.
LocalHits(l) ==
    {t \in Debuggable(l) : \E i \in Slot : l.breakpoints[i] = l.at[t]}

LocalHitIds(l, t, garbage) ==
    LET ids == {i \in 1 .. Len(l.handles) : l.handles[i] = t}
    IN IF ids = {} THEN garbage ELSE ids

---------------------------------------------------------------------------
(* The scheduler: app_main creates the tasks and returns; tasks execute.   *)

CanCreate(l, t) == t \in AppTasks /\ l.run[Main] = "ready" /\ l.run[t] = "absent"
CanReturn(l) == l.run[Main] = "ready" /\ \A t \in AppTasks : l.run[t] # "absent"

SetRun(l, t, r)     == [l EXCEPT !.run[t] = r]
TaskExecutes(l, t, pc) == [l EXCEPT !.at[t] = pc]

---------------------------------------------------------------------------
(* What holds of the backend between two calls.                            *)

\* Every task that debugging suspended will be woken by the next resume.
NoTaskLost(l) ==
    \A t \in Task : l.run[t] = "suspended" => l.halted /\ t \in l.suspended

\* While halted, no application task runs.
AllStopped(l) == l.halted => \A t \in AppTasks : l.run[t] # "ready"
=============================================================================
