------------------------------ MODULE GdbServer ------------------------------
(***************************************************************************)
(* The GDB server task (gdb_server.c) between a GDB client and the target. *)
(* The task alternates a poll of the target, while s_running, and the      *)
(* packets that have arrived; it is the only task that touches the target, *)
(* and the tasks and the hart it debugs run between its steps.             *)
(* A handler is one action.  The hart acts in between only: each handler   *)
(* looks at a running hart at most once before it stops it, so a hit       *)
(* during the handler is a hit before or after it.                         *)
(* The links are FIFO queues of packets and of replies: framing, MQTT and  *)
(* its losses belong to other parts of the system.                         *)
(***************************************************************************)
EXTENDS Target

CONSTANTS
    Ops,          \* what GDB may do in this instance
    GarbageTids,  \* what an unassigned hit_tid may hold
    MaxInFlight   \* GDB sends only with fewer messages than this on the way

AllOps == {"?", "g", "P", "P32", "m", "Z", "z", "c", "s", "H", "qfThreadInfo",
           "target local", "target jtag", "riscv_load", "D", "intr", "vanish"}

ASSUME OpsAssumption     == Ops \subseteq AllOps
ASSUME GarbageAssumption == GarbageTids \subseteq Nat
ASSUME BoundAssumption   == MaxInFlight \in Nat

VARIABLES
    target,           \* s_ops and the two backends
    s_running,
    s_current_tid,
    s_thread_count,
    gdb,              \* the client: its mode, and whether it has sent ^C
    toServer,         \* packets on their way to the server
    toGdb             \* replies on their way to GDB: "stop" (S05) or "answer"

vars == <<target, s_running, s_current_tid, s_thread_count, gdb, toServer, toGdb>>

\* A packet: what it asks and the one argument that matters.
ArgsOf(op) ==
    CASE op \in {"Z", "z", "P32", "riscv_load"} -> Addr
      [] op = "H" -> 0 .. Cardinality(Task)
      [] OTHER    -> {0}

Packet == UNION {[op : {op}, arg : ArgsOf(op)] : op \in AllOps}

\* GDB sends these on behalf of its user when it believes the target stopped.
Commands == {p \in Packet : p.op \in Ops \ {"?", "intr", "vanish"}}

Mode == {"detached", "stopped", "waiting", "running", "leaving"}

TypeOK ==
    /\ target \in TargetState
    /\ s_running \in BOOLEAN
    /\ s_current_tid \in Nat
    /\ s_thread_count \in Nat
    /\ gdb \in [mode : Mode, interrupting : BOOLEAN]
    /\ toServer \in Seq(Packet)
    /\ toGdb \in Seq({"stop", "answer"})

ThreadOrders(tg) == IF OnJtag(tg) THEN {<<>>} ELSE Orders(Existing(tg.local))

\* gdb_server_init, and gdb_server_task up to its loop.
Init ==
    /\ \E pc \in Addr, order \in Orders(Existing(LocalBoot)) :
         target = [ops |-> "local", jtag |-> JtagBoot(pc),
                   local |-> LocalGetThreads(LocalBoot, order)]
    /\ s_running = TRUE
    /\ s_thread_count = Cardinality(Existing(LocalBoot))
    /\ s_current_tid = 1
    /\ gdb = [mode |-> "detached", interrupting |-> FALSE]
    /\ toServer = <<>>
    /\ toGdb = <<>>

---------------------------------------------------------------------------
(* The server.                                                             *)

Reply(kind) == toGdb' = Append(toGdb, kind)

\* refresh_thread_list, after tg was reached and the current thread set to tid.
Refresh(tg, tid) ==
    \E order \in ThreadOrders(tg) :
        /\ target' = TargetGetThreads(tg, order)
        /\ s_thread_count' = TargetThreadCount(tg, order)
        /\ s_current_tid' = IF tid = 0 THEN 1 ELSE tid

Poll ==
    /\ s_running
    /\ \E f \in Faults :
         /\ TargetHit(target, f)
         /\ \E tid \in TargetHitIds(target, GarbageTids) :
              Refresh(TargetHalt(TargetCheckBreakpoints(target, f), f), tid)
    /\ s_running' = FALSE
    /\ Reply("stop")
    /\ UNCHANGED <<gdb, toServer>>

Receive(op) ==
    /\ toServer # <<>>
    /\ Head(toServer).op = op
    /\ toServer' = Tail(toServer)
    /\ UNCHANGED gdb

Arg == Head(toServer).arg

\* Mutant: nothing is sent when the target is known to be stopped already.
HandleInterruptQuiet ==
    /\ Receive("intr")
    /\ \E f \in Faults : Refresh(TargetHalt(target, f), s_current_tid)
    /\ s_running' = FALSE
    /\ IF s_running /\ ~TargetHit(target, {}) THEN Reply("stop") ELSE UNCHANGED toGdb

\* 0x03: the target is halted and S05 sent whatever s_running says.
HandleInterrupt ==
    /\ Receive("intr")
    /\ \E f \in Faults : Refresh(TargetHalt(target, f), s_current_tid)
    /\ s_running' = FALSE
    /\ Reply("stop")

\* Mutant: the stop is claimed without a halt.
HandleHaltReasonUnhalted ==
    /\ Receive("?")
    /\ UNCHANGED <<target, s_current_tid, s_thread_count>>
    /\ s_running' = FALSE
    /\ Reply("stop")

HandleHaltReason ==
    /\ Receive("?")
    /\ IF s_running
       THEN \E f \in Faults : Refresh(TargetHalt(target, f), s_current_tid)
       ELSE UNCHANGED <<target, s_current_tid, s_thread_count>>
    /\ s_running' = FALSE
    /\ Reply("stop")

Unmoved == UNCHANGED <<s_running, s_current_tid, s_thread_count>>

\* `g' and `p'
HandleReadRegisters ==
    /\ Receive("g")
    /\ \E f \in Faults : target' = TargetReadRegisters(target, f)
    /\ Unmoved /\ Reply("answer")

\* `P8=' and `P9='
HandleWriteScratch ==
    /\ Receive("P")
    /\ target' = TargetWriteScratch(target)
    /\ Unmoved /\ Reply("answer")

\* `P20='
HandleWritePc ==
    /\ Receive("P32")
    /\ \E f \in Faults : target' = TargetWritePc(target, s_current_tid, Arg, f)
    /\ Unmoved /\ Reply("answer")

\* `m' and `M'
HandleMemory ==
    /\ Receive("m")
    /\ \E f \in Faults : target' = TargetMemory(target, f)
    /\ Unmoved /\ Reply("answer")

HandleBreakpointSet ==
    /\ Receive("Z")
    /\ \E f \in Faults : target' = TargetSetBreakpoint(target, Arg, f)
    /\ Unmoved /\ Reply("answer")

HandleBreakpointClear ==
    /\ Receive("z")
    /\ \E f \in Faults : target' = TargetClearBreakpoint(target, Arg, f)
    /\ Unmoved /\ Reply("answer")

\* Mutant: s_running is not set.
HandleContinueUnwatched ==
    /\ Receive("c")
    /\ \E f \in Faults : target' = TargetContinue(target, f)
    /\ UNCHANGED <<s_running, s_current_tid, s_thread_count, toGdb>>

\* `c' and `vCont;c': the reply is the stop that Poll will report.
HandleContinue ==
    /\ Receive("c")
    /\ \E f \in Faults : target' = TargetContinue(target, f)
    /\ s_running' = TRUE
    /\ UNCHANGED <<s_current_tid, s_thread_count, toGdb>>

\* `s' and `vCont;s': dpc advances by one word, on the hart, whatever s_ops is.
HandleStep ==
    /\ Receive("s")
    /\ \E f \in Faults :
         target' = [target EXCEPT !.jtag = WriteDpc(@, (@.dpc + 1) % NumAddrs, f)]
    /\ Unmoved /\ Reply("stop")

\* The letter of Hg and Hc is not looked at; 0 and -1 stand for thread 1.
HandleSetThread ==
    /\ Receive("H")
    /\ LET tid == IF Arg = 0 THEN 1 ELSE Arg
       IN s_current_tid' = IF tid <= s_thread_count THEN tid ELSE s_current_tid
    /\ UNCHANGED <<target, s_running, s_thread_count>>
    /\ Reply("answer")

HandleThreadInfo ==
    /\ Receive("qfThreadInfo")
    /\ Refresh(target, s_current_tid)
    /\ UNCHANGED s_running
    /\ Reply("answer")

\* The backend is switched; the local one then excludes the server's task again.
Switched(backend, f) ==
    LET tg == TargetSetBackend(target, backend, f)
    IN IF backend = "local" THEN [tg EXCEPT !.local = LocalExclude(@, Srv)] ELSE tg

\* The threads are listed before the new backend is halted.
Switch(backend) ==
    /\ \E f \in Faults : \E order \in ThreadOrders(Switched(backend, f)) :
         LET tg == Switched(backend, f)
         IN /\ target' = TargetHalt(TargetGetThreads(tg, order), f)
            /\ s_thread_count' = TargetThreadCount(tg, order)
    /\ s_current_tid' = IF s_current_tid = 0 THEN 1 ELSE s_current_tid
    /\ s_running' = FALSE
    /\ Reply("answer")

HandleTargetLocal == Receive("target local") /\ Switch("local")

HandleTargetJtag == Receive("target jtag") /\ Switch("jtag")

\* The file is in ramfs; the image goes to the hart whatever s_ops is.
HandleRiscvLoad ==
    /\ Receive("riscv_load")
    /\ \E f \in Faults :
         LET stopped == TargetHalt(target, f)
             loaded  == AccessMemory(stopped.jtag, f)
         IN target' = [stopped EXCEPT !.jtag =
                         IF OnHart(loaded, "mem", f) THEN WriteDpc(loaded, Arg, f)
                         ELSE loaded]
    /\ Unmoved /\ Reply("answer")

\* `D' and `k'
HandleDetach ==
    /\ Receive("D")
    /\ \E f \in Faults :
         target' = TargetContinue(TargetClearAllBreakpoints(target, f), f)
    /\ s_running' = FALSE
    /\ UNCHANGED <<s_current_tid, s_thread_count>>
    /\ Reply("answer")

Handle ==
    \/ HandleInterrupt \/ HandleHaltReason \/ HandleReadRegisters
    \/ HandleWriteScratch \/ HandleWritePc \/ HandleMemory
    \/ HandleBreakpointSet \/ HandleBreakpointClear
    \/ HandleContinue \/ HandleStep \/ HandleSetThread \/ HandleThreadInfo
    \/ HandleTargetLocal \/ HandleTargetJtag \/ HandleRiscvLoad \/ HandleDetach

---------------------------------------------------------------------------
(* What is debugged: the hart and the tasks.                               *)

ServerIdle == UNCHANGED <<s_running, s_current_tid, s_thread_count, toServer, toGdb>>

HartMoves ==
    /\ ~target.jtag.hart_halted /\ ~AtTrigger(target.jtag)
    /\ \E pc \in Addr : target' = [target EXCEPT !.jtag = HartExecutes(@, pc)]
    /\ ServerIdle /\ UNCHANGED gdb

HartHits ==
    /\ AtTrigger(target.jtag)
    /\ target' = [target EXCEPT !.jtag = HartStops(@)]
    /\ ServerIdle /\ UNCHANGED gdb

\* A halt request that dm_halt gave up waiting for takes effect.
HartStopsLate ==
    /\ ~target.jtag.hart_halted /\ target.jtag.haltreq
    /\ target' = [target EXCEPT !.jtag = HartStops(@)]
    /\ ServerIdle /\ UNCHANGED gdb

TaskCreated(t) ==
    /\ CanCreate(target.local, t)
    /\ target' = [target EXCEPT !.local = SetRun(@, t, "ready")]
    /\ ServerIdle /\ UNCHANGED gdb

MainReturns ==
    /\ CanReturn(target.local)
    /\ target' = [target EXCEPT !.local = SetRun(@, Main, "absent")]
    /\ ServerIdle /\ UNCHANGED gdb

TaskMoves(t) ==
    /\ target.local.run[t] = "ready"
    /\ \E pc \in Addr : target' = [target EXCEPT !.local = TaskExecutes(@, t, pc)]
    /\ ServerIdle /\ UNCHANGED gdb

---------------------------------------------------------------------------
(* GDB: it has one command outstanding, and ^C while it waits for a stop.  *)

Client == UNCHANGED <<target, s_running, s_current_tid, s_thread_count>>

Send(packet, mode, interrupting) ==
    /\ Len(toServer) + Len(toGdb) < MaxInFlight
    /\ toServer' = Append(toServer, packet)
    /\ gdb' = [mode |-> mode, interrupting |-> interrupting]
    /\ UNCHANGED toGdb /\ Client

GdbAttaches ==
    /\ gdb.mode = "detached"
    /\ Send([op |-> "?", arg |-> 0], "waiting", FALSE)

GdbCommands ==
    /\ gdb.mode = "stopped"
    /\ \E p \in Commands :
         Send(p, CASE p.op = "c" -> "running" [] p.op = "D" -> "leaving"
                   [] OTHER -> "waiting", FALSE)

GdbInterrupts ==
    /\ "intr" \in Ops
    /\ gdb.mode = "running" /\ ~gdb.interrupting
    /\ Send([op |-> "intr", arg |-> 0], "running", TRUE)

\* A running target answers with a stop only.
GdbReceives ==
    /\ gdb.mode \in {"waiting", "running", "leaving"} /\ toGdb # <<>>
    /\ toGdb' = Tail(toGdb)
    /\ gdb' = CASE gdb.mode = "leaving" -> [mode |-> "detached", interrupting |-> FALSE]
                [] gdb.mode = "running" /\ Head(toGdb) = "answer" -> gdb
                [] OTHER -> [mode |-> "stopped", interrupting |-> FALSE]
    /\ UNCHANGED toServer /\ Client

\* The connection to the bridge ends without a `D'.
GdbVanishes ==
    /\ "vanish" \in Ops /\ gdb.mode # "detached"
    /\ gdb' = [mode |-> "detached", interrupting |-> FALSE]
    /\ UNCHANGED <<toServer, toGdb>> /\ Client

\* The bridge drops what arrives while no GDB is connected.
BridgeDrops ==
    /\ gdb.mode = "detached" /\ toGdb # <<>>
    /\ toGdb' = Tail(toGdb)
    /\ UNCHANGED <<gdb, toServer>> /\ Client

---------------------------------------------------------------------------
Environment ==
    \/ HartMoves \/ HartHits \/ HartStopsLate \/ MainReturns
    \/ \E t \in AppTasks : TaskCreated(t) \/ TaskMoves(t)

GdbSide ==
    \/ GdbAttaches \/ GdbCommands \/ GdbInterrupts \/ GdbReceives
    \/ GdbVanishes \/ BridgeDrops

Next == Poll \/ Handle \/ Environment \/ GdbSide

Spec == Init /\ [][Next]_vars

\* The server's loop polls, then reads its queue, every 50 ms; GDB reads its
\* socket.  Nothing is asked of the user, the hart or the tasks.  Taken is what
\* Handle does to the queue and Reported what Poll does to s_running: each is
\* possible exactly when that action is, and no other step does it.
Taken    == toServer # <<>> /\ toServer' = Tail(toServer)
Reported == s_running /\ s_running' = FALSE /\ toServer' = toServer
              /\ \E f \in Faults : TargetHit(target, f)

Fairness ==
    WF_toServer(Taken) /\ WF_s_running(Reported) /\ WF_vars(GdbReceives)

FairSpec == Spec /\ Fairness
---------------------------------------------------------------------------
(* Properties.                                                             *)

\* The backend never believes a hart halted that runs: memory, registers and
\* triggers are accessed through abstract commands, which only a halted hart
\* executes, and handlers skip them when s_halted is false.
HaltFlagsSound == HaltFlagSound(target.jtag)

\* No address occupies two slots of a table, so that one `z' is enough to
\* disable the breakpoint that any number of `Z' set.
NoDuplicateSlots ==
    /\ NoDuplicates(target.jtag.breakpoints)
    /\ NoDuplicates(target.local.breakpoints)

\* What every handler keeps, whatever packets arrive: no index, thread id or
\* queue outside its range, and tables that one `z' per address empties.
ServerIsSound == TypeOK /\ NoDuplicateSlots

\* The program's s0 and s1, which every memory access overwrites, can always be
\* put back: if they ever cannot, `monitor target jtag' has just forgotten the
\* saved copies, or `s' or riscv_load, which bypass the backend, have reached a
\* hart whose stop it has not noticed.
ScratchKept ==
    [][ScratchSafe(target.jtag) =>
         \/ ScratchSafe(target.jtag)' \/ HandleTargetJtag
         \/ (HandleStep \/ HandleRiscvLoad) /\ ~target.jtag.halted]_vars

\* While the backend holds the hart halted it has a copy of s0 and s1: without
\* one the next memory access would overwrite them for good.
HaltedMeansSaved == target.jtag.halted => target.jtag.regs_saved

\* A trigger can only survive the removal of its breakpoint when that removal
\* came while the backend did not hold the hart halted.
TriggersStaleOnlyWhileRunning ==
    [][TriggersOwned(target.jtag) =>
         TriggersOwned(target.jtag)' \/ ~target.jtag.halted]_vars

\* Two active breakpoints that the hart's tselect cannot tell apart.
Conflict(j) ==
    \E i, k \in Active(j.breakpoints) : i # k /\ TriggerOf(i) = TriggerOf(k)

InStep(j) ==
    \A i \in Active(j.breakpoints) : j.trigger[TriggerOf(i)] = j.breakpoints[i]

\* The triggers follow the table, and ^C to a running hart brings them in step:
\* a breakpoint is left unarmed only if it was set while the backend did not
\* hold the hart halted, or if two breakpoints share a trigger.
ReachesRunningHart ==
    HandleInterrupt /\ OnJtag(target) /\ target.jtag.initialized /\ ~target.jtag.halted

ArmedInStep ==
    [][InStep(target.jtag) \/ ReachesRunningHart =>
         \/ InStep(target.jtag)' \/ Conflict(target.jtag) \/ Conflict(target.jtag)'
         \/ HandleBreakpointSet /\ ~target.jtag.halted]_vars

\* A hart that runs under the JTAG backend while nobody polls it.
Unwatched == OnJtag(target) /\ ~target.jtag.hart_halted /\ ~s_running

\* Only `D' and `k' let the hart run without the server polling it.
WatchEndsOnlyByDetach == [][~Unwatched => ~Unwatched' \/ HandleDetach]_vars

\* After a switch to the local backend the hart stays halted.
ParkedHartStopped ==
    ~OnJtag(target) /\ target.jtag.initialized => target.jtag.hart_halted

\* While the local backend is active, nothing reaches the parked hart, but for
\* `s' and riscv_load, which call the Debug Module directly.
ParkedHartUntouched ==
    [][~OnJtag(target) /\ ~OnJtag(target)' /\ target.jtag.hart_halted =>
         target.jtag' = target.jtag \/ HandleStep \/ HandleRiscvLoad]_vars

\* A suspended task can be resumed later unless `monitor target local' has
\* just emptied the list of suspended tasks.
TasksLostOnlyBySwitch ==
    [][NoTaskLost(target.local) => NoTaskLost(target.local)' \/ HandleTargetLocal]_vars

\* Halting stops every application task, and one runs while the backend is
\* halted only when app_main has just created it.
StoppedUntilCreation ==
    [][AllStopped(target.local) =>
         AllStopped(target.local)' \/ \E t \in AppTasks : TaskCreated(t)]_vars

\* docs/test-plan.md, 1.5, after `monitor target local' and Ctrl-C: "`continue`
\* resumes".  A backend that is not halted has no task left suspended.
ContinueResumesTasks ==
    ~target.local.halted => \A t \in Task : target.local.run[t] # "suspended"

\* target_jtag.c: "Saved s0/s1 before debug operations clobber them"; and
\* docs/test-plan.md, 3.7: after `continue' the counter in s0 "resumes from where
\* it left off".  The hart never runs with an s0 that debugging left behind.
HartRunsWithItsRegisters == ~target.jtag.hart_halted => target.jtag.s0 = "own"

ActiveHalted ==
    IF OnJtag(target) THEN target.jtag.hart_halted ELSE target.local.halted

\* README.md: "Standard GDB attaches [...] and works normally [...] The MQTT
\* transport is invisible to GDB".  When GDB was told that the target stopped,
\* it has stopped.
StoppedMeansHalted == gdb.mode = "stopped" => ActiveHalted

\* ^C always gives GDB back control.
InterruptAnswered == gdb.interrupting ~> gdb.mode # "running"

\* A hart that is halted while GDB waits for it is reported to GDB: it hit a
\* trigger, it obeyed a halt request late, or it never resumed.
StopDue ==
    /\ gdb.mode = "running" /\ toServer = <<>>
    /\ OnJtag(target) /\ target.jtag.initialized /\ target.jtag.hart_halted
HitReported == StopDue ~> gdb.mode # "running"
=============================================================================
