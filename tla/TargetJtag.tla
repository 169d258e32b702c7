---------------------------- MODULE TargetJtag -----------------------------
(***************************************************************************)
(* The JTAG backend (target_jtag.c) and the part of the Debug Module       *)
(* driver (riscv_dm.c) that it sees: one operator per function of the      *)
(* vtable, from a state j and the set f of failing calls to the next state.*)
(* j holds the backend's static variables and the hart behind the cable:   *)
(*   halted, initialized, regs_saved, breakpoints  as in target_jtag.c     *)
(*   saved_s0      the copy in s_saved_s0 and s_saved_s1                   *)
(*   tunnel_ready  s_tunnel_ready of riscv_dm.c                            *)
(*   hart_halted, dpc, trigger   the hart, its pc and armed triggers       *)
(*   haltreq       dmcontrol.haltreq                                       *)
(*   s0            the hart's s0 and s1                                    *)
(* s0 and saved_s0 are "own" when they hold the value the program must see *)
(* when it next runs, and "lost" otherwise.  Every memory access leaves an *)
(* address or a datum in s0, and so does a CSR access that falls back to   *)
(* the program buffer.                                                     *)
(***************************************************************************)
EXTENDS Breakpoints

CONSTANTS
    NumTriggers,      \* hardware triggers of the hart
    CsrViaProgbuf,    \* TRUE when the hart rejects abstract CSR accesses
    Faults            \* the sets of calls that may fail during one handler

\* "ecp5": the ECP5 does not answer; "init": dm_init fails; "haltreq":
\* dmcontrol cannot be written; "halt": the hart does not stop within dm_halt's
\* 100 polls; "status": dmstatus cannot be read; "resume": the resume request is
\* lost; "gpr", "csr", "mem": that access fails; "late": an access that fails
\* has its effect on the hart all the same, only its result is lost.
DmFault == {"ecp5", "init", "haltreq", "halt", "status", "resume", "gpr", "csr", "mem", "late"}

ASSUME TriggerAssumption == NumTriggers \in Nat \ {0}
ASSUME CsrAssumption     == CsrViaProgbuf \in BOOLEAN
ASSUME FaultAssumption   == Faults \subseteq SUBSET DmFault

Trigger == 0 .. NumTriggers - 1
Scratch == {"own", "lost"}

JtagState ==
    [halted : BOOLEAN, initialized : BOOLEAN, regs_saved : BOOLEAN,
     breakpoints : BreakpointTable, saved_s0 : Scratch, tunnel_ready : BOOLEAN,
     hart_halted : BOOLEAN, haltreq : BOOLEAN, dpc : Addr, s0 : Scratch,
     trigger : [Trigger -> Addr \cup {NoAddr}]]

\* Before `monitor target jtag' nothing has touched the hart: it runs.
JtagBoot(pc) ==
    [halted |-> FALSE, initialized |-> FALSE, regs_saved |-> FALSE,
     breakpoints |-> EmptyTable, saved_s0 |-> "lost", tunnel_ready |-> FALSE,
     hart_halted |-> FALSE, haltreq |-> FALSE, dpc |-> pc, s0 |-> "own",
     trigger |-> [t \in Trigger |-> NoAddr]]

---------------------------------------------------------------------------
(* riscv_dm.c.  An abstract command succeeds only on a halted hart.        *)

Reaches(j, call, f) == j.tunnel_ready /\ call \notin f
OnHart(j, call, f)  == Reaches(j, call, f) /\ j.hart_halted
Affects(j, call, f) == j.tunnel_ready /\ j.hart_halted /\ (call \in f => "late" \in f)

HaltAcks(j, f) ==
    /\ Reaches(j, "haltreq", f) /\ Reaches(j, "status", f)
    /\ j.hart_halted \/ "halt" \notin f

\* A hart that does not stop in time leaves haltreq set: it may stop later.
DmHalt(j, f) ==
    IF HaltAcks(j, f) THEN [j EXCEPT !.hart_halted = TRUE, !.haltreq = FALSE]
    ELSE [j EXCEPT !.haltreq = @ \/ Reaches(j, "haltreq", f)]

DmResume(j, f) ==
    IF Reaches(j, "resume", f)
    THEN [j EXCEPT !.hart_halted = FALSE, !.haltreq = FALSE]
    ELSE j

DmIsHalted(j, f) == OnHart(j, "status", f)

\* An abstract CSR access that fails is tried again through the program buffer.
AccessCsr(j, f) ==
    IF Affects(j, "csr", f) /\ (CsrViaProgbuf \/ "csr" \in f)
    THEN [j EXCEPT !.s0 = "lost"] ELSE j

AccessMemory(j, f) ==
    IF Affects(j, "mem", f) THEN [j EXCEPT !.s0 = "lost"] ELSE j

WriteDpc(j, pc, f) ==
    IF Affects(j, "csr", f) THEN AccessCsr([j EXCEPT !.dpc = pc], f) ELSE j

---------------------------------------------------------------------------
(* target_jtag.c.                                                          *)

SaveScratch(j, f) ==
    IF j.regs_saved \/ ~OnHart(j, "gpr", f) THEN j
    ELSE [j EXCEPT !.saved_s0 = j.s0, !.regs_saved = TRUE]

\* After a failure regs_saved stays set, but only jtag_resume calls this.
RestoreScratch(j, f) ==
    IF ~j.regs_saved \/ ~Affects(j, "gpr", f) THEN j
    ELSE [j EXCEPT !.s0 = j.saved_s0, !.regs_saved = "gpr" \in f]

\* tselect keeps only the bits the hart implements: slot i selects trigger
\* i % NumTriggers.
TriggerOf(i) == i % NumTriggers

SlotsOn(table, t) == {i \in Active(table) : TriggerOf(i) = t}
Highest(S)        == CHOOSE i \in S : \A k \in S : k <= i

ArmTriggers(j, f) ==
    IF ~Affects(j, "csr", f) \/ Active(j.breakpoints) = {} THEN j
    ELSE AccessCsr(
           [j EXCEPT !.trigger =
              [t \in Trigger |->
                 IF SlotsOn(j.breakpoints, t) = {} THEN j.trigger[t]
                 ELSE j.breakpoints[Highest(SlotsOn(j.breakpoints, t))]]], f)

DisarmTriggers(j, f) ==
    IF ~Affects(j, "csr", f) \/ Active(j.breakpoints) = {} THEN j
    ELSE AccessCsr(
           [j EXCEPT !.trigger =
              [t \in Trigger |->
                 IF SlotsOn(j.breakpoints, t) = {} THEN j.trigger[t]
                 ELSE NoAddr]], f)

WriteTrigger(j, i, a, f) ==
    IF j.initialized /\ j.halted /\ Affects(j, "csr", f)
    THEN AccessCsr([j EXCEPT !.trigger =
              [t \in Trigger |-> IF t = TriggerOf(i) THEN a ELSE j.trigger[t]]], f)
    ELSE j

MarkHalted(j, f) == SaveScratch([j EXCEPT !.halted = TRUE], f)

JtagInit(j, f) ==
    LET blank == [j EXCEPT !.halted = FALSE, !.initialized = FALSE,
                           !.regs_saved = FALSE, !.breakpoints = EmptyTable]
        fresh == [blank EXCEPT !.tunnel_ready = TRUE, !.haltreq = @ /\ "init" \in f]
        ready == [fresh EXCEPT !.initialized = TRUE]
    IN IF "ecp5" \in f THEN blank
       ELSE IF "init" \in f THEN fresh
       ELSE IF ~HaltAcks(ready, f) THEN DmHalt(ready, f)
       ELSE MarkHalted(DmHalt(ready, f), f)

\* Mutants: the result of dm_halt is ignored; s0 and s1 are not saved.
JtagHaltUnchecked(j, f) ==
    IF ~j.initialized \/ j.halted THEN j
    ELSE ArmTriggers(MarkHalted(DmHalt(j, f), f), f)
JtagHaltUnsaved(j, f) ==
    IF ~j.initialized \/ j.halted \/ ~HaltAcks(j, f) THEN j
    ELSE ArmTriggers([DmHalt(j, f) EXCEPT !.halted = TRUE], f)

JtagHalt(j, f) ==
    IF ~j.initialized \/ j.halted THEN j
    ELSE IF ~HaltAcks(j, f) THEN DmHalt(j, f)
    ELSE ArmTriggers(MarkHalted(DmHalt(j, f), f), f)

\* Mutant: s_halted is left set when dm_resume fails.
JtagResumeGivesUp(j, f) ==
    IF ~j.initialized \/ ~j.halted \/ ~OnHart(j, "resume", f) THEN j
    ELSE [DmResume(RestoreScratch(j, f), f) EXCEPT !.halted = FALSE,
                                                   !.regs_saved = FALSE]

\* A failed dm_resume is only logged.
JtagResume(j, f) ==
    IF ~j.initialized \/ ~j.halted THEN j
    ELSE [DmResume(RestoreScratch(j, f), f) EXCEPT !.halted = FALSE,
                                                   !.regs_saved = FALSE]

JtagIsHalted(j, f) == j.initialized /\ DmIsHalted(j, f)

\* The x8 and x9 shown to GDB are the saved copies; reading dpc is a CSR access.
JtagReadRegisters(j, f) ==
    IF j.initialized /\ j.halted THEN AccessCsr(j, f) ELSE j

JtagWriteScratch(j) ==
    IF j.initialized /\ j.halted
    THEN [j EXCEPT !.saved_s0 = "own", !.s0 = "lost"] ELSE j

JtagWritePc(j, pc, f) ==
    IF j.initialized /\ j.halted THEN WriteDpc(j, pc, f) ELSE j

JtagMemory(j, f) ==
    IF j.initialized /\ j.halted THEN AccessMemory(j, f) ELSE j

\* Mutant: the trigger of a new breakpoint waits for the next halt.
JtagSetBreakpointLazily(j, a, f) ==
    [j EXCEPT !.breakpoints = TableSet(j.breakpoints, a)]

JtagSetBreakpoint(j, a, f) ==
    IF ~NeedSlot(j.breakpoints, a) THEN j
    ELSE WriteTrigger([j EXCEPT !.breakpoints = TableSet(j.breakpoints, a)],
                      FreeSlot(j.breakpoints), a, f)

\* Mutant: the trigger of a removed breakpoint stays armed.
JtagClearBreakpointLazily(j, a, f) ==
    [j EXCEPT !.breakpoints = TableClear(j.breakpoints, a)]

JtagClearBreakpoint(j, a, f) ==
    IF SlotsWith(j.breakpoints, a) = {} THEN j
    ELSE WriteTrigger([j EXCEPT !.breakpoints = TableClear(j.breakpoints, a)],
                      SlotOf(j.breakpoints, a), NoAddr, f)

JtagClearAllBreakpoints(j, f) ==
    [(IF j.initialized /\ j.halted THEN DisarmTriggers(j, f) ELSE j)
        EXCEPT !.breakpoints = EmptyTable]

JtagHit(j, f) == j.initialized /\ ~j.halted /\ DmIsHalted(j, f)

\* Mutant: s0 and s1 are not saved before dcsr and dpc are read.
JtagCheckBreakpointsUnsaved(j, f) == AccessCsr([j EXCEPT !.halted = TRUE], f)

\* After a hit: dcsr and dpc are read.
JtagCheckBreakpoints(j, f) == AccessCsr(MarkHalted(j, f), f)

---------------------------------------------------------------------------
(* The hart itself.                                                        *)

Armed(j)     == {j.trigger[t] : t \in Trigger} \ {NoAddr}
AtTrigger(j) == ~j.hart_halted /\ j.dpc \in Armed(j)

\* Executing an instruction may change s0: an older copy is out of date.
HartExecutes(j, pc) == [j EXCEPT !.dpc = pc, !.saved_s0 = "lost"]
HartStops(j)        == [j EXCEPT !.hart_halted = TRUE]

---------------------------------------------------------------------------
(* What holds of the backend between two calls.                            *)

\* s_halted never claims a running hart.
HaltFlagSound(j) == j.halted => j.hart_halted /\ j.initialized /\ j.tunnel_ready

\* The program's s0 and s1 are in the hart, or in a copy that a resume writes.
ScratchSafe(j) == j.s0 = "own" \/ (j.regs_saved /\ j.saved_s0 = "own")

\* Every armed trigger belongs to a breakpoint of the table, in a slot that
\* selects it: clearing that slot disarms it.
TriggersOwned(j) ==
    \A t \in Trigger : j.trigger[t] # NoAddr =>
        \E i \in Slot : TriggerOf(i) = t /\ j.breakpoints[i] = j.trigger[t]
=============================================================================
