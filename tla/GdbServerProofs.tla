-------------------------- MODULE GdbServerProofs --------------------------
(***************************************************************************)
(* Type correctness and the safety of the server for every number of       *)
(* addresses, slots, triggers and tasks, every set of GDB commands, every  *)
(* bound on the messages in flight and every pattern of Debug Module       *)
(* faults.  First the breakpoint tables, the two backends and target.c:    *)
(* what each call returns and preserves.                                   *)
(***************************************************************************)
EXTENDS GdbServer, WellFoundedInduction, FiniteSetTheorems, TLAPS

---------------------------------------------------------------------------
(* Breakpoint tables.                                                      *)

\* A search loop over slots stops at a first one.
LEMMA LeastNat ==
    ASSUME NEW S, S \subseteq Nat, S # {}
    PROVE  \E i \in S : \A k \in S : i <= k
<1> DEFINE R == OpToRel(<, Nat)
<1>1. IsWellFoundedOn(R, Nat)
  BY NatLessThanWellFounded
<1>2. PICK i \in S : \A k \in S : ~(<<k, i>> \in R)
  <2> HIDE DEF R
  <2> QED
    BY <1>1, WFMin, Zenon
<1>3. \A k \in S : ~(k < i)
  BY <1>2 DEF OpToRel
<1> QED
  BY <1>3

\* A loop that overwrites its result at each match keeps that of the last one.
LEMMA GreatestBelow ==
    ASSUME NEW n \in Nat, NEW S, S \subseteq 0 .. n, S # {}
    PROVE  \E i \in S : \A k \in S : k <= i
<1> DEFINE D == {n - i : i \in S}
<1>1. D \subseteq Nat /\ D # {}
  <2>1. \A i \in S : n - i \in Nat
    OBVIOUS
  <2> QED
    BY <2>1
<1> HIDE DEF D
<1>2. PICK d \in D : \A k \in D : d <= k
  BY <1>1, LeastNat
<1>3. PICK i \in S : d = n - i
  BY DEF D
<1>4. \A k \in S : n - k \in D
  BY DEF D
<1> QED
  BY <1>2, <1>3, <1>4

LEMMA LowestType ==
    ASSUME NEW S, S \subseteq Slot, S # {}
    PROVE  Lowest(S) \in S
<1>1. Slot \subseteq Nat
  BY SlotAssumption DEF Slot
<1>2. \E i \in S : \A k \in S : i <= k
  BY <1>1, LeastNat, Zenon
<1> QED
  BY <1>2 DEF Lowest

\* `Z' leaves a table a table, whether or not there is a slot.
LEMMA TableSetType ==
    ASSUME NEW table \in BreakpointTable, NEW a \in Addr
    PROVE  TableSet(table, a) \in BreakpointTable
BY DEF TableSet, BreakpointTable

LEMMA TableClearType ==
    ASSUME NEW table \in BreakpointTable, NEW a
    PROVE  TableClear(table, a) \in BreakpointTable
BY DEF TableClear, BreakpointTable

LEMMA EmptyTableType == EmptyTable \in BreakpointTable
BY DEF EmptyTable, BreakpointTable

\* `Z' looks for the address before it takes a slot, so none occupies two.
LEMMA TableSetNoDuplicates ==
    ASSUME NEW table \in BreakpointTable, NEW a \in Addr, NoDuplicates(table)
    PROVE  NoDuplicates(TableSet(table, a))
BY DEF TableSet, BreakpointTable, NoDuplicates, NeedSlot, SlotsWith

LEMMA TableClearNoDuplicates ==
    ASSUME NEW table \in BreakpointTable, NEW a, NoDuplicates(table)
    PROVE  NoDuplicates(TableClear(table, a))
BY DEF TableClear, BreakpointTable, NoDuplicates

\* One `z' disables an address for good: no slot holds it any more.
LEMMA TableClearRemoves ==
    ASSUME NEW table \in BreakpointTable, NEW a \in Addr, NoDuplicates(table)
    PROVE  SlotsWith(TableClear(table, a), a) = {}
<1>1. a # NoAddr
  BY AddrAssumption DEF Addr, NoAddr
<1>2. CASE SlotsWith(table, a) = {}
  BY <1>2 DEF TableClear
<1>3. CASE SlotsWith(table, a) # {}
  <2>1. SlotOf(table, a) \in SlotsWith(table, a)
    BY <1>3, LowestType DEF SlotOf, SlotsWith
  <2>2. TableClear(table, a) = [table EXCEPT ![SlotOf(table, a)] = NoAddr]
    BY <1>3 DEF TableClear
  <2> QED
    BY <1>1, <2>1, <2>2 DEF SlotsWith, NoDuplicates, BreakpointTable
<1> QED
  BY <1>2, <1>3

\* What every call preserves: types, a halted flag that does not lie, and a
\* table without duplicates.
Sound(j) == j \in JtagState /\ HaltFlagSound(j) /\ NoDuplicates(j.breakpoints)

LEMMA BootSound ==
    ASSUME NEW pc \in Addr
    PROVE  Sound(JtagBoot(pc))
<1>1. NoDuplicates(EmptyTable)
  BY DEF NoDuplicates, EmptyTable
<1> QED
  BY <1>1, EmptyTableType DEF Sound, JtagBoot, JtagState, HaltFlagSound, Scratch

---------------------------------------------------------------------------
(* riscv_dm.c.                                                             *)

LEMMA DmHaltSound ==
    ASSUME NEW j, NEW f, Sound(j)
    PROVE  Sound(DmHalt(j, f)) /\ DmHalt(j, f).halted = j.halted
BY DEF Sound, DmHalt, JtagState, HaltFlagSound, Reaches

\* dm_halt reports success only for a hart that has stopped.
LEMMA DmHaltStops ==
    ASSUME NEW j, NEW f, Sound(j), HaltAcks(j, f)
    PROVE  /\ DmHalt(j, f).hart_halted /\ DmHalt(j, f).tunnel_ready
           /\ DmHalt(j, f).initialized = j.initialized
BY DEF Sound, DmHalt, JtagState, HaltFlagSound, Reaches, HaltAcks

LEMMA AccessCsrSound ==
    ASSUME NEW j, NEW f, Sound(j)
    PROVE  Sound(AccessCsr(j, f))
BY DEF Sound, AccessCsr, JtagState, HaltFlagSound, Scratch

LEMMA AccessMemorySound ==
    ASSUME NEW j, NEW f, Sound(j)
    PROVE  Sound(AccessMemory(j, f))
BY DEF Sound, AccessMemory, JtagState, HaltFlagSound, Scratch

LEMMA WriteDpcSound ==
    ASSUME NEW j, NEW f, NEW pc \in Addr, Sound(j)
    PROVE  Sound(WriteDpc(j, pc, f))
<1>1. Sound([j EXCEPT !.dpc = pc])
  BY DEF Sound, JtagState, HaltFlagSound
<1> QED
  BY <1>1, AccessCsrSound DEF WriteDpc

---------------------------------------------------------------------------
(* target_jtag.c.                                                          *)

LEMMA SaveScratchSound ==
    ASSUME NEW j, NEW f, Sound(j)
    PROVE  Sound(SaveScratch(j, f))
BY DEF Sound, SaveScratch, JtagState, HaltFlagSound

LEMMA RestoreScratchSound ==
    ASSUME NEW j, NEW f, Sound(j)
    PROVE  Sound(RestoreScratch(j, f))
<1>1. CASE "gpr" \in f
  <2>1. RestoreScratch(j, f) \in {j, [j EXCEPT !.s0 = j.saved_s0, !.regs_saved = TRUE]}
    BY <1>1, Zenon DEF RestoreScratch
  <2> QED
    BY <2>1 DEF Sound, JtagState, HaltFlagSound
<1>2. CASE "gpr" \notin f
  <2>1. RestoreScratch(j, f) \in {j, [j EXCEPT !.s0 = j.saved_s0, !.regs_saved = FALSE]}
    <3>1. ("gpr" \in f) = FALSE
      BY <1>2
    <3> QED
      BY <3>1, Zenon DEF RestoreScratch
  <2> QED
    BY <2>1 DEF Sound, JtagState, HaltFlagSound
<1> QED
  BY <1>1, <1>2

\* The last write of a loop over slots to a trigger is that of a slot on it.
LEMMA HighestOnTrigger ==
    ASSUME NEW table, NEW t, SlotsOn(table, t) # {}
    PROVE  Highest(SlotsOn(table, t)) \in SlotsOn(table, t)
<1>1. NumSlots - 1 \in Nat /\ SlotsOn(table, t) \subseteq 0 .. NumSlots - 1
  BY SlotAssumption DEF SlotsOn, Active, Slot
<1>2. \E i \in SlotsOn(table, t) : \A k \in SlotsOn(table, t) : k <= i
  BY <1>1, GreatestBelow
<1> QED
  BY <1>2 DEF Highest

LEMMA LastSlotType ==
    ASSUME NEW table \in BreakpointTable, NEW t, SlotsOn(table, t) # {}
    PROVE  table[Highest(SlotsOn(table, t))] \in Addr
BY HighestOnTrigger DEF SlotsOn, Active, BreakpointTable

LEMMA ArmTriggersSound ==
    ASSUME NEW j, NEW f, Sound(j)
    PROVE  Sound(ArmTriggers(j, f))
<1> DEFINE armed == [t \in Trigger |->
                       IF SlotsOn(j.breakpoints, t) = {} THEN j.trigger[t]
                       ELSE j.breakpoints[Highest(SlotsOn(j.breakpoints, t))]]
<1>1. j.breakpoints \in BreakpointTable /\ j.trigger \in [Trigger -> Addr \cup {NoAddr}]
  BY DEF Sound, JtagState
<1>2. armed \in [Trigger -> Addr \cup {NoAddr}]
  BY <1>1, LastSlotType
<1> HIDE DEF armed
<1>3. Sound([j EXCEPT !.trigger = armed])
  BY <1>2 DEF Sound, JtagState, HaltFlagSound
<1> QED
  BY <1>3, AccessCsrSound DEF ArmTriggers, armed

LEMMA DisarmTriggersSound ==
    ASSUME NEW j, NEW f, Sound(j)
    PROVE  Sound(DisarmTriggers(j, f))
<1> DEFINE disarmed == [t \in Trigger |->
                          IF SlotsOn(j.breakpoints, t) = {} THEN j.trigger[t] ELSE NoAddr]
<1>1. disarmed \in [Trigger -> Addr \cup {NoAddr}]
  BY DEF Sound, JtagState
<1> HIDE DEF disarmed
<1>2. Sound([j EXCEPT !.trigger = disarmed])
  BY <1>1 DEF Sound, JtagState, HaltFlagSound
<1> QED
  BY <1>2, AccessCsrSound DEF DisarmTriggers, disarmed

LEMMA WriteTriggerSound ==
    ASSUME NEW j, NEW f, NEW i, NEW a \in Addr \cup {NoAddr}, Sound(j)
    PROVE  Sound(WriteTrigger(j, i, a, f))
<1> DEFINE written == [t \in Trigger |-> IF t = TriggerOf(i) THEN a ELSE j.trigger[t]]
<1>1. written \in [Trigger -> Addr \cup {NoAddr}]
  BY DEF Sound, JtagState
<1> HIDE DEF written
<1>2. Sound([j EXCEPT !.trigger = written])
  BY <1>1 DEF Sound, JtagState, HaltFlagSound
<1> QED
  BY <1>2, AccessCsrSound DEF WriteTrigger, written

LEMMA MarkHaltedSound ==
    ASSUME NEW j, NEW f, Sound(j), j.hart_halted, j.initialized, j.tunnel_ready
    PROVE  Sound(MarkHalted(j, f))
<1>1. Sound([j EXCEPT !.halted = TRUE])
  BY DEF Sound, JtagState, HaltFlagSound
<1> QED
  BY <1>1, SaveScratchSound DEF MarkHalted

\* `monitor target jtag': whether or not dm_init and dm_halt succeed.
LEMMA JtagInitSound ==
    ASSUME NEW j, NEW f, Sound(j)
    PROVE  Sound(JtagInit(j, f))
<1> DEFINE blank == [j EXCEPT !.halted = FALSE, !.initialized = FALSE,
                              !.regs_saved = FALSE, !.breakpoints = EmptyTable]
           fresh == [blank EXCEPT !.tunnel_ready = TRUE, !.haltreq = @ /\ "init" \in f]
           ready == [fresh EXCEPT !.initialized = TRUE]
<1>1. NoDuplicates(EmptyTable)
  BY DEF NoDuplicates, EmptyTable
<1>2. Sound(blank) /\ blank.halted = FALSE
  BY <1>1, EmptyTableType DEF Sound, JtagState, HaltFlagSound
<1> HIDE DEF blank
<1>3. Sound(fresh) /\ fresh.halted = FALSE
  BY <1>2 DEF Sound, JtagState, HaltFlagSound
<1> HIDE DEF fresh
<1>4. Sound(ready) /\ ready.initialized
  BY <1>3 DEF Sound, JtagState, HaltFlagSound
<1> HIDE DEF ready
<1>5. Sound(DmHalt(ready, f))
  BY <1>4, DmHaltSound
<1>6. HaltAcks(ready, f) => Sound(MarkHalted(DmHalt(ready, f), f))
  BY <1>4, <1>5, DmHaltStops, MarkHaltedSound
<1>7. JtagInit(j, f) = IF "ecp5" \in f THEN blank
                       ELSE IF "init" \in f THEN fresh
                       ELSE IF ~HaltAcks(ready, f) THEN DmHalt(ready, f)
                       ELSE MarkHalted(DmHalt(ready, f), f)
  BY DEF JtagInit, blank, fresh, ready
<1> QED
  BY <1>2, <1>3, <1>5, <1>6, <1>7

LEMMA JtagHaltSound ==
    ASSUME NEW j, NEW f, Sound(j)
    PROVE  Sound(JtagHalt(j, f))
<1>1. CASE ~j.initialized \/ j.halted
  BY <1>1 DEF JtagHalt
<1>2. CASE j.initialized /\ ~j.halted /\ ~HaltAcks(j, f)
  BY <1>2, DmHaltSound DEF JtagHalt
<1>3. CASE j.initialized /\ ~j.halted /\ HaltAcks(j, f)
  <2>1. Sound(MarkHalted(DmHalt(j, f), f))
    BY <1>3, DmHaltSound, DmHaltStops, MarkHaltedSound
  <2> QED
    BY <1>3, <2>1, ArmTriggersSound DEF JtagHalt
<1> QED
  BY <1>1, <1>2, <1>3

\* The flag is lowered whether or not dm_resume succeeds.
LEMMA JtagResumeSound ==
    ASSUME NEW j, NEW f, Sound(j)
    PROVE  Sound(JtagResume(j, f))
<1> DEFINE r == RestoreScratch(j, f)
<1>1. Sound(r)
  BY RestoreScratchSound
<1> HIDE DEF r
<1>2. Sound([DmResume(r, f) EXCEPT !.halted = FALSE, !.regs_saved = FALSE])
  BY <1>1 DEF Sound, DmResume, JtagState, HaltFlagSound
<1> QED
  BY <1>2 DEF JtagResume, r

LEMMA JtagReadRegistersSound ==
    ASSUME NEW j, NEW f, Sound(j)
    PROVE  Sound(JtagReadRegisters(j, f))
BY AccessCsrSound DEF JtagReadRegisters

LEMMA JtagWriteScratchSound ==
    ASSUME NEW j, Sound(j)
    PROVE  Sound(JtagWriteScratch(j))
BY DEF Sound, JtagWriteScratch, JtagState, HaltFlagSound, Scratch

LEMMA JtagWritePcSound ==
    ASSUME NEW j, NEW f, NEW pc \in Addr, Sound(j)
    PROVE  Sound(JtagWritePc(j, pc, f))
BY WriteDpcSound DEF JtagWritePc

LEMMA JtagMemorySound ==
    ASSUME NEW j, NEW f, Sound(j)
    PROVE  Sound(JtagMemory(j, f))
BY AccessMemorySound DEF JtagMemory

LEMMA JtagSetBreakpointSound ==
    ASSUME NEW j, NEW f, NEW a \in Addr, Sound(j)
    PROVE  Sound(JtagSetBreakpoint(j, a, f))
<1> DEFINE set == [j EXCEPT !.breakpoints = TableSet(j.breakpoints, a)]
<1>1. j.breakpoints \in BreakpointTable /\ NoDuplicates(j.breakpoints)
  BY DEF Sound, JtagState
<1>2. /\ TableSet(j.breakpoints, a) \in BreakpointTable
      /\ NoDuplicates(TableSet(j.breakpoints, a))
  BY <1>1, TableSetType, TableSetNoDuplicates
<1>3. Sound(set)
  BY <1>2 DEF Sound, JtagState, HaltFlagSound
<1> HIDE DEF set
<1>4. Sound(WriteTrigger(set, FreeSlot(j.breakpoints), a, f))
  BY <1>3, WriteTriggerSound
<1> QED
  BY <1>4 DEF JtagSetBreakpoint, set

LEMMA JtagClearBreakpointSound ==
    ASSUME NEW j, NEW f, NEW a \in Addr, Sound(j)
    PROVE  Sound(JtagClearBreakpoint(j, a, f))
<1> DEFINE cleared == [j EXCEPT !.breakpoints = TableClear(j.breakpoints, a)]
<1>1. j.breakpoints \in BreakpointTable /\ NoDuplicates(j.breakpoints)
  BY DEF Sound, JtagState
<1>2. /\ TableClear(j.breakpoints, a) \in BreakpointTable
      /\ NoDuplicates(TableClear(j.breakpoints, a))
  BY <1>1, TableClearType, TableClearNoDuplicates
<1>3. Sound(cleared)
  BY <1>2 DEF Sound, JtagState, HaltFlagSound
<1> HIDE DEF cleared
<1>4. Sound(WriteTrigger(cleared, SlotOf(j.breakpoints, a), NoAddr, f))
  BY <1>3, WriteTriggerSound
<1> QED
  BY <1>4 DEF JtagClearBreakpoint, cleared

LEMMA JtagClearAllBreakpointsSound ==
    ASSUME NEW j, NEW f, Sound(j)
    PROVE  Sound(JtagClearAllBreakpoints(j, f))
<1> DEFINE d == IF j.initialized /\ j.halted THEN DisarmTriggers(j, f) ELSE j
<1>1. Sound(d)
  BY DisarmTriggersSound
<1> HIDE DEF d
<1>2. NoDuplicates(EmptyTable)
  BY DEF NoDuplicates, EmptyTable
<1>3. Sound([d EXCEPT !.breakpoints = EmptyTable])
  BY <1>1, <1>2, EmptyTableType DEF Sound, JtagState, HaltFlagSound
<1> QED
  BY <1>3 DEF JtagClearAllBreakpoints, d

\* The poll marks the hart halted only when dmstatus says so.
LEMMA JtagCheckBreakpointsSound ==
    ASSUME NEW j, NEW f, Sound(j), JtagHit(j, f)
    PROVE  Sound(JtagCheckBreakpoints(j, f))
<1>1. j.hart_halted /\ j.initialized /\ j.tunnel_ready
  BY DEF JtagHit, DmIsHalted, OnHart, Reaches
<1> QED
  BY <1>1, MarkHaltedSound, AccessCsrSound DEF JtagCheckBreakpoints

---------------------------------------------------------------------------
(* The hart.                                                               *)

\* A hart that the backend holds halted does not execute.
LEMMA HartExecutesSound ==
    ASSUME NEW j, NEW pc \in Addr, Sound(j), ~j.hart_halted
    PROVE  Sound(HartExecutes(j, pc))
BY DEF Sound, HartExecutes, JtagState, HaltFlagSound, Scratch

LEMMA HartStopsSound ==
    ASSUME NEW j, Sound(j)
    PROVE  Sound(HartStops(j))
BY DEF Sound, HartStops, JtagState, HaltFlagSound

---------------------------------------------------------------------------
(* The backends together.                                                  *)

LocalSound(l) == l \in LocalState /\ NoDuplicates(l.breakpoints)

TargetSound(tg) == tg \in TargetState /\ Sound(tg.jtag) /\ LocalSound(tg.local)

---------------------------------------------------------------------------
(* target_local.c.                                                         *)

LEMMA TaskFinite == IsFiniteSet(Task) /\ Cardinality(Task) \in Nat
<1>1. IsFiniteSet({Main, Srv})
  <2>1. IsFiniteSet({Main} \cup {Srv})
    BY FS_Singleton, FS_Union
  <2>2. {Main, Srv} = {Main} \cup {Srv}
    OBVIOUS
  <2> QED
    BY <2>1, <2>2
<1>2. IsFiniteSet(Task)
  BY <1>1, TaskAssumption, FS_Union DEF Task
<1> QED
  BY <1>2, FS_CardinalityType

\* uxTaskGetSystemState lists each existing task once.
LEMMA OrdersType ==
    ASSUME NEW l, NEW order \in Orders(Existing(l))
    PROVE  order \in Seq(Task) /\ Cardinality(Existing(l)) \in Nat
<1>1. Existing(l) \in SUBSET Task
  BY DEF Existing
<1>2. IsFiniteSet(Existing(l))
  BY <1>1, TaskFinite, FS_Subset
<1>3. Cardinality(Existing(l)) \in Nat
  BY <1>2, FS_CardinalityType
<1>4. order \in [1 .. Cardinality(Existing(l)) -> Task]
  BY <1>1 DEF Orders
<1> QED
  BY <1>3, <1>4

LEMMA EmptyNoDuplicates == NoDuplicates(EmptyTable)
BY DEF NoDuplicates, EmptyTable

LEMMA LocalBootSound == LocalSound(LocalBoot)
<1>1. 0 \in Addr
  BY AddrAssumption DEF Addr
<1> QED
  BY <1>1, EmptyTableType, EmptyNoDuplicates DEF LocalSound, LocalBoot, LocalState, Task

LEMMA LocalExcludeSound ==
    ASSUME NEW l, NEW t \in Task, LocalSound(l)
    PROVE  LocalSound(LocalExclude(l, t))
BY DEF LocalSound, LocalExclude, LocalState

LEMMA LocalInitSound ==
    ASSUME NEW l, LocalSound(l)
    PROVE  LocalSound(LocalInit(l))
<1>1. <<>> \in Seq(Task) /\ {} \in SUBSET Task
  OBVIOUS
<1> QED
  BY <1>1, EmptyTableType, EmptyNoDuplicates DEF LocalSound, LocalInit, LocalState

LEMMA LocalHaltSound ==
    ASSUME NEW l, LocalSound(l)
    PROVE  LocalSound(LocalHalt(l))
<1> DEFINE S == Debuggable(l)
           run == [t \in Task |-> IF t \in S THEN "suspended" ELSE l.run[t]]
<1>1. S \subseteq Task
  BY DEF Debuggable
<1>2. run \in [Task -> {"absent", "ready", "suspended"}]
  BY DEF LocalSound, LocalState
<1> HIDE DEF S, run
<1>3. LocalSound([l EXCEPT !.halted = TRUE, !.suspended = S, !.run = run])
  BY <1>1, <1>2 DEF LocalSound, LocalState
<1> QED
  BY <1>3 DEF LocalHalt, S, run

LEMMA LocalResumeSound ==
    ASSUME NEW l, LocalSound(l)
    PROVE  LocalSound(LocalResume(l))
<1> DEFINE run == [t \in Task |-> IF t \in l.suspended THEN "ready" ELSE l.run[t]]
<1>1. run \in [Task -> {"absent", "ready", "suspended"}]
  BY DEF LocalSound, LocalState
<1> HIDE DEF run
<1>2. LocalSound([l EXCEPT !.halted = FALSE, !.suspended = {}, !.run = run])
  BY <1>1 DEF LocalSound, LocalState
<1> QED
  BY <1>2 DEF LocalResume, run

LEMMA LocalGetThreadsSound ==
    ASSUME NEW l, NEW order \in Seq(Task), LocalSound(l)
    PROVE  LocalSound(LocalGetThreads(l, order))
BY DEF LocalSound, LocalGetThreads, LocalState

LEMMA LocalWritePcSound ==
    ASSUME NEW l, NEW tid, NEW pc \in Addr, LocalSound(l)
    PROVE  LocalSound(LocalWritePc(l, tid, pc))
<1> DEFINE at == [t \in Task |-> IF t = l.handles[tid] THEN pc ELSE l.at[t]]
<1>1. at \in [Task -> Addr]
  BY DEF LocalSound, LocalState
<1> HIDE DEF at
<1>2. LocalSound([l EXCEPT !.at = at])
  BY <1>1 DEF LocalSound, LocalState
<1> QED
  BY <1>2 DEF LocalWritePc, at

LEMMA LocalSetBreakpointSound ==
    ASSUME NEW l, NEW a \in Addr, LocalSound(l)
    PROVE  LocalSound(LocalSetBreakpoint(l, a))
BY TableSetType, TableSetNoDuplicates DEF LocalSound, LocalSetBreakpoint, LocalState

LEMMA LocalClearBreakpointSound ==
    ASSUME NEW l, NEW a \in Addr, LocalSound(l)
    PROVE  LocalSound(LocalClearBreakpoint(l, a))
BY TableClearType, TableClearNoDuplicates DEF LocalSound, LocalClearBreakpoint, LocalState

LEMMA LocalClearAllBreakpointsSound ==
    ASSUME NEW l, LocalSound(l)
    PROVE  LocalSound(LocalClearAllBreakpoints(l))
BY EmptyTableType, EmptyNoDuplicates DEF LocalSound, LocalClearAllBreakpoints, LocalState

LEMMA LocalHitIdsType ==
    ASSUME NEW l, NEW t, NEW garbage \in SUBSET Nat, LocalSound(l)
    PROVE  LocalHitIds(l, t, garbage) \subseteq Nat
<1>1. l.handles \in Seq(Task)
  BY DEF LocalSound, LocalState
<1>2. Len(l.handles) \in Nat
  BY <1>1
<1> DEFINE ids == {i \in 1 .. Len(l.handles) : l.handles[i] = t}
<1>3. ids \subseteq Nat
  BY <1>2
<1> HIDE DEF ids
<1>4. LocalHitIds(l, t, garbage) = IF ids = {} THEN garbage ELSE ids
  BY DEF LocalHitIds, ids
<1> QED
  BY <1>3, <1>4

LEMMA SetRunSound ==
    ASSUME NEW l, NEW t \in Task, NEW r \in {"absent", "ready", "suspended"}, LocalSound(l)
    PROVE  LocalSound(SetRun(l, t, r))
BY DEF LocalSound, SetRun, LocalState

LEMMA TaskExecutesSound ==
    ASSUME NEW l, NEW t \in Task, NEW pc \in Addr, LocalSound(l)
    PROVE  LocalSound(TaskExecutes(l, t, pc))
BY DEF LocalSound, TaskExecutes, LocalState

---------------------------------------------------------------------------
(* target.c.                                                               *)

LEMMA DispatchSound ==
    ASSUME NEW tg, NEW j, NEW l, TargetSound(tg),
           OnJtag(tg) => Sound(j), ~OnJtag(tg) => LocalSound(l)
    PROVE  TargetSound(Dispatch(tg, j, l))
BY DEF TargetSound, Dispatch, TargetState, Sound, LocalSound

LEMMA TargetHaltSound ==
    ASSUME NEW tg, NEW f, TargetSound(tg)
    PROVE  TargetSound(TargetHalt(tg, f))
<1>1. Sound(JtagHalt(tg.jtag, f)) /\ LocalSound(LocalHalt(tg.local))
  BY JtagHaltSound, LocalHaltSound DEF TargetSound
<1> QED
  BY <1>1, DispatchSound DEF TargetHalt

LEMMA TargetContinueSound ==
    ASSUME NEW tg, NEW f, TargetSound(tg)
    PROVE  TargetSound(TargetContinue(tg, f))
<1>1. Sound(JtagResume(tg.jtag, f)) /\ LocalSound(LocalResume(tg.local))
  BY JtagResumeSound, LocalResumeSound DEF TargetSound
<1> QED
  BY <1>1, DispatchSound DEF TargetContinue

LEMMA TargetClearAllBreakpointsSound ==
    ASSUME NEW tg, NEW f, TargetSound(tg)
    PROVE  TargetSound(TargetClearAllBreakpoints(tg, f))
<1>1. /\ Sound(JtagClearAllBreakpoints(tg.jtag, f))
      /\ LocalSound(LocalClearAllBreakpoints(tg.local))
  BY JtagClearAllBreakpointsSound, LocalClearAllBreakpointsSound DEF TargetSound
<1> QED
  BY <1>1, DispatchSound DEF TargetClearAllBreakpoints

\* `monitor target': the old backend is left and the new one starts anew.
LEMMA TargetSetBackendSound ==
    ASSUME NEW tg, NEW f, NEW backend \in Backend, TargetSound(tg)
    PROVE  TargetSound(TargetSetBackend(tg, backend, f))
<1> DEFINE stopped == IF TargetIsHalted(tg, f) THEN tg ELSE TargetHalt(tg, f)
           cleared == TargetClearAllBreakpoints(stopped, f)
           other   == [cleared EXCEPT !.ops = backend]
<1>1. TargetSound(stopped)
  BY TargetHaltSound
<1> HIDE DEF stopped
<1>2. TargetSound(cleared)
  BY <1>1, TargetClearAllBreakpointsSound
<1> HIDE DEF cleared
<1>3. TargetSound(other)
  BY <1>2 DEF TargetSound, TargetState
<1> HIDE DEF other
<1>4. Sound(JtagInit(other.jtag, f)) /\ LocalSound(LocalInit(other.local))
  BY <1>3, JtagInitSound, LocalInitSound DEF TargetSound
<1>5. TargetSound(TargetInit(other, f))
  BY <1>3, <1>4, DispatchSound DEF TargetInit
<1> QED
  BY <1>5 DEF TargetSetBackend, other, cleared, stopped

LEMMA TargetGetThreadsSound ==
    ASSUME NEW tg, NEW order, TargetSound(tg), ~OnJtag(tg) => order \in Seq(Task)
    PROVE  TargetSound(TargetGetThreads(tg, order))
<1>1. Sound(tg.jtag) /\ (~OnJtag(tg) => LocalSound(LocalGetThreads(tg.local, order)))
  BY LocalGetThreadsSound DEF TargetSound
<1> QED
  BY <1>1, DispatchSound DEF TargetGetThreads

LEMMA TargetReadRegistersSound ==
    ASSUME NEW tg, NEW f, TargetSound(tg)
    PROVE  TargetSound(TargetReadRegisters(tg, f))
<1>1. Sound(JtagReadRegisters(tg.jtag, f)) /\ LocalSound(tg.local)
  BY JtagReadRegistersSound DEF TargetSound
<1> QED
  BY <1>1, DispatchSound DEF TargetReadRegisters

LEMMA TargetWriteScratchSound ==
    ASSUME NEW tg, TargetSound(tg)
    PROVE  TargetSound(TargetWriteScratch(tg))
<1>1. Sound(JtagWriteScratch(tg.jtag)) /\ LocalSound(tg.local)
  BY JtagWriteScratchSound DEF TargetSound
<1> QED
  BY <1>1, DispatchSound DEF TargetWriteScratch

LEMMA TargetWritePcSound ==
    ASSUME NEW tg, NEW tid, NEW pc \in Addr, NEW f, TargetSound(tg)
    PROVE  TargetSound(TargetWritePc(tg, tid, pc, f))
<1>1. Sound(JtagWritePc(tg.jtag, pc, f)) /\ LocalSound(LocalWritePc(tg.local, tid, pc))
  BY JtagWritePcSound, LocalWritePcSound DEF TargetSound
<1> QED
  BY <1>1, DispatchSound DEF TargetWritePc

LEMMA TargetMemorySound ==
    ASSUME NEW tg, NEW f, TargetSound(tg)
    PROVE  TargetSound(TargetMemory(tg, f))
<1>1. Sound(JtagMemory(tg.jtag, f)) /\ LocalSound(tg.local)
  BY JtagMemorySound DEF TargetSound
<1> QED
  BY <1>1, DispatchSound DEF TargetMemory

LEMMA TargetSetBreakpointSound ==
    ASSUME NEW tg, NEW f, NEW a \in Addr, TargetSound(tg)
    PROVE  TargetSound(TargetSetBreakpoint(tg, a, f))
<1>1. /\ Sound(JtagSetBreakpoint(tg.jtag, a, f))
      /\ LocalSound(LocalSetBreakpoint(tg.local, a))
  BY JtagSetBreakpointSound, LocalSetBreakpointSound DEF TargetSound
<1> QED
  BY <1>1, DispatchSound DEF TargetSetBreakpoint

LEMMA TargetClearBreakpointSound ==
    ASSUME NEW tg, NEW f, NEW a \in Addr, TargetSound(tg)
    PROVE  TargetSound(TargetClearBreakpoint(tg, a, f))
<1>1. /\ Sound(JtagClearBreakpoint(tg.jtag, a, f))
      /\ LocalSound(LocalClearBreakpoint(tg.local, a))
  BY JtagClearBreakpointSound, LocalClearBreakpointSound DEF TargetSound
<1> QED
  BY <1>1, DispatchSound DEF TargetClearBreakpoint

\* A poll that finds a hit.
LEMMA TargetCheckBreakpointsSound ==
    ASSUME NEW tg, NEW f, TargetSound(tg), TargetHit(tg, f)
    PROVE  TargetSound(TargetCheckBreakpoints(tg, f))
<1>1. LocalSound(tg.local)
  BY DEF TargetSound
<1>2. OnJtag(tg) => Sound(JtagCheckBreakpoints(tg.jtag, f))
  BY JtagCheckBreakpointsSound DEF TargetSound, TargetHit
<1> QED
  BY <1>1, <1>2, DispatchSound DEF TargetCheckBreakpoints

LEMMA TargetHitIdsType ==
    ASSUME NEW tg, NEW garbage \in SUBSET Nat, TargetSound(tg)
    PROVE  TargetHitIds(tg, garbage) \subseteq Nat
<1>1. \A t : LocalHitIds(tg.local, t, garbage) \subseteq Nat
  BY LocalHitIdsType DEF TargetSound
<1> QED
  BY <1>1 DEF TargetHitIds

---------------------------------------------------------------------------
(* The server.                                                             *)

Links == toServer \in Seq(Packet) /\ toGdb \in Seq({"stop", "answer"})
                   /\ gdb \in [mode : Mode, interrupting : BOOLEAN]
Counters == s_running \in BOOLEAN /\ s_current_tid \in Nat /\ s_thread_count \in Nat

\* The inductive invariant.  What is added to the types is local to the two
\* backends: each of their calls preserves it, whatever the server's state.
IInv == TargetSound(target) /\ Counters /\ Links

---------------------------------------------------------------------------
(* Packets.                                                                *)

LEMMA PacketArgs ==
    ASSUME NEW p \in Packet
    PROVE  /\ p.op \in {"Z", "z", "P32", "riscv_load"} => p.arg \in Addr
           /\ p.op = "H" => p.arg \in Nat
<1>1. PICK op \in AllOps : p \in [op : {op}, arg : ArgsOf(op)]
  BY DEF Packet
<1>2. p.op = op /\ p.arg \in ArgsOf(op)
  BY <1>1
<1>3. 0 .. Cardinality(Task) \subseteq Nat
  BY TaskFinite
<1> QED
  BY <1>2, <1>3 DEF ArgsOf

LEMMA PlainPackets ==
    [op |-> "?", arg |-> 0] \in Packet /\ [op |-> "intr", arg |-> 0] \in Packet
<1>1. ArgsOf("?") = {0} /\ ArgsOf("intr") = {0}
  BY DEF ArgsOf
<1>2. \A op \in AllOps : [op : {op}, arg : ArgsOf(op)] \subseteq Packet
  BY DEF Packet
<1>3. "?" \in AllOps /\ "intr" \in AllOps
  BY DEF AllOps
<1>4. /\ [op |-> "?", arg |-> 0] \in [op : {"?"}, arg : ArgsOf("?")]
      /\ [op |-> "intr", arg |-> 0] \in [op : {"intr"}, arg : ArgsOf("intr")]
  BY <1>1
<1> QED
  BY <1>2, <1>3, <1>4

LEMMA ReceivedPacket ==
    ASSUME IInv, toServer # <<>>
    PROVE  Head(toServer) \in Packet /\ Tail(toServer) \in Seq(Packet)
BY DEF IInv, Links

LEMMA ReceiveLinks ==
    ASSUME IInv, NEW op, Receive(op), toGdb' \in Seq({"stop", "answer"})
    PROVE  Links'
BY ReceivedPacket DEF IInv, Links, Receive

LEMMA ReplyType ==
    ASSUME IInv, NEW kind \in {"stop", "answer"}, Reply(kind)
    PROVE  toGdb' \in Seq({"stop", "answer"})
BY DEF IInv, Links, Reply

---------------------------------------------------------------------------
(* The thread list.                                                        *)

LEMMA OrderSound ==
    ASSUME NEW tg, TargetSound(tg), NEW order \in ThreadOrders(tg)
    PROVE  TargetSound(TargetGetThreads(tg, order)) /\ TargetThreadCount(tg, order) \in Nat
<1>1. CASE OnJtag(tg)
  BY <1>1, TargetGetThreadsSound DEF TargetThreadCount
<1>2. CASE ~OnJtag(tg)
  <2>1. order \in Seq(Task)
    BY <1>2, OrdersType DEF ThreadOrders
  <2>2. Len(order) \in Nat
    BY <2>1
  <2> QED
    BY <1>2, <2>1, <2>2, TargetGetThreadsSound DEF TargetThreadCount
<1> QED
  BY <1>1, <1>2

LEMMA RefreshSound ==
    ASSUME NEW tg, NEW tid \in Nat, TargetSound(tg), Refresh(tg, tid)
    PROVE  TargetSound(target') /\ s_thread_count' \in Nat /\ s_current_tid' \in Nat
BY OrderSound DEF Refresh

---------------------------------------------------------------------------
(* The server's steps.                                                     *)

LEMMA PollSound == IInv /\ Poll => IInv'
<1> SUFFICES ASSUME IInv, Poll PROVE IInv'
  OBVIOUS
<1>1. PICK f \in Faults :
        /\ TargetHit(target, f)
        /\ \E tid \in TargetHitIds(target, GarbageTids) :
             Refresh(TargetHalt(TargetCheckBreakpoints(target, f), f), tid)
  BY DEF Poll
<1>2. PICK tid \in TargetHitIds(target, GarbageTids) :
        Refresh(TargetHalt(TargetCheckBreakpoints(target, f), f), tid)
  BY <1>1
<1>3. tid \in Nat
  BY GarbageAssumption, TargetHitIdsType DEF IInv
<1>4. TargetSound(TargetHalt(TargetCheckBreakpoints(target, f), f))
  BY <1>1, TargetCheckBreakpointsSound, TargetHaltSound DEF IInv
<1>5. TargetSound(target') /\ s_thread_count' \in Nat /\ s_current_tid' \in Nat
  BY <1>2, <1>3, <1>4, RefreshSound
<1>6. s_running' \in BOOLEAN
  BY DEF Poll
<1>7. Links'
  BY ReplyType DEF Poll, IInv, Links
<1> QED
  BY <1>5, <1>6, <1>7 DEF IInv, Counters

LEMMA InterruptSound == IInv /\ HandleInterrupt => IInv'
<1> SUFFICES ASSUME IInv, HandleInterrupt PROVE IInv'
  OBVIOUS
<1>1. PICK f \in Faults : Refresh(TargetHalt(target, f), s_current_tid)
  BY DEF HandleInterrupt
<1>2. TargetSound(target') /\ s_thread_count' \in Nat /\ s_current_tid' \in Nat
  BY <1>1, TargetHaltSound, RefreshSound DEF IInv, Counters
<1>3. s_running' \in BOOLEAN
  BY DEF HandleInterrupt
<1>4. Links'
  BY ReplyType, ReceiveLinks DEF HandleInterrupt
<1> QED
  BY <1>2, <1>3, <1>4 DEF IInv, Counters

LEMMA HaltReasonSound == IInv /\ HandleHaltReason => IInv'
<1> SUFFICES ASSUME IInv, HandleHaltReason PROVE IInv'
  OBVIOUS
<1>1. TargetSound(target') /\ s_thread_count' \in Nat /\ s_current_tid' \in Nat
  <2>1. CASE s_running
    BY <2>1, TargetHaltSound, RefreshSound DEF HandleHaltReason, IInv, Counters
  <2>2. CASE ~s_running
    BY <2>2 DEF HandleHaltReason, IInv, Counters
  <2> QED
    BY <2>1, <2>2
<1>2. s_running' \in BOOLEAN
  BY DEF HandleHaltReason
<1>3. Links'
  BY ReplyType, ReceiveLinks DEF HandleHaltReason
<1> QED
  BY <1>1, <1>2, <1>3 DEF IInv, Counters

\* The handlers that reach the target once and leave the server's state alone.
LEMMA AccessSound ==
    IInv /\ \/ HandleReadRegisters \/ HandleWriteScratch \/ HandleWritePc \/ HandleMemory
            \/ HandleBreakpointSet \/ HandleBreakpointClear \/ HandleStep \/ HandleRiscvLoad
    => IInv'
<1> SUFFICES ASSUME IInv,
                    \/ HandleReadRegisters \/ HandleWriteScratch \/ HandleWritePc \/ HandleMemory
                    \/ HandleBreakpointSet \/ HandleBreakpointClear \/ HandleStep \/ HandleRiscvLoad
             PROVE  IInv'
  OBVIOUS
<1>1. Counters'
  BY DEF HandleReadRegisters, HandleWriteScratch, HandleWritePc, HandleMemory, IInv, Counters,
         HandleBreakpointSet, HandleBreakpointClear, HandleStep, HandleRiscvLoad, Unmoved
<1>2. Links'
  BY ReplyType, ReceiveLinks
  DEF HandleReadRegisters, HandleWriteScratch, HandleWritePc, HandleMemory,
      HandleBreakpointSet, HandleBreakpointClear, HandleStep, HandleRiscvLoad
<1>3. TargetSound(target)
  BY DEF IInv
<1>4. ASSUME NEW op \in {"Z", "z", "P32", "riscv_load"}, Receive(op) PROVE Arg \in Addr
  BY <1>4, ReceivedPacket, PacketArgs DEF Receive, Arg
<1>5. CASE HandleReadRegisters
  BY <1>1, <1>2, <1>3, <1>5, TargetReadRegistersSound DEF HandleReadRegisters, IInv
<1>6. CASE HandleWriteScratch
  BY <1>1, <1>2, <1>3, <1>6, TargetWriteScratchSound DEF HandleWriteScratch, IInv
<1>7. CASE HandleWritePc
  BY <1>1, <1>2, <1>3, <1>4, <1>7, TargetWritePcSound DEF HandleWritePc, IInv
<1>8. CASE HandleMemory
  BY <1>1, <1>2, <1>3, <1>8, TargetMemorySound DEF HandleMemory, IInv
<1>9. CASE HandleBreakpointSet
  BY <1>1, <1>2, <1>3, <1>4, <1>9, TargetSetBreakpointSound DEF HandleBreakpointSet, IInv
<1>10. CASE HandleBreakpointClear
  BY <1>1, <1>2, <1>3, <1>4, <1>10, TargetClearBreakpointSound DEF HandleBreakpointClear, IInv
<1>11. CASE HandleStep
  <2>1. PICK f \in Faults :
          target' = [target EXCEPT !.jtag =
                       WriteDpc(target.jtag, (target.jtag.dpc + 1) % NumAddrs, f)]
    BY <1>11 DEF HandleStep
  <2>2. (target.jtag.dpc + 1) % NumAddrs \in Addr
    BY <1>3, AddrAssumption DEF TargetSound, Sound, JtagState, Addr
  <2>3. Sound(WriteDpc(target.jtag, (target.jtag.dpc + 1) % NumAddrs, f))
    BY <1>3, <2>2, WriteDpcSound DEF TargetSound
  <2> QED
    BY <1>1, <1>2, <1>3, <2>1, <2>3 DEF IInv, TargetSound, TargetState, Sound
<1>12. CASE HandleRiscvLoad
  <2>1. Arg \in Addr
    BY <1>4, <1>12 DEF HandleRiscvLoad
  <2>2. PICK f \in Faults :
          LET stopped == TargetHalt(target, f)
              loaded  == AccessMemory(stopped.jtag, f)
          IN target' = [stopped EXCEPT !.jtag =
                          IF OnHart(loaded, "mem", f) THEN WriteDpc(loaded, Arg, f)
                          ELSE loaded]
    BY <1>12 DEF HandleRiscvLoad
  <2> DEFINE stopped == TargetHalt(target, f)
             loaded  == AccessMemory(stopped.jtag, f)
             final   == IF OnHart(loaded, "mem", f) THEN WriteDpc(loaded, Arg, f) ELSE loaded
  <2>3. TargetSound(stopped)
    BY <1>3, TargetHaltSound
  <2>4. Sound(loaded)
    BY <2>3, AccessMemorySound DEF TargetSound
  <2>5. Sound(final)
    BY <2>1, <2>4, WriteDpcSound
  <2>6. target' = [stopped EXCEPT !.jtag = final]
    BY <2>2
  <2> HIDE DEF stopped, loaded, final
  <2>7. TargetSound(target')
    BY <2>3, <2>5, <2>6 DEF TargetSound, TargetState, Sound
  <2> QED
    BY <1>1, <1>2, <2>7 DEF IInv
<1> QED
  BY <1>5, <1>6, <1>7, <1>8, <1>9, <1>10, <1>11, <1>12

\* `c', and `D' and `k'.
LEMMA ContinueSound == IInv /\ (HandleContinue \/ HandleDetach) => IInv'
<1> SUFFICES ASSUME IInv, HandleContinue \/ HandleDetach PROVE IInv'
  OBVIOUS
<1>1. TargetSound(target')
  BY TargetContinueSound, TargetClearAllBreakpointsSound
  DEF HandleContinue, HandleDetach, IInv
<1>2. Counters'
  BY DEF HandleContinue, HandleDetach, IInv, Counters
<1>3. toGdb' \in Seq({"stop", "answer"})
  BY ReplyType DEF HandleContinue, HandleDetach, IInv, Links
<1>4. Links'
  BY <1>3, ReceiveLinks DEF HandleContinue, HandleDetach
<1> QED
  BY <1>1, <1>2, <1>4 DEF IInv

LEMMA ThreadsSound == IInv /\ (HandleSetThread \/ HandleThreadInfo) => IInv'
<1> SUFFICES ASSUME IInv, HandleSetThread \/ HandleThreadInfo PROVE IInv'
  OBVIOUS
<1>1. Links'
  BY ReplyType, ReceiveLinks DEF HandleSetThread, HandleThreadInfo
<1>2. CASE HandleSetThread
  <2>1. Arg \in Nat
    BY <1>2, ReceivedPacket, PacketArgs DEF HandleSetThread, Receive, Arg
  <2>2. s_current_tid' \in Nat
    BY <1>2, <2>1 DEF HandleSetThread, IInv, Counters
  <2> QED
    BY <1>1, <1>2, <2>2 DEF HandleSetThread, IInv, Counters
<1>3. CASE HandleThreadInfo
  BY <1>1, <1>3, RefreshSound DEF HandleThreadInfo, IInv, Counters
<1> QED
  BY <1>2, <1>3

LEMMA SwitchSound == IInv /\ (HandleTargetLocal \/ HandleTargetJtag) => IInv'
<1> SUFFICES ASSUME IInv, HandleTargetLocal \/ HandleTargetJtag PROVE IInv'
  OBVIOUS
<1>1. PICK backend \in Backend : Switch(backend)
  BY DEF HandleTargetLocal, HandleTargetJtag, Backend
<1>2. PICK f \in Faults : \E order \in ThreadOrders(Switched(backend, f)) :
        /\ target' = TargetHalt(TargetGetThreads(Switched(backend, f), order), f)
        /\ s_thread_count' = TargetThreadCount(Switched(backend, f), order)
  BY <1>1 DEF Switch
<1>3. TargetSound(Switched(backend, f))
  <2> DEFINE tg == TargetSetBackend(target, backend, f)
  <2>1. TargetSound(tg)
    BY TargetSetBackendSound DEF IInv
  <2> HIDE DEF tg
  <2>2. LocalSound(LocalExclude(tg.local, Srv))
    BY <2>1, LocalExcludeSound DEF TargetSound, Task
  <2>3. TargetSound([tg EXCEPT !.local = LocalExclude(@, Srv)])
    BY <2>1, <2>2 DEF TargetSound, TargetState, LocalSound
  <2> QED
    BY <2>1, <2>3 DEF Switched, tg
<1>4. TargetSound(target') /\ s_thread_count' \in Nat
  BY <1>2, <1>3, OrderSound, TargetHaltSound
<1>5. s_current_tid' \in Nat /\ s_running' \in BOOLEAN
  BY <1>1 DEF Switch, IInv, Counters
<1>6. Links'
  BY ReplyType, ReceiveLinks DEF HandleTargetLocal, HandleTargetJtag, Switch
<1> QED
  BY <1>4, <1>5, <1>6 DEF IInv, Counters

---------------------------------------------------------------------------
(* The hart, the tasks and GDB.                                            *)

LEMMA EnvironmentSound == IInv /\ Environment => IInv'
<1> SUFFICES ASSUME IInv, Environment PROVE IInv'
  OBVIOUS
<1>1. Counters' /\ Links'
  BY DEF Environment, HartMoves, HartHits, HartStopsLate, MainReturns, TaskCreated, TaskMoves,
         ServerIdle, IInv, Counters, Links
<1>2. TargetSound(target) /\ Sound(target.jtag) /\ LocalSound(target.local)
  BY DEF IInv, TargetSound
<1>3. ASSUME NEW j, Sound(j) PROVE TargetSound([target EXCEPT !.jtag = j])
  BY <1>2, <1>3 DEF TargetSound, TargetState, Sound
<1>4. ASSUME NEW l, LocalSound(l) PROVE TargetSound([target EXCEPT !.local = l])
  BY <1>2, <1>4 DEF TargetSound, TargetState, LocalSound
<1>5. TargetSound(target')
  <2>1. CASE HartMoves
    BY <1>2, <1>3, <2>1, HartExecutesSound DEF HartMoves
  <2>2. CASE HartHits \/ HartStopsLate
    BY <1>2, <1>3, <2>2, HartStopsSound DEF HartHits, HartStopsLate
  <2>3. CASE MainReturns
    BY <1>2, <1>4, <2>3, SetRunSound DEF MainReturns, Task
  <2>4. ASSUME NEW t \in AppTasks, TaskCreated(t) PROVE TargetSound(target')
    BY <1>2, <1>4, <2>4, SetRunSound DEF TaskCreated, Task
  <2>5. ASSUME NEW t \in AppTasks, TaskMoves(t) PROVE TargetSound(target')
    BY <1>2, <1>4, <2>5, TaskExecutesSound DEF TaskMoves, Task
  <2> QED
    BY <2>1, <2>2, <2>3, <2>4, <2>5 DEF Environment
<1> QED
  BY <1>1, <1>5 DEF IInv

LEMMA GdbSideSound == IInv /\ GdbSide => IInv'
<1> SUFFICES ASSUME IInv, GdbSide PROVE IInv'
  OBVIOUS
<1>1. TargetSound(target') /\ Counters'
  BY DEF GdbSide, GdbAttaches, GdbCommands, GdbInterrupts, GdbReceives, GdbVanishes, BridgeDrops,
         Send, Client, IInv, Counters
<1>2. ASSUME NEW p \in Packet, NEW mode \in Mode, NEW intr \in BOOLEAN, Send(p, mode, intr)
      PROVE  Links'
  BY <1>2 DEF Send, IInv, Links
<1>3. ASSUME NEW mode \in Mode, gdb' = [mode |-> mode, interrupting |-> FALSE]
      PROVE  gdb' \in [mode : Mode, interrupting : BOOLEAN]
  <2>1. FALSE \in BOOLEAN
    OBVIOUS
  <2> QED
    BY <1>3, <2>1
<1>4. {"waiting", "running", "leaving", "stopped", "detached"} \subseteq Mode
  BY DEF Mode
<1>5. FALSE \in BOOLEAN /\ TRUE \in BOOLEAN
  OBVIOUS
<1>6. Links'
  <2>1. CASE GdbAttaches
    BY <1>2, <1>4, <1>5, <2>1, PlainPackets, Zenon DEF GdbAttaches
  <2>2. CASE GdbCommands
    <3>1. PICK p \in Commands :
            Send(p, CASE p.op = "c" -> "running" [] p.op = "D" -> "leaving"
                      [] OTHER -> "waiting", FALSE)
      BY <2>2 DEF GdbCommands
    <3> DEFINE mode == CASE p.op = "c" -> "running" [] p.op = "D" -> "leaving"
                         [] OTHER -> "waiting"
    <3>2. p \in Packet /\ mode \in Mode
      BY <1>4 DEF Commands
    <3>3. Send(p, mode, FALSE)
      BY <3>1
    <3> HIDE DEF mode
    <3> QED
      BY <1>2, <1>5, <3>2, <3>3, Zenon
  <2>3. CASE GdbInterrupts
    BY <1>2, <1>4, <1>5, <2>3, PlainPackets, Zenon DEF GdbInterrupts
  <2>4. CASE GdbReceives
    <3>1. toServer' \in Seq(Packet) /\ toGdb' \in Seq({"stop", "answer"})
      BY <2>4 DEF GdbReceives, IInv, Links
    <3>2. \/ gdb' = gdb
          \/ gdb' = [mode |-> "detached", interrupting |-> FALSE]
          \/ gdb' = [mode |-> "stopped", interrupting |-> FALSE]
      BY <2>4 DEF GdbReceives
    <3>3. gdb' \in [mode : Mode, interrupting : BOOLEAN]
      BY <1>3, <1>4, <3>2 DEF IInv, Links
    <3> QED
      BY <3>1, <3>3 DEF Links
  <2>5. CASE GdbVanishes
    <3>1. gdb' \in [mode : Mode, interrupting : BOOLEAN]
      BY <1>3, <1>4, <2>5 DEF GdbVanishes
    <3> QED
      BY <2>5, <3>1 DEF GdbVanishes, IInv, Links
  <2>6. CASE BridgeDrops
    BY <2>6 DEF BridgeDrops, IInv, Links
  <2> QED
    BY <2>1, <2>2, <2>3, <2>4, <2>5, <2>6 DEF GdbSide
<1> QED
  BY <1>1, <1>6 DEF IInv

---------------------------------------------------------------------------
(* The theorems.                                                           *)

LEMMA InitIInv == Init => IInv
<1> SUFFICES ASSUME Init PROVE IInv
  OBVIOUS
<1>1. PICK pc \in Addr, order \in Orders(Existing(LocalBoot)) :
        target = [ops |-> "local", jtag |-> JtagBoot(pc),
                  local |-> LocalGetThreads(LocalBoot, order)]
  BY DEF Init
<1>2. LocalSound(LocalGetThreads(LocalBoot, order))
  BY LocalBootSound, OrdersType, LocalGetThreadsSound
<1>3. TargetSound(target)
  BY <1>1, <1>2, BootSound DEF TargetSound, TargetState, Backend, Sound, LocalSound
<1>4. Counters
  BY OrdersType, <1>1 DEF Init, Counters
<1>5. Links
  BY DEF Init, Links, Mode
<1> QED
  BY <1>3, <1>4, <1>5 DEF IInv

LEMMA StepIInv == IInv /\ [Next]_vars => IInv'
<1>1. IInv /\ UNCHANGED vars => IInv'
  BY DEF IInv, vars, Counters, Links
<1>2. IInv /\ Handle => IInv'
  BY InterruptSound, HaltReasonSound, AccessSound, ContinueSound, ThreadsSound, SwitchSound
  DEF Handle
<1> QED
  BY <1>1, <1>2, PollSound, EnvironmentSound, GdbSideSound DEF Next

\* The inductive invariant holds in every execution.
THEOREM Invariance == Spec => []IInv
<1> QED
  BY InitIInv, StepIInv, PTL DEF Spec

\* No handler leaves a slot, a trigger or a thread id outside its range, whatever
\* packets arrive, and no sequence of `Z', `z' and backend switches gives an
\* address two slots.
THEOREM ServerStaysSound == Spec => []ServerIsSound
<1>1. IInv => TypeOK
  BY DEF IInv, TypeOK, TargetSound, Counters, Links
<1>2. IInv => NoDuplicateSlots
  BY DEF IInv, TargetSound, Sound, LocalSound, NoDuplicateSlots
<1> QED
  BY <1>1, <1>2, Invariance, PTL DEF ServerIsSound

\* The backend never takes a running hart for a halted one, however often the
\* Debug Module fails and wherever in a handler it does.
THEOREM HaltFlagsNeverLie == Spec => []HaltFlagsSound
<1>1. IInv => HaltFlagsSound
  BY DEF IInv, TargetSound, Sound, HaltFlagsSound
<1> QED
  BY <1>1, Invariance, PTL

---------------------------------------------------------------------------
(* What one backend does to the other.                                    *)

\* Only app_main and the server's own task are ever excluded: halting reaches
\* every task of the application.
Reachable(l) == l.excluded \subseteq {Main, Srv}

\* From l to k, no task is lost and none that was stopped runs.
Kept(l, k) ==
    Reachable(l) =>
      /\ Reachable(k)
      /\ NoTaskLost(l) => NoTaskLost(k)
      /\ AllStopped(l) => AllStopped(k)

\* What a call through the vtable does: the other backend is as it was.
Calm(tg, new) ==
    /\ new.ops = tg.ops
    /\ Kept(tg.local, new.local)
    /\ ~OnJtag(tg) => new.jtag = tg.jtag

---------------------------------------------------------------------------
(* target_local.c.                                                         *)

\* Halting suspends every application task that runs, and remembers it.
LEMMA LocalHaltKept ==
    ASSUME NEW l, LocalSound(l)
    PROVE  Kept(l, LocalHalt(l))
<1> DEFINE S == Debuggable(l)
           run == [t \in Task |-> IF t \in S THEN "suspended" ELSE l.run[t]]
           k == [l EXCEPT !.halted = TRUE, !.suspended = S, !.run = run]
<1> SUFFICES ASSUME ~l.halted, Reachable(l)
             PROVE  Reachable(k) /\ AllStopped(k) /\ (NoTaskLost(l) => NoTaskLost(k))
  BY DEF LocalHalt, Kept
<1>1. k.run = run /\ k.suspended = S /\ k.halted = TRUE /\ k.excluded = l.excluded
  BY DEF LocalSound, LocalState
<1>2. \A t \in AppTasks : l.run[t] = "ready" => t \in S
  BY TaskAssumption DEF Debuggable, Reachable, Task
<1> HIDE DEF S, k
<1>3. AllStopped(k)
  BY <1>1, <1>2 DEF AllStopped, Task
<1>4. NoTaskLost(l) => NoTaskLost(k)
  BY <1>1 DEF NoTaskLost
<1> QED
  BY <1>1, <1>3, <1>4 DEF Reachable

\* Resuming wakes exactly the tasks that halting remembered.
LEMMA LocalResumeKept ==
    ASSUME NEW l, LocalSound(l)
    PROVE  Kept(l, LocalResume(l))
<1> DEFINE run == [t \in Task |-> IF t \in l.suspended THEN "ready" ELSE l.run[t]]
           k == [l EXCEPT !.halted = FALSE, !.suspended = {}, !.run = run]
<1> SUFFICES ASSUME Reachable(l)
             PROVE  Reachable(k) /\ AllStopped(k) /\ (NoTaskLost(l) => NoTaskLost(k))
  BY DEF LocalResume, Kept
<1>1. k.run = run /\ k.halted = FALSE /\ k.excluded = l.excluded
  BY DEF LocalSound, LocalState
<1> HIDE DEF k
<1> QED
  BY <1>1 DEF AllStopped, NoTaskLost, Reachable

\* The calls that leave the scheduler alone.
LEMMA OthersKept ==
    ASSUME NEW l, LocalSound(l)
    PROVE  /\ Kept(l, l)
           /\ \A order : Kept(l, LocalGetThreads(l, order))
           /\ \A tid, pc : Kept(l, LocalWritePc(l, tid, pc))
           /\ \A a : Kept(l, LocalSetBreakpoint(l, a))
           /\ \A a : Kept(l, LocalClearBreakpoint(l, a))
           /\ Kept(l, LocalClearAllBreakpoints(l))
BY DEF LocalSound, LocalState, Kept, Reachable, NoTaskLost, AllStopped, LocalGetThreads,
       LocalWritePc, LocalSetBreakpoint, LocalClearBreakpoint, LocalClearAllBreakpoints

---------------------------------------------------------------------------
(* target.c.                                                               *)

\* A dispatched call reaches one backend.
LEMMA DispatchCalm ==
    ASSUME NEW tg, NEW j, NEW l, TargetSound(tg), Kept(tg.local, l)
    PROVE  Calm(tg, Dispatch(tg, j, l))
<1>1. Kept(tg.local, tg.local)
  BY OthersKept DEF TargetSound
<1> QED
  BY <1>1 DEF TargetSound, TargetState, Dispatch, Calm

\* A handler makes several calls.
LEMMA CalmTransitive ==
    ASSUME NEW tg, NEW mid, NEW new, Calm(tg, mid), Calm(mid, new)
    PROVE  Calm(tg, new)
BY DEF Calm, Kept, OnJtag

\* Every entry of the vtable but init.
LEMMA CallsCalm ==
    ASSUME NEW tg, TargetSound(tg)
    PROVE  /\ \A f : Calm(tg, TargetHalt(tg, f))
           /\ \A f : Calm(tg, TargetContinue(tg, f))
           /\ \A f : Calm(tg, TargetClearAllBreakpoints(tg, f))
           /\ \A order : Calm(tg, TargetGetThreads(tg, order))
           /\ \A f : Calm(tg, TargetReadRegisters(tg, f))
           /\ Calm(tg, TargetWriteScratch(tg))
           /\ \A tid, pc, f : Calm(tg, TargetWritePc(tg, tid, pc, f))
           /\ \A f : Calm(tg, TargetMemory(tg, f))
           /\ \A a, f : Calm(tg, TargetSetBreakpoint(tg, a, f))
           /\ \A a, f : Calm(tg, TargetClearBreakpoint(tg, a, f))
           /\ \A f : Calm(tg, TargetCheckBreakpoints(tg, f))
<1>1. LocalSound(tg.local)
  BY DEF TargetSound
<1>2. Kept(tg.local, LocalHalt(tg.local)) /\ Kept(tg.local, LocalResume(tg.local))
  BY <1>1, LocalHaltKept, LocalResumeKept
<1>3. \A f : Calm(tg, TargetHalt(tg, f)) /\ Calm(tg, TargetContinue(tg, f))
  BY <1>2, DispatchCalm DEF TargetHalt, TargetContinue
<1>4. \A f : Calm(tg, TargetClearAllBreakpoints(tg, f))
  BY <1>1, OthersKept, DispatchCalm DEF TargetClearAllBreakpoints
<1>5. \A order : Calm(tg, TargetGetThreads(tg, order))
  BY <1>1, OthersKept, DispatchCalm DEF TargetGetThreads
<1>6. /\ \A f : Calm(tg, TargetReadRegisters(tg, f))
      /\ Calm(tg, TargetWriteScratch(tg))
      /\ \A f : Calm(tg, TargetMemory(tg, f))
      /\ \A f : Calm(tg, TargetCheckBreakpoints(tg, f))
  BY <1>1, OthersKept, DispatchCalm
  DEF TargetReadRegisters, TargetWriteScratch, TargetMemory, TargetCheckBreakpoints
<1>7. \A tid, pc, f : Calm(tg, TargetWritePc(tg, tid, pc, f))
  BY <1>1, OthersKept, DispatchCalm DEF TargetWritePc
<1>8. /\ \A a, f : Calm(tg, TargetSetBreakpoint(tg, a, f))
      /\ \A a, f : Calm(tg, TargetClearBreakpoint(tg, a, f))
  BY <1>1, OthersKept, DispatchCalm DEF TargetSetBreakpoint, TargetClearBreakpoint
<1> QED
  BY <1>3, <1>4, <1>5, <1>6, <1>7, <1>8

\* `monitor target': only the backend that becomes active starts anew.
LEMMA SetBackendKept ==
    ASSUME NEW tg, NEW f, NEW backend \in Backend, TargetSound(tg)
    PROVE  LET new == TargetSetBackend(tg, backend, f)
           IN /\ new.ops = backend
              /\ backend = "jtag" => Kept(tg.local, new.local)
              /\ backend = "local" => /\ Reachable(new.local) /\ AllStopped(new.local)
                                      /\ ~OnJtag(tg) => new.jtag = tg.jtag
<1> DEFINE stopped == IF TargetIsHalted(tg, f) THEN tg ELSE TargetHalt(tg, f)
           cleared == TargetClearAllBreakpoints(stopped, f)
           other   == [cleared EXCEPT !.ops = backend]
           new     == TargetInit(other, f)
<1>1. TargetSound(stopped) /\ Calm(tg, stopped)
  <2>1. Calm(tg, tg)
    BY OthersKept DEF Calm, TargetSound
  <2> QED
    BY <2>1, CallsCalm, TargetHaltSound
<1> HIDE DEF stopped
<1>2. TargetSound(cleared) /\ Calm(tg, cleared)
  BY <1>1, CallsCalm, CalmTransitive, TargetClearAllBreakpointsSound
<1> HIDE DEF cleared
<1>3. /\ other \in TargetState /\ other.ops = backend
      /\ other.jtag = cleared.jtag /\ other.local = cleared.local
  BY <1>2 DEF TargetSound, TargetState
<1> HIDE DEF other
<1>4. CASE backend = "jtag"
  <2>1. new.ops = backend /\ new.local = cleared.local
    BY <1>3, <1>4 DEF TargetInit, Dispatch, OnJtag, TargetState
  <2> QED
    BY <1>2, <1>4, <2>1 DEF Calm, TargetSetBackend, other, cleared, stopped
<1>5. CASE backend = "local"
  <2>1. /\ new.ops = backend /\ new.jtag = cleared.jtag
        /\ new.local = LocalInit(cleared.local)
    BY <1>3, <1>5 DEF TargetInit, Dispatch, OnJtag, TargetState
  <2>2. Reachable(LocalInit(cleared.local)) /\ AllStopped(LocalInit(cleared.local))
    BY <1>2 DEF TargetSound, LocalSound, LocalState, LocalInit, Reachable, AllStopped
  <2> QED
    BY <1>2, <1>5, <2>1, <2>2 DEF Calm, TargetSetBackend, other, cleared, stopped
<1> QED
  BY <1>4, <1>5 DEF Backend

---------------------------------------------------------------------------
(* The server's steps.                                                     *)

\* Listing the threads.
LEMMA RefreshCalm ==
    ASSUME NEW tg, NEW tid, TargetSound(tg), Refresh(tg, tid)
    PROVE  Calm(tg, target')
BY CallsCalm DEF Refresh

\* The handlers that reach the target through the vtable only.
LEMMA HandlersCalm ==
    ASSUME IInv, \/ Poll \/ HandleInterrupt \/ HandleHaltReason \/ HandleReadRegisters
                 \/ HandleWriteScratch \/ HandleWritePc \/ HandleMemory
                 \/ HandleBreakpointSet \/ HandleBreakpointClear \/ HandleContinue
                 \/ HandleSetThread \/ HandleThreadInfo \/ HandleDetach
    PROVE  Calm(target, target')
<1>1. TargetSound(target) /\ Calm(target, target)
  BY OthersKept DEF IInv, Calm, TargetSound
<1>2. CASE Poll
  <2>1. PICK f \in Faults :
          /\ TargetHit(target, f)
          /\ \E tid : Refresh(TargetHalt(TargetCheckBreakpoints(target, f), f), tid)
    BY <1>2 DEF Poll
  <2> DEFINE hit == TargetCheckBreakpoints(target, f)
  <2>2. TargetSound(hit) /\ Calm(target, hit)
    BY <1>1, <2>1, CallsCalm, TargetCheckBreakpointsSound
  <2>3. TargetSound(TargetHalt(hit, f)) /\ Calm(hit, TargetHalt(hit, f))
    BY <2>2, CallsCalm, TargetHaltSound
  <2>4. Calm(TargetHalt(hit, f), target')
    BY <2>1, <2>3, RefreshCalm
  <2> QED
    BY <2>2, <2>3, <2>4, CalmTransitive
<1>3. CASE HandleInterrupt \/ HandleHaltReason
  <2>1. ASSUME NEW f, NEW tid, Refresh(TargetHalt(target, f), tid) PROVE Calm(target, target')
    BY <1>1, <2>1, CallsCalm, TargetHaltSound, RefreshCalm, CalmTransitive
  <2> QED
    BY <1>1, <1>3, <2>1 DEF HandleInterrupt, HandleHaltReason
<1>4. CASE HandleReadRegisters \/ HandleWriteScratch \/ HandleWritePc \/ HandleMemory
           \/ HandleBreakpointSet \/ HandleBreakpointClear
  BY <1>1, <1>4, CallsCalm
  DEF HandleReadRegisters, HandleWriteScratch, HandleWritePc, HandleMemory,
      HandleBreakpointSet, HandleBreakpointClear
<1>5. CASE HandleContinue \/ HandleDetach
  BY <1>1, <1>5, CallsCalm, CalmTransitive, TargetClearAllBreakpointsSound
  DEF HandleContinue, HandleDetach
<1>6. CASE HandleSetThread \/ HandleThreadInfo
  BY <1>1, <1>6, RefreshCalm DEF HandleSetThread, HandleThreadInfo
<1> QED
  BY <1>2, <1>3, <1>4, <1>5, <1>6

\* `s' and riscv_load bypass the vtable, but never reach the tasks.
LEMMA BypassKept ==
    ASSUME IInv, HandleStep \/ HandleRiscvLoad
    PROVE  Kept(target.local, target'.local)
<1>1. TargetSound(target) /\ Kept(target.local, target.local)
  BY OthersKept DEF IInv, TargetSound
<1>2. CASE HandleStep
  BY <1>1, <1>2 DEF HandleStep, TargetSound, TargetState
<1>3. CASE HandleRiscvLoad
  <2>1. PICK f \in Faults : \E j : target' = [TargetHalt(target, f) EXCEPT !.jtag = j]
    BY <1>3 DEF HandleRiscvLoad
  <2>2. TargetSound(TargetHalt(target, f)) /\ Calm(target, TargetHalt(target, f))
    BY <1>1, CallsCalm, TargetHaltSound
  <2> QED
    BY <2>1, <2>2 DEF Calm, TargetSound, TargetState
<1> QED
  BY <1>2, <1>3

\* The whole handler of `monitor target', up to the halt of the new backend.
LEMMA SwitchKept ==
    ASSUME IInv, NEW backend \in Backend, Switch(backend)
    PROVE  /\ target'.ops = backend
           /\ backend = "jtag" => Kept(target.local, target'.local)
           /\ backend = "local" => /\ Reachable(target'.local) /\ AllStopped(target'.local)
                                   /\ ~OnJtag(target) => target'.jtag = target.jtag
<1>1. PICK f \in Faults : \E order \in ThreadOrders(Switched(backend, f)) :
        target' = TargetHalt(TargetGetThreads(Switched(backend, f), order), f)
  BY DEF Switch
<1> DEFINE tg == TargetSetBackend(target, backend, f)
           sw == Switched(backend, f)
<1>2. TargetSound(tg)
  BY TargetSetBackendSound DEF IInv
<1>3. /\ tg.ops = backend
      /\ backend = "jtag" => Kept(target.local, tg.local)
      /\ backend = "local" => /\ Reachable(tg.local) /\ AllStopped(tg.local)
                              /\ ~OnJtag(target) => tg.jtag = target.jtag
  BY SetBackendKept DEF IInv
<1> HIDE DEF tg
<1>4. LocalSound(LocalExclude(tg.local, Srv))
  BY <1>2, LocalExcludeSound DEF TargetSound, Task
<1>5. sw = IF backend = "local" THEN [tg EXCEPT !.local = LocalExclude(tg.local, Srv)] ELSE tg
  BY DEF Switched, tg
<1> HIDE DEF sw
<1>6. TargetSound(sw)
  BY <1>2, <1>4, <1>5 DEF TargetSound, TargetState, LocalSound
<1>7. /\ sw.ops = backend
      /\ backend = "jtag" => Kept(target.local, sw.local)
      /\ backend = "local" => /\ Reachable(sw.local) /\ AllStopped(sw.local)
                              /\ ~OnJtag(target) => sw.jtag = target.jtag
  <2>1. Reachable(tg.local) /\ AllStopped(tg.local) =>
          LET l == LocalExclude(tg.local, Srv) IN Reachable(l) /\ AllStopped(l)
    BY <1>2 DEF TargetSound, LocalSound, LocalState, LocalExclude, Reachable, AllStopped
  <2>2. backend = "local" =>
          /\ sw.ops = tg.ops /\ sw.jtag = tg.jtag /\ sw.local = LocalExclude(tg.local, Srv)
    BY <1>2, <1>5 DEF TargetSound, TargetState
  <2> QED
    BY <1>3, <1>5, <2>1, <2>2 DEF Backend
<1>8. PICK order \in ThreadOrders(sw) : target' = TargetHalt(TargetGetThreads(sw, order), f)
  BY <1>1 DEF sw
<1>9. TargetSound(TargetGetThreads(sw, order)) /\ Calm(sw, TargetGetThreads(sw, order))
  BY <1>6, OrderSound, CallsCalm
<1>10. Calm(sw, target')
  BY <1>8, <1>9, CallsCalm, CalmTransitive
<1> QED
  BY <1>7, <1>10 DEF Calm, Kept, OnJtag, Backend

---------------------------------------------------------------------------
(* The hart, the tasks and GDB.                                            *)

\* What the server does not do reaches the hart while it runs, or the tasks.
LEMMA OutsideKept ==
    ASSUME IInv, Environment \/ GdbSide
    PROVE  /\ target'.ops = target.ops
           /\ target.jtag.hart_halted => target'.jtag = target.jtag
           /\ Reachable(target.local) => Reachable(target'.local)
           /\ NoTaskLost(target.local) => NoTaskLost(target'.local)
           /\ AllStopped(target.local) =>
                AllStopped(target'.local) \/ \E t \in AppTasks : TaskCreated(t)
<1>1. target \in TargetState /\ target.local \in LocalState
  BY DEF IInv, TargetSound, LocalSound
<1>2. CASE GdbSide
  BY <1>2 DEF GdbSide, GdbAttaches, GdbCommands, GdbInterrupts, GdbReceives, GdbVanishes,
              BridgeDrops, Send, Client
<1>3. CASE HartMoves \/ HartHits \/ HartStopsLate
  BY <1>1, <1>3 DEF HartMoves, HartHits, HartStopsLate, AtTrigger, TargetState
<1>4. ASSUME NEW l, target' = [target EXCEPT !.local = l]
      PROVE  target'.ops = target.ops /\ target'.jtag = target.jtag /\ target'.local = l
  BY <1>1, <1>4 DEF TargetState
<1>5. ASSUME NEW t \in Task, NEW r \in {"absent", "ready"}, target.local.run[t] # "suspended"
      PROVE  LET l == SetRun(target.local, t, r)
             IN /\ Reachable(target.local) => Reachable(l)
                /\ NoTaskLost(target.local) => NoTaskLost(l)
                /\ r = "absent" /\ AllStopped(target.local) => AllStopped(l)
  <2> DEFINE l == SetRun(target.local, t, r)
  <2>1. /\ l.halted = target.local.halted /\ l.suspended = target.local.suspended
        /\ l.excluded = target.local.excluded
        /\ \A u \in Task : l.run[u] = IF u = t THEN r ELSE target.local.run[u]
    BY <1>1, <1>5 DEF SetRun, LocalState
  <2> HIDE DEF l
  <2> QED
    BY <1>5, <2>1 DEF Reachable, NoTaskLost, AllStopped, Task, l
<1>6. CASE MainReturns
  <2>1. target.local.run[Main] # "suspended" /\ Main \in Task
    BY <1>6 DEF MainReturns, CanReturn, Task
  <2>2. target' = [target EXCEPT !.local = SetRun(target.local, Main, "absent")]
    BY <1>6 DEF MainReturns
  <2> QED
    BY <1>4, <1>5, <2>1, <2>2
<1>7. ASSUME NEW t \in AppTasks, TaskCreated(t)
      PROVE  /\ target'.ops = target.ops /\ target'.jtag = target.jtag
             /\ Reachable(target.local) => Reachable(target'.local)
             /\ NoTaskLost(target.local) => NoTaskLost(target'.local)
  <2>1. target.local.run[t] # "suspended" /\ t \in Task
    BY <1>7 DEF TaskCreated, CanCreate, Task
  <2>2. target' = [target EXCEPT !.local = SetRun(target.local, t, "ready")]
    BY <1>7 DEF TaskCreated
  <2> QED
    BY <1>4, <1>5, <2>1, <2>2
<1>8. ASSUME NEW t \in AppTasks, TaskMoves(t)
      PROVE  /\ target'.ops = target.ops /\ target'.jtag = target.jtag
             /\ Reachable(target.local) => Reachable(target'.local)
             /\ NoTaskLost(target.local) => NoTaskLost(target'.local)
             /\ AllStopped(target.local) => AllStopped(target'.local)
  <2>1. PICK pc \in Addr :
          target' = [target EXCEPT !.local = TaskExecutes(target.local, t, pc)]
    BY <1>8 DEF TaskMoves
  <2>2. /\ target'.ops = target.ops /\ target'.jtag = target.jtag
        /\ target'.local = TaskExecutes(target.local, t, pc)
    BY <1>4, <2>1
  <2>3. /\ target'.local.halted = target.local.halted
        /\ target'.local.suspended = target.local.suspended
        /\ target'.local.excluded = target.local.excluded
        /\ target'.local.run = target.local.run
    BY <1>1, <2>2 DEF TaskExecutes, LocalState
  <2> QED
    BY <2>2, <2>3 DEF Reachable, NoTaskLost, AllStopped
<1> QED
  BY <1>2, <1>3, <1>6, <1>7, <1>8 DEF Environment

\* The server's steps, sorted by what they may do to the tasks and the hart.
LEMMA ServerSteps ==
    ASSUME IInv, Poll \/ Handle
    PROVE  \/ Calm(target, target')
           \/ (HandleStep \/ HandleRiscvLoad) /\ Kept(target.local, target'.local)
           \/ /\ HandleTargetJtag /\ OnJtag(target')
              /\ Kept(target.local, target'.local)
           \/ /\ HandleTargetLocal
              /\ Reachable(target'.local) /\ AllStopped(target'.local)
              /\ ~OnJtag(target) => target'.jtag = target.jtag
<1>1. CASE HandleTargetLocal
  BY <1>1, SwitchKept DEF HandleTargetLocal, Backend
<1>2. CASE HandleTargetJtag
  BY <1>2, SwitchKept DEF HandleTargetJtag, Backend, OnJtag
<1>3. CASE HandleStep \/ HandleRiscvLoad
  BY <1>3, BypassKept
<1> QED
  BY <1>1, <1>2, <1>3, HandlersCalm DEF Handle

---------------------------------------------------------------------------
(* The theorems.                                                           *)

\* Halting can reach every task of the application: none is ever excluded.
LEMMA TasksReachable == Spec => [](IInv /\ Reachable(target.local))
<1>1. Init => Reachable(target.local)
  <2> SUFFICES ASSUME Init PROVE Reachable(target.local)
    OBVIOUS
  <2>1. PICK order : target.local = LocalGetThreads(LocalBoot, order)
    BY DEF Init
  <2> QED
    BY <2>1 DEF LocalGetThreads, LocalBoot, Reachable
<1>2. IInv /\ Reachable(target.local) /\ [Next]_vars => Reachable(target.local)'
  <2> SUFFICES ASSUME IInv, Reachable(target.local), [Next]_vars
               PROVE  Reachable(target'.local)
    OBVIOUS
  <2>1. CASE Poll \/ Handle
    BY <2>1, ServerSteps DEF Calm, Kept
  <2>2. CASE Environment \/ GdbSide
    BY <2>2, OutsideKept
  <2>3. CASE UNCHANGED vars
    BY <2>3 DEF vars
  <2> QED
    BY <2>1, <2>2, <2>3 DEF Next
<1> QED
  BY <1>1, <1>2, Invariance, PTL DEF Spec

\* While the local backend is active, no command of GDB but `s' and riscv_load
\* changes anything of the parked hart: neither its registers nor its triggers,
\* however often the backend is switched to itself and whatever calls fail.
THEOREM ParkedHartStaysUntouched == Spec => ParkedHartUntouched
<1> DEFINE Untouched ==
      ~OnJtag(target) /\ ~OnJtag(target)' /\ target.jtag.hart_halted =>
        target.jtag' = target.jtag \/ HandleStep \/ HandleRiscvLoad
<1>1. IInv /\ [Next]_vars => [Untouched]_vars
  <2> SUFFICES ASSUME IInv, Next, ~OnJtag(target), ~OnJtag(target'), target.jtag.hart_halted
               PROVE  target'.jtag = target.jtag \/ HandleStep \/ HandleRiscvLoad
    OBVIOUS
  <2>1. CASE Poll \/ Handle
    BY <2>1, ServerSteps DEF Calm
  <2>2. CASE Environment \/ GdbSide
    BY <2>2, OutsideKept
  <2> QED
    BY <2>1, <2>2 DEF Next
<1> QED
  BY <1>1, Invariance, PTL DEF Spec, ParkedHartUntouched

\* Of all commands, only `monitor target local' can lose a suspended task, for
\* any number of tasks and whenever they are created.
THEOREM TasksAreLostBySwitchOnly == Spec => TasksLostOnlyBySwitch
<1> DEFINE Held == NoTaskLost(target.local) => NoTaskLost(target.local)' \/ HandleTargetLocal
<1>1. (IInv /\ Reachable(target.local)) /\ [Next]_vars => [Held]_vars
  <2> SUFFICES ASSUME IInv, Reachable(target.local), Next, NoTaskLost(target.local)
               PROVE  NoTaskLost(target'.local) \/ HandleTargetLocal
    OBVIOUS
  <2>1. CASE Poll \/ Handle
    BY <2>1, ServerSteps DEF Calm, Kept
  <2>2. CASE Environment \/ GdbSide
    BY <2>2, OutsideKept
  <2> QED
    BY <2>1, <2>2 DEF Next
<1> QED
  BY <1>1, TasksReachable, PTL DEF Spec, TasksLostOnlyBySwitch

\* While the local backend is halted, a task runs only if app_main creates it
\* after the halt: no command of GDB wakes one, and none escapes the halt.
THEOREM TasksStayStopped == Spec => StoppedUntilCreation
<1> DEFINE Stopped ==
      AllStopped(target.local) =>
        AllStopped(target.local)' \/ \E t \in AppTasks : TaskCreated(t)
<1>1. (IInv /\ Reachable(target.local)) /\ [Next]_vars => [Stopped]_vars
  <2> SUFFICES ASSUME IInv, Reachable(target.local), Next, AllStopped(target.local)
               PROVE  AllStopped(target'.local) \/ \E t \in AppTasks : TaskCreated(t)
    OBVIOUS
  <2>1. CASE Poll \/ Handle
    BY <2>1, ServerSteps DEF Calm, Kept
  <2>2. CASE Environment \/ GdbSide
    BY <2>2, OutsideKept
  <2> QED
    BY <2>1, <2>2 DEF Next
<1> QED
  BY <1>1, TasksReachable, PTL DEF Spec, StoppedUntilCreation
=============================================================================
