---------------------------- MODULE CableProofs ----------------------------
(***************************************************************************)
(* What the server promises of the hart behind the cable, each promise     *)
(* under the weakest assumption on which calls may fail: an assumption     *)
(* names the calls that have to work, every other call may fail whenever   *)
(* it likes.  Last, what it promises GDB: a debug session.                 *)
(***************************************************************************)
EXTENDS GdbServerProofs, GdbSession, SequenceTheorems

\* The general registers of a halted hart can be read and written.
GprWorks == \A f \in Faults : "gpr" \notin f

\* dm_halt's writes, reads and polls succeed.
HaltWorks == \A f \in Faults : "haltreq" \notin f /\ "status" \notin f /\ "halt" \notin f

\* A write to a CSR of a halted hart lands, even if its result is lost.
CsrWorks == \A f \in Faults : "csr" \in f => "late" \in f

\* The ECP5 answers, and dm_init succeeds.
InitWorks == \A f \in Faults : "ecp5" \notin f /\ "init" \notin f

---------------------------------------------------------------------------
(* Calls that leave the hart where it is.                                  *)

\* From j to k, only dpc, the triggers, the table and s0 may differ; s0 can
\* only have been lost.
Access(j, k) ==
    /\ k.halted = j.halted /\ k.initialized = j.initialized
    /\ k.regs_saved = j.regs_saved /\ k.saved_s0 = j.saved_s0
    /\ k.tunnel_ready = j.tunnel_ready /\ k.hart_halted = j.hart_halted
    /\ k.s0 \in {j.s0, "lost"}

\* Such a call by the backend, which checks s_halted first.
Guarded(j, k) == Access(j, k) /\ (k.s0 = j.s0 \/ j.halted)

LEMMA AccessCsrFrame ==
    ASSUME NEW j, NEW f, Sound(j)
    PROVE  /\ Access(j, AccessCsr(j, f))
           /\ AccessCsr(j, f).trigger = j.trigger
           /\ AccessCsr(j, f).breakpoints = j.breakpoints
BY DEF Access, AccessCsr, Sound, JtagState

LEMMA AccessMemoryFrame ==
    ASSUME NEW j, NEW f, Sound(j)
    PROVE  /\ Access(j, AccessMemory(j, f))
           /\ AccessMemory(j, f).trigger = j.trigger
           /\ AccessMemory(j, f).breakpoints = j.breakpoints
BY DEF Access, AccessMemory, Sound, JtagState

LEMMA WriteDpcFrame ==
    ASSUME NEW j, NEW pc \in Addr, NEW f, Sound(j)
    PROVE  /\ Access(j, WriteDpc(j, pc, f))
           /\ WriteDpc(j, pc, f).trigger = j.trigger
           /\ WriteDpc(j, pc, f).breakpoints = j.breakpoints
<1> DEFINE at == [j EXCEPT !.dpc = pc]
<1>1. Sound(at) /\ Access(j, at) /\ at.trigger = j.trigger /\ at.breakpoints = j.breakpoints
  BY DEF Sound, JtagState, HaltFlagSound, Access
<1> HIDE DEF at
<1>2. WriteDpc(j, pc, f) \in {j, AccessCsr(at, f)}
  BY DEF WriteDpc, at
<1> QED
  BY <1>1, <1>2, AccessCsrFrame DEF Access

\* Writing triggers.
LEMMA TriggerFrame ==
    ASSUME NEW j, NEW f, Sound(j), NEW trigger \in [Trigger -> Addr \cup {NoAddr}]
    PROVE  LET k == AccessCsr([j EXCEPT !.trigger = trigger], f)
           IN  Access(j, k) /\ k.trigger = trigger /\ k.breakpoints = j.breakpoints
<1> DEFINE at == [j EXCEPT !.trigger = trigger]
<1>1. Sound(at) /\ Access(j, at) /\ at.trigger = trigger /\ at.breakpoints = j.breakpoints
  BY DEF Sound, JtagState, HaltFlagSound, Access
<1> HIDE DEF at
<1>2. Access(j, AccessCsr(at, f))
  BY <1>1, AccessCsrFrame DEF Access
<1> QED
  BY <1>1, <1>2, AccessCsrFrame DEF at

Written(j, i, a) == [t \in Trigger |-> IF t = TriggerOf(i) THEN a ELSE j.trigger[t]]

\* Triggers are written while the hart is held halted.
Lands(j, f) == j.halted /\ ("csr" \in f => "late" \in f)

Armings(j) ==
    [t \in Trigger |->
       IF SlotsOn(j.breakpoints, t) = {} THEN j.trigger[t]
       ELSE j.breakpoints[Highest(SlotsOn(j.breakpoints, t))]]

Disarmings(j) ==
    [t \in Trigger |-> IF SlotsOn(j.breakpoints, t) = {} THEN j.trigger[t] ELSE NoAddr]

LEMMA WriteTriggerFrame ==
    ASSUME NEW j, NEW i, NEW a \in Addr \cup {NoAddr}, NEW f, Sound(j)
    PROVE  LET k == WriteTrigger(j, i, a, f)
           IN  /\ Guarded(j, k) /\ k.breakpoints = j.breakpoints
               /\ k.trigger = IF Lands(j, f)
                              THEN Written(j, i, a) ELSE j.trigger
<1>1. Written(j, i, a) \in [Trigger -> Addr \cup {NoAddr}]
  BY DEF Written, Sound, JtagState
<1> DEFINE k == AccessCsr([j EXCEPT !.trigger = Written(j, i, a)], f)
<1>2. Access(j, k) /\ k.trigger = Written(j, i, a) /\ k.breakpoints = j.breakpoints
  BY <1>1, TriggerFrame
<1>3. WriteTrigger(j, i, a, f)
        = IF j.initialized /\ j.halted /\ Affects(j, "csr", f) THEN k ELSE j
  BY DEF WriteTrigger, Written
<1> HIDE DEF k
<1>4. Access(j, j)
  BY DEF Access
<1>5. Lands(j, f) <=> j.initialized /\ j.halted /\ Affects(j, "csr", f)
  BY DEF Lands, Affects, Sound, HaltFlagSound
<1>6. CASE Lands(j, f)
  BY <1>2, <1>3, <1>5, <1>6 DEF Guarded, Lands
<1>7. CASE ~Lands(j, f)
  BY <1>3, <1>4, <1>5, <1>7 DEF Guarded
<1> QED
  BY <1>6, <1>7

LEMMA ArmTriggersFrame ==
    ASSUME NEW j, NEW f, Sound(j), j.halted
    PROVE  LET k == ArmTriggers(j, f)
           IN  /\ Guarded(j, k) /\ k.breakpoints = j.breakpoints
               /\ k.trigger = IF Lands(j, f) /\ Active(j.breakpoints) # {}
                              THEN Armings(j) ELSE j.trigger
<1>1. j.breakpoints \in BreakpointTable /\ j.trigger \in [Trigger -> Addr \cup {NoAddr}]
  BY DEF Sound, JtagState
<1>2. Armings(j) \in [Trigger -> Addr \cup {NoAddr}]
  BY <1>1, LastSlotType DEF Armings
<1> DEFINE k == AccessCsr([j EXCEPT !.trigger = Armings(j)], f)
<1>3. Access(j, k) /\ k.trigger = Armings(j) /\ k.breakpoints = j.breakpoints
  BY <1>2, TriggerFrame
<1>4. ArmTriggers(j, f)
        = IF ~Affects(j, "csr", f) \/ Active(j.breakpoints) = {} THEN j ELSE k
  BY DEF ArmTriggers, Armings
<1> HIDE DEF k
<1>5. Affects(j, "csr", f) <=> Lands(j, f)
  BY DEF Lands, Affects, Sound, HaltFlagSound
<1>6. Access(j, j)
  BY DEF Access
<1> QED
  BY <1>3, <1>4, <1>5, <1>6 DEF Guarded

LEMMA DisarmTriggersFrame ==
    ASSUME NEW j, NEW f, Sound(j), j.halted
    PROVE  LET k == DisarmTriggers(j, f)
           IN  /\ Guarded(j, k) /\ k.breakpoints = j.breakpoints
               /\ k.trigger = IF Lands(j, f) /\ Active(j.breakpoints) # {}
                              THEN Disarmings(j) ELSE j.trigger
<1>1. Disarmings(j) \in [Trigger -> Addr \cup {NoAddr}]
  BY DEF Disarmings, Sound, JtagState
<1> DEFINE k == AccessCsr([j EXCEPT !.trigger = Disarmings(j)], f)
<1>2. Access(j, k) /\ k.trigger = Disarmings(j) /\ k.breakpoints = j.breakpoints
  BY <1>1, TriggerFrame
<1>3. DisarmTriggers(j, f)
        = IF ~Affects(j, "csr", f) \/ Active(j.breakpoints) = {} THEN j ELSE k
  BY DEF DisarmTriggers, Disarmings
<1> HIDE DEF k
<1>4. Affects(j, "csr", f) <=> Lands(j, f)
  BY DEF Lands, Affects, Sound, HaltFlagSound
<1>5. Access(j, j)
  BY DEF Access
<1> QED
  BY <1>2, <1>3, <1>4, <1>5 DEF Guarded

LEMMA SetBreakpointFrame ==
    ASSUME NEW j, NEW a \in Addr, NEW f, Sound(j)
    PROVE  LET k == JtagSetBreakpoint(j, a, f)
           IN  /\ Guarded(j, k) /\ k.breakpoints = TableSet(j.breakpoints, a)
               /\ k.trigger = IF Lands(j, f) /\ NeedSlot(j.breakpoints, a)
                              THEN Written(j, FreeSlot(j.breakpoints), a) ELSE j.trigger
<1> DEFINE set == [j EXCEPT !.breakpoints = TableSet(j.breakpoints, a)]
           k   == WriteTrigger(set, FreeSlot(j.breakpoints), a, f)
<1>1. /\ set \in JtagState /\ set.breakpoints = TableSet(j.breakpoints, a)
      /\ set.trigger = j.trigger /\ set.halted = j.halted /\ Access(j, set)
      /\ Sound(set) /\ set.s0 = j.s0
  <2>1. /\ TableSet(j.breakpoints, a) \in BreakpointTable
        /\ NoDuplicates(TableSet(j.breakpoints, a))
    BY TableSetType, TableSetNoDuplicates DEF Sound, JtagState
  <2> QED
    BY <2>1 DEF Sound, JtagState, HaltFlagSound, Access
<1> HIDE DEF set
<1>2. /\ Guarded(set, k) /\ k.breakpoints = set.breakpoints
      /\ k.trigger = IF Lands(set, f)
                     THEN Written(set, FreeSlot(j.breakpoints), a) ELSE set.trigger
  <2>1. a \in Addr \cup {NoAddr}
    OBVIOUS
  <2>2. Sound(set)
    BY <1>1
  <2> QED
    BY <2>1, <2>2, WriteTriggerFrame
<1>3. Written(set, FreeSlot(j.breakpoints), a) = Written(j, FreeSlot(j.breakpoints), a)
  BY <1>1 DEF Written
<1>4. JtagSetBreakpoint(j, a, f) = IF ~NeedSlot(j.breakpoints, a) THEN j ELSE k
  BY DEF JtagSetBreakpoint, set
<1> HIDE DEF k
<1>5. Guarded(j, j) /\ (~NeedSlot(j.breakpoints, a) => j.breakpoints = TableSet(j.breakpoints, a))
  BY DEF Guarded, Access, TableSet
<1>6. Guarded(j, k)
  BY <1>1, <1>2 DEF Guarded, Access
<1>7. CASE NeedSlot(j.breakpoints, a)
  BY <1>1, <1>2, <1>3, <1>4, <1>6, <1>7 DEF Lands
<1>8. CASE ~NeedSlot(j.breakpoints, a)
  BY <1>4, <1>5, <1>8
<1> QED
  BY <1>7, <1>8

LEMMA ClearBreakpointFrame ==
    ASSUME NEW j, NEW a \in Addr, NEW f, Sound(j)
    PROVE  LET k == JtagClearBreakpoint(j, a, f)
           IN  /\ Guarded(j, k) /\ k.breakpoints = TableClear(j.breakpoints, a)
               /\ k.trigger = IF Lands(j, f) /\ SlotsWith(j.breakpoints, a) # {}
                              THEN Written(j, SlotOf(j.breakpoints, a), NoAddr)
                              ELSE j.trigger
<1> DEFINE cleared == [j EXCEPT !.breakpoints = TableClear(j.breakpoints, a)]
           k       == WriteTrigger(cleared, SlotOf(j.breakpoints, a), NoAddr, f)
<1>1. /\ cleared.breakpoints = TableClear(j.breakpoints, a)
      /\ cleared.trigger = j.trigger /\ cleared.halted = j.halted /\ Access(j, cleared)
      /\ Sound(cleared) /\ cleared.s0 = j.s0
  <2>1. /\ TableClear(j.breakpoints, a) \in BreakpointTable
        /\ NoDuplicates(TableClear(j.breakpoints, a))
    BY TableClearType, TableClearNoDuplicates DEF Sound, JtagState
  <2> QED
    BY <2>1 DEF Sound, JtagState, HaltFlagSound, Access
<1> HIDE DEF cleared
<1>2. /\ Guarded(cleared, k) /\ k.breakpoints = cleared.breakpoints
      /\ k.trigger = IF Lands(cleared, f)
                     THEN Written(cleared, SlotOf(j.breakpoints, a), NoAddr)
                     ELSE cleared.trigger
  <2>1. NoAddr \in Addr \cup {NoAddr}
    OBVIOUS
  <2>2. Sound(cleared)
    BY <1>1
  <2> QED
    BY <2>1, <2>2, WriteTriggerFrame
<1>3. Written(cleared, SlotOf(j.breakpoints, a), NoAddr)
        = Written(j, SlotOf(j.breakpoints, a), NoAddr)
  BY <1>1 DEF Written
<1>4. JtagClearBreakpoint(j, a, f) = IF SlotsWith(j.breakpoints, a) = {} THEN j ELSE k
  BY DEF JtagClearBreakpoint, cleared
<1> HIDE DEF k
<1>5. /\ Guarded(j, j)
      /\ SlotsWith(j.breakpoints, a) = {} => j.breakpoints = TableClear(j.breakpoints, a)
  BY DEF Guarded, Access, TableClear
<1>6. Guarded(j, k)
  BY <1>1, <1>2 DEF Guarded, Access
<1>7. CASE SlotsWith(j.breakpoints, a) # {}
  BY <1>1, <1>2, <1>3, <1>4, <1>6, <1>7 DEF Lands
<1>8. CASE SlotsWith(j.breakpoints, a) = {}
  BY <1>4, <1>5, <1>8
<1> QED
  BY <1>7, <1>8

LEMMA ClearAllFrame ==
    ASSUME NEW j, NEW f, Sound(j)
    PROVE  LET k == JtagClearAllBreakpoints(j, f)
           IN  /\ Guarded(j, k) /\ k.breakpoints = EmptyTable
               /\ k.trigger = IF Lands(j, f) /\ Active(j.breakpoints) # {}
                              THEN Disarmings(j) ELSE j.trigger
<1> DEFINE d == IF j.initialized /\ j.halted THEN DisarmTriggers(j, f) ELSE j
<1>1. Sound(d) /\ Guarded(j, d)
      /\ d.trigger = IF Lands(j, f) /\ Active(j.breakpoints) # {}
                     THEN Disarmings(j) ELSE j.trigger
  <2>1. Guarded(j, j) /\ (j.halted => j.initialized)
    BY DEF Guarded, Access, Sound, HaltFlagSound
  <2>2. CASE j.halted
    BY <2>1, <2>2, DisarmTriggersSound, DisarmTriggersFrame
  <2>3. CASE ~j.halted
    BY <2>1, <2>3 DEF Lands
  <2> QED
    BY <2>2, <2>3
<1> HIDE DEF d
<1>2. JtagClearAllBreakpoints(j, f) = [d EXCEPT !.breakpoints = EmptyTable]
  BY DEF JtagClearAllBreakpoints, d
<1>3. LET k == [d EXCEPT !.breakpoints = EmptyTable]
      IN  Guarded(j, k) /\ k.breakpoints = EmptyTable /\ k.trigger = d.trigger
  BY <1>1 DEF Sound, JtagState, Guarded, Access
<1> QED
  BY <1>1, <1>2, <1>3

---------------------------------------------------------------------------
(* Calls that stop the hart, or let it run.                                *)

\* A call that neither starts the hart nor forgets the connection to it.
Steady(j, k) ==
    /\ k.initialized = j.initialized /\ k.tunnel_ready = j.tunnel_ready
    /\ j.hart_halted => k.hart_halted

LEMMA SteadyTransitive ==
    ASSUME NEW j, NEW k, NEW m, Steady(j, k), Steady(k, m)
    PROVE  Steady(j, m)
BY DEF Steady

LEMMA GuardedSteady ==
    ASSUME NEW j, NEW k, Access(j, k)
    PROVE  Steady(j, k)
BY DEF Steady, Access

LEMMA DmHaltFrame ==
    ASSUME NEW j, NEW f, Sound(j)
    PROVE  LET k == DmHalt(j, f)
           IN  /\ Steady(j, k)
               /\ k.halted = j.halted /\ k.regs_saved = j.regs_saved
               /\ k.saved_s0 = j.saved_s0 /\ k.s0 = j.s0
               /\ k.trigger = j.trigger /\ k.breakpoints = j.breakpoints
BY DEF DmHalt, Steady, Sound, JtagState

LEMMA MarkHaltedFrame ==
    ASSUME NEW j, NEW f, Sound(j)
    PROVE  LET k == MarkHalted(j, f)
           IN  /\ Steady(j, k) /\ k.halted /\ k.s0 = j.s0
               /\ k.trigger = j.trigger /\ k.breakpoints = j.breakpoints
BY DEF MarkHalted, SaveScratch, Steady, Sound, JtagState

\* A halt that dm_halt acknowledges arms the triggers of the table.
LEMMA JtagHaltFrame ==
    ASSUME NEW j, NEW f, Sound(j)
    PROVE  LET k == JtagHalt(j, f)
           IN  /\ Steady(j, k) /\ k.breakpoints = j.breakpoints
               /\ k.trigger = IF /\ j.initialized /\ ~j.halted /\ HaltAcks(j, f)
                                 /\ "csr" \in f => "late" \in f
                                 /\ Active(j.breakpoints) # {}
                              THEN Armings(j) ELSE j.trigger
<1> DEFINE d == DmHalt(j, f)
           m == MarkHalted(d, f)
<1>1. Sound(d)
  BY DmHaltSound
<1>2. Steady(j, d) /\ d.trigger = j.trigger /\ d.breakpoints = j.breakpoints
  BY DmHaltFrame
<1>3. HaltAcks(j, f) => d.hart_halted /\ d.tunnel_ready /\ d.initialized = j.initialized
  BY DmHaltStops
<1>4. JtagHalt(j, f) = IF ~j.initialized \/ j.halted THEN j
                       ELSE IF ~HaltAcks(j, f) THEN d ELSE ArmTriggers(m, f)
  BY DEF JtagHalt
<1> HIDE DEF d
<1>5. Steady(d, m) /\ m.halted /\ m.trigger = d.trigger /\ m.breakpoints = d.breakpoints
  BY <1>1, MarkHaltedFrame
<1>6. j.initialized /\ HaltAcks(j, f) => Sound(m)
  BY <1>1, <1>3, MarkHaltedSound
<1> HIDE DEF m
<1>7. CASE ~j.initialized \/ j.halted
  BY <1>4, <1>7 DEF Steady
<1>8. CASE j.initialized /\ ~j.halted /\ ~HaltAcks(j, f)
  BY <1>2, <1>4, <1>8
<1>9. CASE j.initialized /\ ~j.halted /\ HaltAcks(j, f)
  <2> DEFINE k == ArmTriggers(m, f)
  <2>1. Sound(m)
    BY <1>6, <1>9
  <2>2. /\ Guarded(m, k) /\ k.breakpoints = m.breakpoints
        /\ k.trigger = IF Lands(m, f) /\ Active(m.breakpoints) # {}
                       THEN Armings(m) ELSE m.trigger
    BY <1>5, <2>1, ArmTriggersFrame
  <2>3. Armings(m) = Armings(j)
    BY <1>2, <1>5 DEF Armings
  <2>4. Lands(m, f) <=> ("csr" \in f => "late" \in f)
    BY <1>5 DEF Lands
  <2>5. Steady(m, k)
    BY <2>2, GuardedSteady DEF Guarded
  <2>6. Steady(j, k)
    BY <1>2, <1>5, <2>5, SteadyTransitive
  <2>7. JtagHalt(j, f) = k
    BY <1>4, <1>9
  <2> HIDE DEF k
  <2> QED
    BY <1>2, <1>5, <1>9, <2>2, <2>3, <2>4, <2>6, <2>7
<1> QED
  BY <1>7, <1>8, <1>9

\* dm_halt stops a hart that a connection exists to.
LEMMA JtagHaltStops ==
    ASSUME NEW j, NEW f, Sound(j), j.initialized, j.tunnel_ready,
           "haltreq" \notin f, "status" \notin f, "halt" \notin f
    PROVE  JtagHalt(j, f).hart_halted
<1>1. HaltAcks(j, f)
  BY DEF HaltAcks, Reaches
<1>2. CASE j.halted
  BY <1>2 DEF JtagHalt, Sound, HaltFlagSound
<1>3. CASE ~j.halted
  <2> DEFINE m == MarkHalted(DmHalt(j, f), f)
  <2>1. Sound(DmHalt(j, f)) /\ DmHalt(j, f).hart_halted
    BY <1>1, DmHaltSound, DmHaltStops
  <2>2. m.hart_halted /\ m.halted
    BY <2>1, MarkHaltedFrame DEF Steady
  <2>3. Sound(m)
    BY <1>1, <2>1, DmHaltStops, MarkHaltedSound
  <2>4. JtagHalt(j, f) = ArmTriggers(m, f)
    BY <1>1, <1>3 DEF JtagHalt
  <2> HIDE DEF m
  <2> QED
    BY <2>2, <2>3, <2>4, ArmTriggersFrame DEF Guarded, Access
<1> QED
  BY <1>2, <1>3

LEMMA CheckBreakpointsFrame ==
    ASSUME NEW j, NEW f, Sound(j), JtagHit(j, f)
    PROVE  LET k == JtagCheckBreakpoints(j, f)
           IN  /\ Steady(j, k) /\ k.halted /\ k.hart_halted
               /\ k.trigger = j.trigger /\ k.breakpoints = j.breakpoints
<1> DEFINE m == MarkHalted(j, f)
<1>1. j.hart_halted /\ j.initialized /\ j.tunnel_ready
  BY DEF JtagHit, DmIsHalted, OnHart, Reaches
<1>2. Sound(m)
  BY <1>1, MarkHaltedSound
<1>3. /\ Steady(j, m) /\ m.halted
      /\ m.trigger = j.trigger /\ m.breakpoints = j.breakpoints
  BY MarkHaltedFrame
<1>4. JtagCheckBreakpoints(j, f) = AccessCsr(m, f)
  BY DEF JtagCheckBreakpoints
<1> HIDE DEF m
<1> DEFINE k == AccessCsr(m, f)
<1>5. Access(m, k) /\ k.trigger = m.trigger /\ k.breakpoints = m.breakpoints
  BY <1>2, AccessCsrFrame
<1>6. JtagCheckBreakpoints(j, f) = k
  BY <1>4
<1> HIDE DEF k
<1> QED
  BY <1>1, <1>3, <1>5, <1>6 DEF Access, Steady

LEMMA ResumeFrame ==
    ASSUME NEW j, NEW f, Sound(j)
    PROVE  LET k == JtagResume(j, f)
           IN  /\ k.initialized = j.initialized /\ k.tunnel_ready = j.tunnel_ready
               /\ k.trigger = j.trigger /\ k.breakpoints = j.breakpoints
<1> DEFINE r == RestoreScratch(j, f)
<1>1. /\ Sound(r) /\ r.initialized = j.initialized /\ r.tunnel_ready = j.tunnel_ready
      /\ r.trigger = j.trigger /\ r.breakpoints = j.breakpoints
  <2>1. RestoreScratch(j, f) = j
          \/ \E b : RestoreScratch(j, f) = [j EXCEPT !.s0 = j.saved_s0, !.regs_saved = b]
    BY DEF RestoreScratch
  <2> QED
    BY <2>1, RestoreScratchSound DEF Sound, JtagState
<1>2. JtagResume(j, f) = IF ~j.initialized \/ ~j.halted THEN j
                         ELSE [DmResume(r, f) EXCEPT !.halted = FALSE, !.regs_saved = FALSE]
  BY DEF JtagResume
<1> HIDE DEF r
<1> QED
  BY <1>1, <1>2 DEF DmResume, Sound, JtagState

LEMMA WriteScratchFrame ==
    ASSUME NEW j, Sound(j)
    PROVE  LET k == JtagWriteScratch(j)
           IN  /\ Steady(j, k)
               /\ k.trigger = j.trigger /\ k.breakpoints = j.breakpoints
BY DEF JtagWriteScratch, Steady, Sound, JtagState

\* `monitor target jtag' forgets the table and keeps the triggers.
LEMMA JtagInitFrame ==
    ASSUME NEW j, NEW f, Sound(j)
    PROVE  LET k == JtagInit(j, f)
           IN  /\ k.breakpoints = EmptyTable /\ k.trigger = j.trigger
               /\ j.hart_halted => k.hart_halted
               /\ k.initialized => k.tunnel_ready
               /\ "ecp5" \notin f /\ "init" \notin f => k.initialized
<1> DEFINE blank == [j EXCEPT !.halted = FALSE, !.initialized = FALSE,
                              !.regs_saved = FALSE, !.breakpoints = EmptyTable]
           fresh == [blank EXCEPT !.tunnel_ready = TRUE, !.haltreq = @ /\ "init" \in f]
           ready == [fresh EXCEPT !.initialized = TRUE]
           d     == DmHalt(ready, f)
           m     == MarkHalted(d, f)
<1>1. NoDuplicates(EmptyTable)
  BY DEF NoDuplicates, EmptyTable
<1>2. /\ Sound(blank) /\ blank.breakpoints = EmptyTable /\ blank.trigger = j.trigger
      /\ blank.hart_halted = j.hart_halted /\ ~blank.initialized /\ ~blank.halted
  BY <1>1, EmptyTableType DEF Sound, JtagState, HaltFlagSound
<1> HIDE DEF blank
<1>3. /\ Sound(fresh) /\ fresh.breakpoints = EmptyTable /\ fresh.trigger = j.trigger
      /\ fresh.hart_halted = j.hart_halted /\ ~fresh.initialized /\ fresh.tunnel_ready
      /\ ~fresh.halted
  BY <1>2 DEF Sound, JtagState, HaltFlagSound
<1> HIDE DEF fresh
<1>4. /\ Sound(ready) /\ ready.breakpoints = EmptyTable /\ ready.trigger = j.trigger
      /\ ready.hart_halted = j.hart_halted /\ ready.initialized /\ ready.tunnel_ready
  BY <1>3 DEF Sound, JtagState, HaltFlagSound
<1> HIDE DEF ready
<1>5. /\ Sound(d) /\ Steady(ready, d)
      /\ d.trigger = ready.trigger /\ d.breakpoints = ready.breakpoints
  BY <1>4, DmHaltSound, DmHaltFrame
<1>6. JtagInit(j, f) = IF "ecp5" \in f THEN blank
                       ELSE IF "init" \in f THEN fresh
                       ELSE IF ~HaltAcks(ready, f) THEN d ELSE m
  BY DEF JtagInit, blank, fresh, ready
<1> HIDE DEF d
<1>7. Steady(d, m) /\ m.trigger = d.trigger /\ m.breakpoints = d.breakpoints
  BY <1>5, MarkHaltedFrame
<1> HIDE DEF m
<1> QED
  BY <1>2, <1>3, <1>4, <1>5, <1>6, <1>7 DEF Steady

---------------------------------------------------------------------------
(* What the server does to the hart, handler by handler.                   *)

\* How target_set_backend leaves the JTAG backend.
Left(j, f) ==
    JtagClearAllBreakpoints(IF JtagIsHalted(j, f) THEN j ELSE JtagHalt(j, f), f)

LEMMA LeftSound ==
    ASSUME NEW j, NEW f, Sound(j)
    PROVE  Sound(Left(j, f))
BY JtagHaltSound, JtagClearAllBreakpointsSound DEF Left

\* Registers and memory are read and written through a guarded call.
Plain(j, k) == Guarded(j, k) /\ k.trigger = j.trigger /\ k.breakpoints = j.breakpoints

\* The backend's calls that leave it active.
Called(j, k) ==
    \/ (Plain(j, k) \/ k = JtagWriteScratch(j)) /\ UNCHANGED s_running
    \/ \E f \in Faults :
         \/ HandleBreakpointSet /\ \E a \in Addr : k = JtagSetBreakpoint(j, a, f)
         \/ HandleBreakpointClear /\ \E a \in Addr : k = JtagClearBreakpoint(j, a, f)
         \/ HandleContinue /\ k = JtagResume(j, f)
         \/ HandleDetach /\ k = JtagResume(JtagClearAllBreakpoints(j, f), f)
         \/ HandleInterrupt /\ k = JtagHalt(j, f)
         \/ HandleHaltReason /\ s_running /\ k = JtagHalt(j, f)
         \/ Poll /\ JtagHit(j, f) /\ k = JtagHalt(JtagCheckBreakpoints(j, f), f)

\* `s' and riscv_load, whichever backend is active.
Bypassed(j, k) ==
    /\ UNCHANGED s_running
    /\ \E f \in Faults, pc \in Addr :
         \/ HandleStep /\ k = WriteDpc(j, pc, f)
         \/ /\ HandleRiscvLoad
            /\ \E m \in {j, JtagHalt(j, f)} :
                 /\ ~OnJtag(target) => m = j
                 /\ LET l == AccessMemory(m, f) IN k \in {l, WriteDpc(l, pc, f)}

LEMMA PlainRefl ==
    ASSUME NEW j
    PROVE  Plain(j, j)
BY DEF Plain, Guarded, Access

LEMMA PlainCalls ==
    ASSUME NEW j, NEW f, NEW pc \in Addr, Sound(j)
    PROVE  /\ Plain(j, JtagReadRegisters(j, f))
           /\ Plain(j, JtagWritePc(j, pc, f))
           /\ Plain(j, JtagMemory(j, f))
<1>1. Plain(j, j)
  BY PlainRefl
<1>2. Plain(j, JtagReadRegisters(j, f))
  BY <1>1, AccessCsrFrame DEF JtagReadRegisters, Plain, Guarded
<1>3. Plain(j, JtagWritePc(j, pc, f))
  BY <1>1, WriteDpcFrame DEF JtagWritePc, Plain, Guarded
<1>4. Plain(j, JtagMemory(j, f))
  BY <1>1, AccessMemoryFrame DEF JtagMemory, Plain, Guarded
<1> QED
  BY <1>2, <1>3, <1>4

LEMMA DispatchJtag ==
    ASSUME NEW tg, TargetSound(tg), NEW j, NEW l
    PROVE  /\ Dispatch(tg, j, l).ops = tg.ops
           /\ Dispatch(tg, j, l).jtag = IF OnJtag(tg) THEN j ELSE tg.jtag
BY DEF Dispatch, TargetSound, TargetState

\* The thread list is the local backend's business.
LEMMA RefreshJtag ==
    ASSUME NEW tg, NEW tid, TargetSound(tg), Refresh(tg, tid)
    PROVE  target'.ops = tg.ops /\ target'.jtag = tg.jtag
<1>1. PICK order : target' = TargetGetThreads(tg, order)
  BY DEF Refresh
<1> QED
  BY <1>1, DispatchJtag DEF TargetGetThreads

\* `monitor target', up to the halt of the new backend.
LEMMA SwitchOnHart ==
    ASSUME IInv, NEW backend \in Backend, Switch(backend)
    PROVE  LET j == target.jtag
               k == target'.jtag
           IN  /\ target'.ops = backend
               /\ \E f \in Faults :
                    LET m == IF OnJtag(target) THEN Left(j, f) ELSE j
                    IN  k = IF backend = "jtag" THEN JtagHalt(JtagInit(m, f), f) ELSE m
<1> DEFINE j == target.jtag
<1>1. PICK f \in Faults : \E order \in ThreadOrders(Switched(backend, f)) :
        target' = TargetHalt(TargetGetThreads(Switched(backend, f), order), f)
  BY DEF Switch
<1> DEFINE stopped == IF TargetIsHalted(target, f) THEN target ELSE TargetHalt(target, f)
           cleared == TargetClearAllBreakpoints(stopped, f)
           other   == [cleared EXCEPT !.ops = backend]
           tg      == TargetInit(other, f)
           sw      == Switched(backend, f)
           m       == IF OnJtag(target) THEN Left(j, f) ELSE j
<1>2. TargetSound(target)
  BY DEF IInv
<1>3. /\ TargetSound(stopped) /\ stopped.ops = target.ops
      /\ stopped.jtag = IF OnJtag(target) /\ ~JtagIsHalted(j, f) THEN JtagHalt(j, f) ELSE j
  BY <1>2, DispatchJtag, TargetHaltSound DEF TargetHalt, TargetIsHalted
<1>4. TargetSound(cleared) /\ cleared.ops = target.ops /\ cleared.jtag = m
  <2> HIDE DEF stopped
  <2>1. TargetSound(cleared)
    BY <1>3, TargetClearAllBreakpointsSound
  <2>2. /\ cleared.ops = stopped.ops
        /\ cleared.jtag = IF OnJtag(stopped) THEN JtagClearAllBreakpoints(stopped.jtag, f)
                          ELSE stopped.jtag
    BY <1>3, DispatchJtag DEF TargetClearAllBreakpoints
  <2> QED
    BY <1>3, <2>1, <2>2 DEF Left, OnJtag
<1> HIDE DEF cleared, m
<1>5. TargetSound(other) /\ other.ops = backend /\ other.jtag = m
  BY <1>4 DEF TargetSound, TargetState
<1> HIDE DEF other
<1>6. TargetSound(tg)
  <2>1. Sound(JtagInit(other.jtag, f)) /\ LocalSound(LocalInit(other.local))
    BY <1>5, JtagInitSound, LocalInitSound DEF TargetSound
  <2> QED
    BY <1>5, <2>1, DispatchSound DEF TargetInit
<1>7. /\ tg.ops = backend
      /\ tg.jtag = IF backend = "jtag" THEN JtagInit(m, f) ELSE m
  BY <1>5, DispatchJtag DEF TargetInit, OnJtag
<1>8. sw = IF backend = "local" THEN [tg EXCEPT !.local = LocalExclude(tg.local, Srv)] ELSE tg
  BY DEF Switched, TargetSetBackend, tg, other, cleared, stopped
<1> HIDE DEF tg, sw
<1>9. TargetSound(sw) /\ sw.ops = tg.ops /\ sw.jtag = tg.jtag
  <2>1. LocalSound(LocalExclude(tg.local, Srv))
    BY <1>6, LocalExcludeSound DEF TargetSound, Task
  <2> QED
    BY <1>6, <1>8, <2>1 DEF TargetSound, TargetState, LocalSound
<1>10. PICK order \in ThreadOrders(sw) : target' = TargetHalt(TargetGetThreads(sw, order), f)
  BY <1>1 DEF sw
<1> DEFINE listed == TargetGetThreads(sw, order)
<1>11. TargetSound(listed) /\ listed.ops = sw.ops /\ listed.jtag = sw.jtag
  BY <1>9, <1>10, OrderSound, DispatchJtag DEF TargetGetThreads
<1> HIDE DEF listed
<1>12. /\ target'.ops = listed.ops
       /\ target'.jtag = IF OnJtag(listed) THEN JtagHalt(listed.jtag, f) ELSE listed.jtag
  BY <1>10, <1>11, DispatchJtag DEF TargetHalt, listed
<1>13. /\ target'.ops = backend
       /\ target'.jtag = IF backend = "jtag" THEN JtagHalt(JtagInit(m, f), f) ELSE m
  BY <1>7, <1>9, <1>11, <1>12 DEF OnJtag
<1> QED
  BY <1>13 DEF m

\* Every step of the server, as the hart sees it.
LEMMA ServerOnHart ==
    ASSUME IInv, Poll \/ Handle
    PROVE  LET j == target.jtag
               k == target'.jtag
           IN  \/ /\ target'.ops = target.ops
                  /\ \/ ~OnJtag(target) /\ k = j
                     \/ OnJtag(target) /\ Called(j, k)
                     \/ Bypassed(j, k)
               \/ /\ HandleTargetJtag /\ OnJtag(target')
                  /\ \E f \in Faults :
                       k = JtagHalt(JtagInit(IF OnJtag(target) THEN Left(j, f) ELSE j, f), f)
               \/ /\ HandleTargetLocal /\ ~OnJtag(target')
                  /\ \E f \in Faults : k = IF OnJtag(target) THEN Left(j, f) ELSE j
<1> DEFINE j == target.jtag
           k == target'.jtag
<1>1. TargetSound(target) /\ Sound(j) /\ s_running \in BOOLEAN
  BY DEF IInv, TargetSound, Counters
<1>2. ASSUME NEW op \in {"Z", "z", "P32", "riscv_load"}, Receive(op) PROVE Arg \in Addr
  BY <1>2, ReceivedPacket, PacketArgs DEF Receive, Arg
<1>3. CASE Poll
  <2>1. PICK f \in Faults :
          /\ TargetHit(target, f)
          /\ \E tid : Refresh(TargetHalt(TargetCheckBreakpoints(target, f), f), tid)
    BY <1>3 DEF Poll
  <2> DEFINE hit == TargetCheckBreakpoints(target, f)
             end == TargetHalt(hit, f)
  <2>2. /\ TargetSound(hit) /\ hit.ops = target.ops
        /\ hit.jtag = IF OnJtag(target) THEN JtagCheckBreakpoints(j, f) ELSE j
    BY <1>1, <2>1, TargetCheckBreakpointsSound, DispatchJtag DEF TargetCheckBreakpoints
  <2> HIDE DEF hit
  <2>3. /\ TargetSound(end) /\ end.ops = hit.ops
        /\ end.jtag = IF OnJtag(hit) THEN JtagHalt(hit.jtag, f) ELSE hit.jtag
    BY <2>2, TargetHaltSound, DispatchJtag DEF TargetHalt
  <2> HIDE DEF end
  <2>4. target'.ops = end.ops /\ k = end.jtag
    BY <2>1, <2>3, RefreshJtag DEF end, hit
  <2>5. OnJtag(target) => JtagHit(j, f)
    BY <2>1 DEF TargetHit
  <2>6. CASE OnJtag(target)
    BY <1>3, <2>2, <2>3, <2>4, <2>5, <2>6 DEF OnJtag, Called
  <2>7. CASE ~OnJtag(target)
    BY <2>2, <2>3, <2>4, <2>7 DEF OnJtag
  <2> QED
    BY <2>6, <2>7
<1>4. CASE HandleInterrupt \/ (HandleHaltReason /\ s_running)
  <2>1. PICK f \in Faults : \E tid : Refresh(TargetHalt(target, f), tid)
    BY <1>4 DEF HandleInterrupt, HandleHaltReason
  <2> DEFINE end == TargetHalt(target, f)
  <2>2. /\ TargetSound(end) /\ end.ops = target.ops
        /\ end.jtag = IF OnJtag(target) THEN JtagHalt(j, f) ELSE j
    BY <1>1, TargetHaltSound, DispatchJtag DEF TargetHalt
  <2> HIDE DEF end
  <2>3. target'.ops = end.ops /\ k = end.jtag
    BY <2>1, <2>2, RefreshJtag DEF end
  <2> QED
    BY <1>4, <2>2, <2>3 DEF Called
<1>5. CASE HandleHaltReason /\ ~s_running
  <2>1. target' = target /\ s_running' = s_running
    BY <1>1, <1>5 DEF HandleHaltReason
  <2> QED
    BY <2>1, PlainRefl DEF Called
<1>6. CASE HandleReadRegisters \/ HandleWriteScratch \/ HandleWritePc \/ HandleMemory
  <2>1. s_running' = s_running
    BY <1>6 DEF HandleReadRegisters, HandleWriteScratch, HandleWritePc, HandleMemory, Unmoved
  <2>2. target'.ops = target.ops
    BY <1>1, <1>6, DispatchJtag
    DEF HandleReadRegisters, HandleWriteScratch, HandleWritePc, HandleMemory,
        TargetReadRegisters, TargetWriteScratch, TargetWritePc, TargetMemory
  <2>3. ~OnJtag(target) => k = j
    BY <1>1, <1>6, DispatchJtag
    DEF HandleReadRegisters, HandleWriteScratch, HandleWritePc, HandleMemory,
        TargetReadRegisters, TargetWriteScratch, TargetWritePc, TargetMemory
  <2>4. OnJtag(target) /\ HandleWriteScratch => k = JtagWriteScratch(j)
    BY <1>1, DispatchJtag DEF HandleWriteScratch, TargetWriteScratch
  <2>5. OnJtag(target) /\ HandleWritePc => Plain(j, k)
    BY <1>1, <1>2, DispatchJtag, PlainCalls DEF HandleWritePc, TargetWritePc
  <2>6. OnJtag(target) /\ (HandleReadRegisters \/ HandleMemory) => Plain(j, k)
    <3>1. 0 \in Addr
      BY AddrAssumption DEF Addr
    <3> QED
      BY <1>1, <3>1, DispatchJtag, PlainCalls
      DEF HandleReadRegisters, HandleMemory, TargetReadRegisters, TargetMemory
  <2> QED
    BY <1>6, <2>1, <2>2, <2>3, <2>4, <2>5, <2>6 DEF Called
<1>7. CASE HandleBreakpointSet
  <2>1. PICK f \in Faults : target' = TargetSetBreakpoint(target, Arg, f)
    BY <1>7 DEF HandleBreakpointSet
  <2>2. target'.ops = target.ops
        /\ k = IF OnJtag(target) THEN JtagSetBreakpoint(j, Arg, f) ELSE j
    BY <1>1, <2>1, DispatchJtag DEF TargetSetBreakpoint
  <2>3. Arg \in Addr
    BY <1>2, <1>7 DEF HandleBreakpointSet
  <2> QED
    BY <1>7, <2>2, <2>3 DEF Called
<1>8. CASE HandleBreakpointClear
  <2>1. PICK f \in Faults : target' = TargetClearBreakpoint(target, Arg, f)
    BY <1>8 DEF HandleBreakpointClear
  <2>2. target'.ops = target.ops
        /\ k = IF OnJtag(target) THEN JtagClearBreakpoint(j, Arg, f) ELSE j
    BY <1>1, <2>1, DispatchJtag DEF TargetClearBreakpoint
  <2>3. Arg \in Addr
    BY <1>2, <1>8 DEF HandleBreakpointClear
  <2> QED
    BY <1>8, <2>2, <2>3 DEF Called
<1>9. CASE HandleContinue
  <2>1. PICK f \in Faults : target' = TargetContinue(target, f)
    BY <1>9 DEF HandleContinue
  <2>2. target'.ops = target.ops
        /\ k = IF OnJtag(target) THEN JtagResume(j, f) ELSE j
    BY <1>1, <2>1, DispatchJtag DEF TargetContinue
  <2> QED
    BY <1>9, <2>2 DEF Called
<1>10. CASE HandleDetach
  <2>1. PICK f \in Faults :
          target' = TargetContinue(TargetClearAllBreakpoints(target, f), f)
    BY <1>10 DEF HandleDetach
  <2> DEFINE cleared == TargetClearAllBreakpoints(target, f)
  <2>2. /\ TargetSound(cleared) /\ cleared.ops = target.ops
        /\ cleared.jtag = IF OnJtag(target) THEN JtagClearAllBreakpoints(j, f) ELSE j
    BY <1>1, TargetClearAllBreakpointsSound, DispatchJtag DEF TargetClearAllBreakpoints
  <2> HIDE DEF cleared
  <2>3. target'.ops = cleared.ops
        /\ k = IF OnJtag(cleared) THEN JtagResume(cleared.jtag, f) ELSE cleared.jtag
    BY <2>1, <2>2, DispatchJtag DEF TargetContinue, cleared
  <2> QED
    BY <1>10, <2>2, <2>3 DEF Called, OnJtag
<1>11. CASE HandleSetThread \/ HandleThreadInfo
  <2>1. target'.ops = target.ops /\ k = j /\ s_running' = s_running
    BY <1>1, <1>11, RefreshJtag DEF HandleSetThread, HandleThreadInfo
  <2> QED
    BY <2>1, PlainRefl DEF Called
<1>12. CASE HandleStep
  <2>1. PICK f \in Faults :
          target' = [target EXCEPT !.jtag = WriteDpc(j, (j.dpc + 1) % NumAddrs, f)]
    BY <1>12 DEF HandleStep
  <2>2. (j.dpc + 1) % NumAddrs \in Addr
    BY <1>1, AddrAssumption DEF Sound, JtagState, Addr
  <2>3. target'.ops = target.ops /\ k = WriteDpc(j, (j.dpc + 1) % NumAddrs, f)
    BY <1>1, <2>1 DEF TargetSound, TargetState
  <2>4. s_running' = s_running
    BY <1>12 DEF HandleStep, Unmoved
  <2> QED
    BY <1>12, <2>2, <2>3, <2>4 DEF Bypassed
<1>13. CASE HandleRiscvLoad
  <2>1. PICK f \in Faults :
          LET stopped == TargetHalt(target, f)
              loaded  == AccessMemory(stopped.jtag, f)
          IN target' = [stopped EXCEPT !.jtag =
                          IF OnHart(loaded, "mem", f) THEN WriteDpc(loaded, Arg, f)
                          ELSE loaded]
    BY <1>13 DEF HandleRiscvLoad
  <2> DEFINE stopped == TargetHalt(target, f)
             loaded  == AccessMemory(stopped.jtag, f)
             final   == IF OnHart(loaded, "mem", f) THEN WriteDpc(loaded, Arg, f) ELSE loaded
  <2>2. /\ TargetSound(stopped) /\ stopped.ops = target.ops
        /\ stopped.jtag = IF OnJtag(target) THEN JtagHalt(j, f) ELSE j
    BY <1>1, TargetHaltSound, DispatchJtag DEF TargetHalt
  <2>3. target' = [stopped EXCEPT !.jtag = final]
    BY <2>1
  <2>4. Arg \in Addr
    BY <1>2, <1>13 DEF HandleRiscvLoad
  <2>5. s_running' = s_running
    BY <1>13 DEF HandleRiscvLoad, Unmoved
  <2> HIDE DEF stopped
  <2>6. final \in {loaded, WriteDpc(loaded, Arg, f)}
    OBVIOUS
  <2> HIDE DEF final
  <2>7. target'.ops = target.ops /\ k = final
    BY <2>2, <2>3 DEF TargetSound, TargetState
  <2>8. stopped.jtag \in {j, JtagHalt(j, f)} /\ (~OnJtag(target) => stopped.jtag = j)
    BY <2>2
  <2>9. Bypassed(j, k)
    BY <1>13, <2>4, <2>5, <2>6, <2>7, <2>8 DEF Bypassed
  <2> QED
    BY <2>7, <2>9
<1>14. CASE HandleTargetJtag
  <2>1. Switch("jtag") /\ "jtag" \in Backend
    BY <1>14 DEF HandleTargetJtag, Backend
  <2> QED
    BY <1>14, <2>1, SwitchOnHart DEF OnJtag
<1>15. CASE HandleTargetLocal
  <2>1. Switch("local") /\ "local" \in Backend
    BY <1>15 DEF HandleTargetLocal, Backend
  <2> QED
    BY <1>15, <2>1, SwitchOnHart DEF OnJtag
<1> QED
  BY <1>3, <1>4, <1>5, <1>6, <1>7, <1>8, <1>9, <1>10, <1>11, <1>12, <1>13, <1>14, <1>15
  DEF Handle

\* What runs on the other side of the cable.
LEMMA OutsideOnHart ==
    ASSUME IInv, Environment \/ GdbSide
    PROVE  LET j == target.jtag
               k == target'.jtag
           IN  /\ target'.ops = target.ops /\ UNCHANGED s_running
               /\ \/ k = j \/ k = HartStops(j)
                  \/ ~j.hart_halted /\ \E pc \in Addr : k = HartExecutes(j, pc)
<1>1. target \in TargetState
  BY DEF IInv, TargetSound
<1>2. UNCHANGED s_running
  BY DEF Environment, HartMoves, HartHits, HartStopsLate, MainReturns, TaskCreated, TaskMoves,
         ServerIdle, GdbSide, GdbAttaches, GdbCommands, GdbInterrupts, GdbReceives, GdbVanishes,
         BridgeDrops, Send, Client
<1>3. CASE GdbSide
  BY <1>2, <1>3 DEF GdbSide, GdbAttaches, GdbCommands, GdbInterrupts, GdbReceives, GdbVanishes,
                    BridgeDrops, Send, Client
<1>4. CASE HartMoves
  BY <1>1, <1>2, <1>4 DEF HartMoves, TargetState
<1>5. CASE HartHits \/ HartStopsLate
  BY <1>1, <1>2, <1>5 DEF HartHits, HartStopsLate, TargetState
<1>6. CASE MainReturns \/ \E t \in AppTasks : TaskCreated(t) \/ TaskMoves(t)
  <2>1. \E l : target' = [target EXCEPT !.local = l]
    BY <1>6 DEF MainReturns, TaskCreated, TaskMoves
  <2> QED
    BY <1>1, <1>2, <2>1 DEF TargetState
<1> QED
  BY <1>3, <1>4, <1>5, <1>6 DEF Environment

---------------------------------------------------------------------------
(* What holds of the hart whatever fails.                                  *)

\* The backend is initialised only over a connection, and has breakpoints only
\* while it is active.
HartInv ==
    /\ target.jtag.initialized => target.jtag.tunnel_ready
    /\ ~OnJtag(target) => target.jtag.breakpoints = EmptyTable

LEMMA LeftFrame ==
    ASSUME NEW j, NEW f, Sound(j)
    PROVE  LET k == Left(j, f) IN Steady(j, k) /\ k.breakpoints = EmptyTable
<1> DEFINE m == IF JtagIsHalted(j, f) THEN j ELSE JtagHalt(j, f)
           k == JtagClearAllBreakpoints(m, f)
<1>1. Sound(m) /\ Steady(j, m)
  BY JtagHaltSound, JtagHaltFrame DEF Steady
<1> HIDE DEF m
<1>2. Guarded(m, k) /\ k.breakpoints = EmptyTable
  BY <1>1, ClearAllFrame
<1>3. Left(j, f) = k
  BY DEF Left, m
<1> HIDE DEF k
<1> QED
  BY <1>1, <1>2, <1>3, GuardedSteady, SteadyTransitive DEF Guarded

\* Apart from a switch, only a resume is not steady.
LEMMA CalledSteady ==
    ASSUME Sound(target.jtag), Called(target.jtag, target'.jtag)
    PROVE  LET j == target.jtag
               k == target'.jtag
           IN  \/ Steady(j, k)
               \/ \E f \in Faults :
                    \/ HandleContinue /\ k = JtagResume(j, f)
                    \/ HandleDetach /\ k = JtagResume(JtagClearAllBreakpoints(j, f), f)
<1> DEFINE j == target.jtag
           k == target'.jtag
<1>1. CASE Plain(j, k) \/ k = JtagWriteScratch(j)
  BY <1>1, GuardedSteady, WriteScratchFrame DEF Plain, Guarded
<1>2. CASE \E f \in Faults, a \in Addr :
             k = JtagSetBreakpoint(j, a, f) \/ k = JtagClearBreakpoint(j, a, f)
  BY <1>2, SetBreakpointFrame, ClearBreakpointFrame, GuardedSteady DEF Guarded
<1>3. CASE \E f \in Faults : k = JtagHalt(j, f)
  BY <1>3, JtagHaltFrame
<1>4. CASE \E f \in Faults : JtagHit(j, f) /\ k = JtagHalt(JtagCheckBreakpoints(j, f), f)
  <2>1. PICK f \in Faults : JtagHit(j, f) /\ k = JtagHalt(JtagCheckBreakpoints(j, f), f)
    BY <1>4
  <2> DEFINE m == JtagCheckBreakpoints(j, f)
  <2>2. Sound(m) /\ Steady(j, m)
    BY <2>1, JtagCheckBreakpointsSound, CheckBreakpointsFrame
  <2>3. k = JtagHalt(m, f)
    BY <2>1
  <2> HIDE DEF m
  <2>4. Steady(m, k)
    BY <2>2, <2>3, JtagHaltFrame
  <2> QED
    BY <2>2, <2>4, SteadyTransitive
<1> QED
  BY <1>1, <1>2, <1>3, <1>4 DEF Called

LEMMA BypassedSteady ==
    ASSUME Sound(target.jtag), Bypassed(target.jtag, target'.jtag)
    PROVE  /\ Steady(target.jtag, target'.jtag)
           /\ ~OnJtag(target) => Access(target.jtag, target'.jtag)
           /\ ~OnJtag(target) => target'.jtag.breakpoints = target.jtag.breakpoints
<1> DEFINE j == target.jtag
           k == target'.jtag
<1>1. CASE \E f \in Faults, pc \in Addr : HandleStep /\ k = WriteDpc(j, pc, f)
  BY <1>1, WriteDpcFrame, GuardedSteady
<1>2. CASE \E f \in Faults, pc \in Addr :
             \E m \in {j, JtagHalt(j, f)} :
               /\ ~OnJtag(target) => m = j
               /\ LET l == AccessMemory(m, f) IN k \in {l, WriteDpc(l, pc, f)}
  <2>0. PICK f \in Faults, pc \in Addr :
          \E m \in {j, JtagHalt(j, f)} :
            /\ ~OnJtag(target) => m = j
            /\ LET l == AccessMemory(m, f) IN k \in {l, WriteDpc(l, pc, f)}
    BY <1>2
  <2>1. PICK m \in {j, JtagHalt(j, f)} :
          /\ ~OnJtag(target) => m = j
          /\ LET l == AccessMemory(m, f) IN k \in {l, WriteDpc(l, pc, f)}
    BY <2>0
  <2> DEFINE l == AccessMemory(m, f)
  <2>2. Sound(m) /\ Steady(j, m)
    BY JtagHaltSound, JtagHaltFrame DEF Steady
  <2>3. Sound(l) /\ Access(m, l) /\ l.breakpoints = m.breakpoints
    BY <2>2, AccessMemorySound, AccessMemoryFrame
  <2>4. k \in {l, WriteDpc(l, pc, f)}
    BY <2>1
  <2> HIDE DEF l
  <2>5. Access(l, k) /\ k.breakpoints = l.breakpoints
    <3>1. Access(l, l)
      BY DEF Access
    <3> QED
      BY <2>3, <2>4, <3>1, WriteDpcFrame
  <2>6. Access(m, k) /\ k.breakpoints = m.breakpoints
    BY <2>3, <2>5 DEF Access
  <2> QED
    BY <2>1, <2>2, <2>6, GuardedSteady, SteadyTransitive
<1> QED
  BY <1>1, <1>2 DEF Bypassed

\* After `monitor target jtag'.
LEMMA SwitchedFrame ==
    ASSUME NEW j, NEW f, Sound(j)
    PROVE  LET k == JtagHalt(JtagInit(j, f), f)
           IN  /\ k.breakpoints = EmptyTable /\ k.trigger = j.trigger
               /\ j.hart_halted => k.hart_halted
               /\ k.initialized => k.tunnel_ready
               /\ "ecp5" \notin f /\ "init" \notin f => k.initialized
<1> DEFINE m == JtagInit(j, f)
           k == JtagHalt(m, f)
<1>1. /\ Sound(m) /\ m.breakpoints = EmptyTable /\ m.trigger = j.trigger
      /\ j.hart_halted => m.hart_halted
      /\ m.initialized => m.tunnel_ready
      /\ "ecp5" \notin f /\ "init" \notin f => m.initialized
  BY JtagInitSound, JtagInitFrame
<1> HIDE DEF m
<1>2. Active(m.breakpoints) = {}
  BY <1>1 DEF Active, EmptyTable
<1>3. Steady(m, k) /\ k.breakpoints = m.breakpoints /\ k.trigger = m.trigger
  BY <1>1, <1>2, JtagHaltFrame
<1> HIDE DEF k
<1>4. /\ k.breakpoints = EmptyTable /\ k.trigger = j.trigger
      /\ j.hart_halted => k.hart_halted
      /\ k.initialized => k.tunnel_ready
      /\ "ecp5" \notin f /\ "init" \notin f => k.initialized
  BY <1>1, <1>3 DEF Steady
<1> USE DEF k, m
<1> QED
  BY <1>4

LEMMA DetachFrame ==
    ASSUME NEW j, NEW f, Sound(j)
    PROVE  LET k == JtagResume(JtagClearAllBreakpoints(j, f), f)
           IN  /\ k.initialized = j.initialized /\ k.tunnel_ready = j.tunnel_ready
               /\ k.breakpoints = EmptyTable
               /\ k.trigger = JtagClearAllBreakpoints(j, f).trigger
<1> DEFINE m == JtagClearAllBreakpoints(j, f)
<1>1. /\ Sound(m) /\ m.breakpoints = EmptyTable
      /\ m.initialized = j.initialized /\ m.tunnel_ready = j.tunnel_ready
  BY JtagClearAllBreakpointsSound, ClearAllFrame DEF Guarded, Access
<1> HIDE DEF m
<1>2. /\ JtagResume(m, f).initialized = j.initialized
      /\ JtagResume(m, f).tunnel_ready = j.tunnel_ready
      /\ JtagResume(m, f).breakpoints = EmptyTable /\ JtagResume(m, f).trigger = m.trigger
  BY <1>1, ResumeFrame
<1> QED
  BY <1>2 DEF m

LEMMA HartInvStep == IInv /\ HartInv /\ [Next]_vars => HartInv'
<1> SUFFICES ASSUME IInv, HartInv, [Next]_vars PROVE HartInv'
  OBVIOUS
<1> DEFINE j == target.jtag
           k == target'.jtag
<1>1. Sound(j)
  BY DEF IInv, TargetSound
<1>2. ASSUME Steady(j, k), target'.ops = target.ops, ~OnJtag(target) => k.breakpoints = j.breakpoints
      PROVE  HartInv'
  BY <1>2 DEF HartInv, Steady, OnJtag
<1>3. CASE Poll \/ Handle
  <2>1. CASE target'.ops = target.ops /\ ~OnJtag(target) /\ k = j
    BY <1>2, <2>1 DEF Steady
  <2>2. CASE target'.ops = target.ops /\ OnJtag(target) /\ Called(j, k)
    <3>1. CASE Steady(j, k)
      BY <1>2, <2>2, <3>1
    <3>2. CASE \E f \in Faults : \/ k = JtagResume(j, f)
                                 \/ k = JtagResume(JtagClearAllBreakpoints(j, f), f)
      <4>1. k.initialized = j.initialized /\ k.tunnel_ready = j.tunnel_ready
        BY <1>1, <3>2, ResumeFrame, DetachFrame
      <4> QED
        BY <2>2, <4>1 DEF HartInv, OnJtag
    <3>3. \/ Steady(j, k)
          \/ \E f \in Faults : \/ k = JtagResume(j, f)
                               \/ k = JtagResume(JtagClearAllBreakpoints(j, f), f)
      BY <1>1, <2>2, CalledSteady
    <3> QED
      BY <3>1, <3>2, <3>3
  <2>3. CASE target'.ops = target.ops /\ Bypassed(j, k)
    BY <1>1, <1>2, <2>3, BypassedSteady
  <2>4. CASE OnJtag(target') /\ \E f \in Faults :
               k = JtagHalt(JtagInit(IF OnJtag(target) THEN Left(j, f) ELSE j, f), f)
    <3>1. \E f \in Faults : \E m : Sound(m) /\ k = JtagHalt(JtagInit(m, f), f)
      BY <1>1, <2>4, LeftSound
    <3>2. k.initialized => k.tunnel_ready
      BY <3>1, SwitchedFrame
    <3> QED
      BY <2>4, <3>2 DEF HartInv
  <2>5. CASE ~OnJtag(target')
               /\ \E f \in Faults : k = IF OnJtag(target) THEN Left(j, f) ELSE j
    <3>1. Steady(j, k) /\ k.breakpoints = EmptyTable
      BY <1>1, <2>5, LeftFrame DEF HartInv, Steady
    <3> QED
      BY <3>1 DEF HartInv, Steady
  <2> QED
    BY <1>3, <2>1, <2>2, <2>3, <2>4, <2>5, ServerOnHart
<1>4. CASE Environment \/ GdbSide
  <2>1. Steady(j, k) /\ k.breakpoints = j.breakpoints
    BY <1>1, <1>4, OutsideOnHart DEF HartStops, HartExecutes, Steady, Sound, JtagState
  <2> QED
    BY <1>2, <1>4, <2>1, OutsideOnHart
<1>5. CASE UNCHANGED vars
  BY <1>5 DEF vars, HartInv, OnJtag
<1> QED
  BY <1>3, <1>4, <1>5 DEF Next

LEMMA HartInvariance == Spec => [](IInv /\ HartInv)
<1>1. Init => HartInv
  BY DEF Init, HartInv, JtagBoot, OnJtag
<1> QED
  BY <1>1, HartInvStep, Invariance, PTL DEF Spec

---------------------------------------------------------------------------
(* A hart that can be halted.                                              *)

LEMMA LeftStops ==
    ASSUME NEW j, NEW f, Sound(j), j.initialized, j.tunnel_ready,
           "haltreq" \notin f, "status" \notin f, "halt" \notin f
    PROVE  Left(j, f).hart_halted
<1> DEFINE m == IF JtagIsHalted(j, f) THEN j ELSE JtagHalt(j, f)
           k == JtagClearAllBreakpoints(m, f)
<1>1. Sound(m) /\ m.hart_halted
  BY JtagHaltSound, JtagHaltStops DEF JtagIsHalted, DmIsHalted, OnHart
<1> HIDE DEF m
<1>2. k.hart_halted
  BY <1>1, ClearAllFrame DEF Guarded, Access
<1> QED
  BY <1>2 DEF Left, m

LEMMA ParkedStep ==
    ASSUME HaltWorks
    PROVE  IInv /\ HartInv /\ ParkedHartStopped /\ [Next]_vars => ParkedHartStopped'
<1> SUFFICES ASSUME IInv, HartInv, ParkedHartStopped, [Next]_vars PROVE ParkedHartStopped'
  OBVIOUS
<1> DEFINE j == target.jtag
           k == target'.jtag
<1>1. Sound(j)
  BY DEF IInv, TargetSound
<1>2. ASSUME Steady(j, k), target'.ops = target.ops PROVE ParkedHartStopped'
  BY <1>2 DEF ParkedHartStopped, Steady, OnJtag
<1>3. CASE Poll \/ Handle
  <2>1. CASE target'.ops = target.ops /\ ~OnJtag(target) /\ k = j
    BY <1>2, <2>1 DEF Steady
  <2>2. CASE target'.ops = target.ops /\ OnJtag(target)
    BY <2>2 DEF ParkedHartStopped, OnJtag
  <2>3. CASE target'.ops = target.ops /\ Bypassed(j, k)
    BY <1>1, <1>2, <2>3, BypassedSteady
  <2>4. CASE OnJtag(target')
    BY <2>4 DEF ParkedHartStopped
  <2>5. CASE /\ ~OnJtag(target')
             /\ \E f \in Faults : k = IF OnJtag(target) THEN Left(j, f) ELSE j
    <3>1. CASE ~OnJtag(target)
      BY <2>5, <3>1 DEF ParkedHartStopped
    <3>2. CASE OnJtag(target)
      <4>1. PICK f \in Faults : k = Left(j, f)
        BY <2>5, <3>2
      <4>2. k.initialized = j.initialized
        BY <1>1, <4>1, LeftFrame DEF Steady
      <4>3. j.initialized => k.hart_halted
        BY <1>1, <4>1, LeftStops DEF HaltWorks, HartInv
      <4> QED
        BY <4>2, <4>3 DEF ParkedHartStopped
    <3> QED
      BY <3>1, <3>2
  <2> QED
    BY <1>3, <2>1, <2>2, <2>3, <2>4, <2>5, ServerOnHart
<1>4. CASE Environment \/ GdbSide
  <2>1. Steady(j, k)
    BY <1>1, <1>4, OutsideOnHart DEF HartStops, HartExecutes, Steady, Sound, JtagState
  <2> QED
    BY <1>2, <1>4, <2>1, OutsideOnHart
<1>5. CASE UNCHANGED vars
  BY <1>5 DEF vars, ParkedHartStopped, OnJtag
<1> QED
  BY <1>3, <1>4, <1>5 DEF Next

\* A switch to the local backend leaves the hart halted, and it stays so until
\* the JTAG backend is back: whenever dm_halt works, whatever else fails.
THEOREM ParkedHartStaysStopped ==
    ASSUME HaltWorks
    PROVE  Spec => []ParkedHartStopped
<1>1. Init => ParkedHartStopped
  BY DEF Init, ParkedHartStopped, JtagBoot
<1>2. IInv /\ HartInv /\ ParkedHartStopped /\ [Next]_vars => ParkedHartStopped'
  BY ParkedStep
<1> QED
  BY <1>1, <1>2, HartInvariance, PTL DEF Spec

---------------------------------------------------------------------------
(* A hart that can be connected to and halted is polled while it runs.     *)

Connected == OnJtag(target) => target.jtag.initialized

LEMMA ConnectedStep ==
    ASSUME InitWorks
    PROVE  IInv /\ HartInv /\ Connected /\ [Next]_vars => Connected'
<1> SUFFICES ASSUME IInv, HartInv, Connected, [Next]_vars PROVE Connected'
  OBVIOUS
<1> DEFINE j == target.jtag
           k == target'.jtag
<1>1. Sound(j)
  BY DEF IInv, TargetSound
<1>2. ASSUME k.initialized = j.initialized, target'.ops = target.ops PROVE Connected'
  BY <1>2 DEF Connected, OnJtag
<1>3. CASE Poll \/ Handle
  <2>1. CASE target'.ops = target.ops /\ ~OnJtag(target) /\ k = j
    BY <1>2, <2>1
  <2>2. CASE target'.ops = target.ops /\ Called(j, k)
    <3>1. \/ Steady(j, k)
          \/ \E f \in Faults : \/ k = JtagResume(j, f)
                               \/ k = JtagResume(JtagClearAllBreakpoints(j, f), f)
      BY <1>1, <2>2, CalledSteady
    <3>2. k.initialized = j.initialized
      BY <1>1, <3>1, ResumeFrame, DetachFrame DEF Steady
    <3> QED
      BY <1>2, <2>2, <3>2
  <2>3. CASE target'.ops = target.ops /\ Bypassed(j, k)
    BY <1>1, <1>2, <2>3, BypassedSteady DEF Steady
  <2>4. CASE OnJtag(target') /\ \E f \in Faults :
               k = JtagHalt(JtagInit(IF OnJtag(target) THEN Left(j, f) ELSE j, f), f)
    <3>1. \E f \in Faults : \E m : Sound(m) /\ k = JtagHalt(JtagInit(m, f), f)
      BY <1>1, <2>4, LeftSound
    <3>2. k.initialized
      BY <3>1, SwitchedFrame DEF InitWorks
    <3> QED
      BY <3>2 DEF Connected
  <2>5. CASE ~OnJtag(target')
    BY <2>5 DEF Connected
  <2> QED
    BY <1>3, <2>1, <2>2, <2>3, <2>4, <2>5, ServerOnHart
<1>4. CASE Environment \/ GdbSide
  <2>1. k.initialized = j.initialized
    BY <1>1, <1>4, OutsideOnHart DEF HartStops, HartExecutes, Sound, JtagState
  <2> QED
    BY <1>2, <1>4, <2>1, OutsideOnHart
<1>5. CASE UNCHANGED vars
  BY <1>5 DEF vars, Connected, OnJtag
<1> QED
  BY <1>3, <1>4, <1>5 DEF Next

\* A backend call after which nobody polls the hart any more has halted it.
LEMMA CalledWatched ==
    ASSUME HaltWorks, Sound(target.jtag), Called(target.jtag, target'.jtag),
           target.jtag.initialized, target.jtag.tunnel_ready,
           ~target'.jtag.hart_halted, ~s_running'
    PROVE  HandleDetach \/ (UNCHANGED s_running /\ Steady(target.jtag, target'.jtag))
<1> DEFINE j == target.jtag
           k == target'.jtag
<1>1. HandleContinue => s_running'
  BY DEF HandleContinue
<1>2. HandleBreakpointSet \/ HandleBreakpointClear => UNCHANGED s_running
  BY DEF HandleBreakpointSet, HandleBreakpointClear, Unmoved
<1>3. ASSUME NEW f \in Faults, NEW m, Sound(m), Steady(j, m), k = JtagHalt(m, f) PROVE FALSE
  <2>1. m.initialized /\ m.tunnel_ready
    BY <1>3 DEF Steady
  <2> QED
    BY <1>3, <2>1, JtagHaltStops DEF HaltWorks
<1>4. ASSUME NEW f \in Faults, k = JtagHalt(j, f) PROVE FALSE
  BY <1>3, <1>4 DEF Steady
<1>5. ASSUME NEW f \in Faults, JtagHit(j, f), k = JtagHalt(JtagCheckBreakpoints(j, f), f)
      PROVE  FALSE
  BY <1>3, <1>5, JtagCheckBreakpointsSound, CheckBreakpointsFrame
<1>6. ASSUME HandleContinue PROVE FALSE
  BY <1>1, <1>6
<1>7. \/ (Plain(j, k) \/ k = JtagWriteScratch(j)) /\ UNCHANGED s_running
      \/ HandleBreakpointSet \/ HandleBreakpointClear \/ HandleDetach
  BY <1>4, <1>5, <1>6 DEF Called
<1>8. Steady(j, k) \/ HandleDetach
  BY <1>6, CalledSteady
<1> QED
  BY <1>2, <1>7, <1>8

\* While the JTAG backend is active, only `D' and `k' let the hart run without
\* the server polling it: whenever dm_init and dm_halt work, whatever else fails.
THEOREM OnlyDetachEndsTheWatch ==
    ASSUME HaltWorks, InitWorks
    PROVE  Spec => WatchEndsOnlyByDetach
<1> DEFINE Watched == ~Unwatched => ~Unwatched' \/ HandleDetach
<1>1. IInv /\ HartInv /\ Connected /\ [Next]_vars => [Watched]_vars
  <2> SUFFICES ASSUME IInv, HartInv, Connected, Next, ~Unwatched, Unwatched'
               PROVE  HandleDetach
    OBVIOUS
  <2> DEFINE j == target.jtag
             k == target'.jtag
  <2>1. Sound(j)
    BY DEF IInv, TargetSound
  <2>2. OnJtag(target') /\ ~k.hart_halted /\ ~s_running'
    BY DEF Unwatched, OnJtag
  <2>3. ASSUME Steady(j, k), target'.ops = target.ops, UNCHANGED s_running PROVE FALSE
    BY <2>2, <2>3 DEF Unwatched, Steady, OnJtag
  <2>4. CASE Poll \/ Handle
    <3>1. CASE target'.ops = target.ops /\ OnJtag(target) /\ Called(j, k)
      <4>1. j.initialized /\ j.tunnel_ready
        BY <3>1 DEF Connected, HartInv
      <4> QED
        BY <2>1, <2>2, <2>3, <3>1, <4>1, CalledWatched
    <3>2. CASE target'.ops = target.ops /\ Bypassed(j, k)
      BY <2>1, <2>3, <3>2, BypassedSteady DEF Bypassed
    <3>3. CASE \E f \in Faults :
                 k = JtagHalt(JtagInit(IF OnJtag(target) THEN Left(j, f) ELSE j, f), f)
      <4>1. PICK f \in Faults : \E m : Sound(m) /\ k = JtagHalt(JtagInit(m, f), f)
        BY <2>1, <3>3, LeftSound
      <4>2. PICK m : Sound(m) /\ k = JtagHalt(JtagInit(m, f), f)
        BY <4>1
      <4>3. /\ Sound(JtagInit(m, f)) /\ JtagInit(m, f).initialized
            /\ JtagInit(m, f).tunnel_ready
        BY <4>2, JtagInitSound, JtagInitFrame DEF InitWorks
      <4>4. k.hart_halted
        BY <4>2, <4>3, JtagHaltStops DEF HaltWorks
      <4> QED
        BY <2>2, <4>4
    <3> QED
      BY <2>2, <2>4, <3>1, <3>2, <3>3, ServerOnHart DEF OnJtag
  <2>5. CASE Environment \/ GdbSide
    <3>1. Steady(j, k)
      BY <2>1, <2>5, OutsideOnHart DEF HartStops, HartExecutes, Steady, Sound, JtagState
    <3> QED
      BY <2>3, <2>5, <3>1, OutsideOnHart
  <2> QED
    BY <2>4, <2>5 DEF Next
<1>2. Init => Connected
  BY DEF Init, Connected, OnJtag
<1>3. IInv /\ HartInv /\ Connected /\ [Next]_vars => Connected'
  BY ConnectedStep
<1> QED
  BY <1>1, <1>2, <1>3, HartInvariance, PTL DEF Spec, WatchEndsOnlyByDetach

---------------------------------------------------------------------------
(* The triggers belong to the table.                                       *)

LEMMA TriggerOfType ==
    ASSUME NEW i \in Slot
    PROVE  TriggerOf(i) \in Trigger
BY TriggerAssumption, SlotAssumption DEF TriggerOf, Trigger, Slot

\* A new breakpoint takes a free slot and that slot's trigger.
LEMMA SetOwned ==
    ASSUME NEW j, NEW a \in Addr, NEW f, Sound(j), Lands(j, f), TriggersOwned(j)
    PROVE  TriggersOwned(JtagSetBreakpoint(j, a, f))
<1> DEFINE k == JtagSetBreakpoint(j, a, f)
           s == FreeSlot(j.breakpoints)
<1>1. /\ k.breakpoints = TableSet(j.breakpoints, a)
      /\ k.trigger = IF Lands(j, f) /\ NeedSlot(j.breakpoints, a)
                     THEN Written(j, s, a) ELSE j.trigger
  BY SetBreakpointFrame
<1>2. j.breakpoints \in BreakpointTable
  BY DEF Sound, JtagState
<1> HIDE DEF k
<1>3. CASE NeedSlot(j.breakpoints, a)
  <2>1. s \in Slot /\ j.breakpoints[s] = NoAddr
    BY <1>3, LowestType DEF NeedSlot, FreeSlot, SlotsWith
  <2>2. /\ k.breakpoints = [j.breakpoints EXCEPT ![s] = a]
        /\ k.trigger = [t \in Trigger |-> IF t = TriggerOf(s) THEN a ELSE j.trigger[t]]
    BY <1>1, <1>3 DEF TableSet, Written
  <2> HIDE DEF s
  <2>3. k.breakpoints[s] = a /\ \A i \in Slot : i # s => k.breakpoints[i] = j.breakpoints[i]
    BY <1>2, <2>1, <2>2 DEF BreakpointTable
  <2>4. ASSUME NEW t \in Trigger, k.trigger[t] # NoAddr
        PROVE  \E i \in Slot : TriggerOf(i) = t /\ k.breakpoints[i] = k.trigger[t]
    <3>1. CASE t = TriggerOf(s)
      BY <2>1, <2>2, <2>3, <3>1
    <3>2. CASE t # TriggerOf(s)
      <4>1. k.trigger[t] = j.trigger[t]
        BY <2>2, <3>2
      <4>2. PICK i \in Slot : TriggerOf(i) = t /\ j.breakpoints[i] = j.trigger[t]
        BY <2>4, <4>1 DEF TriggersOwned
      <4> QED
        BY <2>3, <3>2, <4>1, <4>2
    <3> QED
      BY <3>1, <3>2
  <2> QED
    BY <2>4 DEF TriggersOwned, k
<1>4. CASE ~NeedSlot(j.breakpoints, a)
  BY <1>1, <1>4 DEF TableSet, TriggersOwned, k
<1> QED
  BY <1>3, <1>4

\* A breakpoint that is removed frees its slot and that slot's trigger.
LEMMA ClearOwned ==
    ASSUME NEW j, NEW a \in Addr, NEW f, Sound(j), Lands(j, f), TriggersOwned(j)
    PROVE  TriggersOwned(JtagClearBreakpoint(j, a, f))
<1> DEFINE k == JtagClearBreakpoint(j, a, f)
           s == SlotOf(j.breakpoints, a)
<1>1. /\ k.breakpoints = TableClear(j.breakpoints, a)
      /\ k.trigger = IF Lands(j, f) /\ SlotsWith(j.breakpoints, a) # {}
                     THEN Written(j, s, NoAddr) ELSE j.trigger
  BY ClearBreakpointFrame
<1>2. j.breakpoints \in BreakpointTable
  BY DEF Sound, JtagState
<1> HIDE DEF k
<1>3. CASE SlotsWith(j.breakpoints, a) # {}
  <2>1. s \in Slot
    BY <1>3, LowestType DEF SlotOf, SlotsWith
  <2>2. /\ k.breakpoints = [j.breakpoints EXCEPT ![s] = NoAddr]
        /\ k.trigger = [t \in Trigger |-> IF t = TriggerOf(s) THEN NoAddr ELSE j.trigger[t]]
    BY <1>1, <1>3 DEF TableClear, Written
  <2> HIDE DEF s
  <2>3. \A i \in Slot : i # s => k.breakpoints[i] = j.breakpoints[i]
    BY <1>2, <2>1, <2>2 DEF BreakpointTable
  <2>4. ASSUME NEW t \in Trigger, k.trigger[t] # NoAddr
        PROVE  \E i \in Slot : TriggerOf(i) = t /\ k.breakpoints[i] = k.trigger[t]
    <3>1. t # TriggerOf(s) /\ k.trigger[t] = j.trigger[t]
      BY <2>2, <2>4
    <3>2. PICK i \in Slot : TriggerOf(i) = t /\ j.breakpoints[i] = j.trigger[t]
      BY <2>4, <3>1 DEF TriggersOwned
    <3> QED
      BY <2>3, <3>1, <3>2
  <2> QED
    BY <2>4 DEF TriggersOwned, k
<1>4. CASE SlotsWith(j.breakpoints, a) = {}
  BY <1>1, <1>4 DEF TableClear, TriggersOwned, k
<1> QED
  BY <1>3, <1>4

\* Clearing all breakpoints disarms every trigger that one of them owns.
LEMMA ClearAllOwned ==
    ASSUME NEW j, NEW f, Sound(j), Lands(j, f), TriggersOwned(j)
    PROVE  \A t \in Trigger : JtagClearAllBreakpoints(j, f).trigger[t] = NoAddr
<1> DEFINE k == JtagClearAllBreakpoints(j, f)
<1>1. k.trigger = IF Lands(j, f) /\ Active(j.breakpoints) # {} THEN Disarmings(j) ELSE j.trigger
  BY ClearAllFrame
<1> HIDE DEF k
<1>2. ASSUME NEW t \in Trigger, j.trigger[t] # NoAddr PROVE SlotsOn(j.breakpoints, t) # {}
  <2>1. PICK i \in Slot : TriggerOf(i) = t /\ j.breakpoints[i] = j.trigger[t]
    BY <1>2 DEF TriggersOwned
  <2> QED
    BY <1>2, <2>1 DEF SlotsOn, Active
<1>3. \A t \in Trigger : k.trigger[t] = NoAddr
  BY <1>1, <1>2 DEF Disarmings, SlotsOn
<1> QED
  BY <1>3 DEF k

\* Without breakpoints nothing is armed.
LEMMA EmptyOwned ==
    ASSUME NEW j, TriggersOwned(j), j.breakpoints = EmptyTable
    PROVE  \A t \in Trigger : j.trigger[t] = NoAddr
BY DEF TriggersOwned, EmptyTable

LEMMA SameOwned ==
    ASSUME NEW j, NEW k, TriggersOwned(j),
           k.trigger = j.trigger, k.breakpoints = j.breakpoints
    PROVE  TriggersOwned(k)
BY DEF TriggersOwned

\* Leaving the backend disarms everything.
LEMMA LeftOwned ==
    ASSUME NEW j, NEW f, Sound(j), Lands(j, f), TriggersOwned(j)
    PROVE  \A t \in Trigger : Left(j, f).trigger[t] = NoAddr
<1>1. (IF JtagIsHalted(j, f) THEN j ELSE JtagHalt(j, f)) = j
  BY DEF JtagHalt, Lands
<1> QED
  BY <1>1, ClearAllOwned DEF Left

\* When a CSR write to a halted hart lands, a trigger survives its breakpoint
\* only if the breakpoint was removed while the backend did not hold the hart
\* halted: whatever else fails, and for any number of slots and triggers.
THEOREM TriggersFollowTheTable ==
    ASSUME CsrWorks
    PROVE  Spec => TriggersStaleOnlyWhileRunning
<1> DEFINE Owned ==
      TriggersOwned(target.jtag) => TriggersOwned(target.jtag)' \/ ~target.jtag.halted
<1>1. IInv /\ HartInv /\ [Next]_vars => [Owned]_vars
  <2> SUFFICES ASSUME IInv, HartInv, Next, TriggersOwned(target.jtag), target.jtag.halted
               PROVE  TriggersOwned(target'.jtag)
    OBVIOUS
  <2> DEFINE j == target.jtag
             k == target'.jtag
  <2>1. Sound(j) /\ \A f \in Faults : Lands(j, f)
    BY DEF IInv, TargetSound, CsrWorks, Lands
  <2>2. ASSUME k.trigger = j.trigger, k.breakpoints = j.breakpoints PROVE TriggersOwned(k)
    BY <2>2, SameOwned
  <2>3. ASSUME \A t \in Trigger : k.trigger[t] = NoAddr PROVE TriggersOwned(k)
    BY <2>3 DEF TriggersOwned
  <2>4. ASSUME NEW f \in Faults PROVE JtagHalt(j, f) = j /\ ~JtagHit(j, f)
    BY DEF JtagHalt, JtagHit
  <2>5. CASE Called(j, k)
    <3>1. CASE Plain(j, k) \/ k = JtagWriteScratch(j)
      BY <2>1, <2>2, <3>1, WriteScratchFrame DEF Plain
    <3>2. CASE \E f \in Faults, a \in Addr :
                 k = JtagSetBreakpoint(j, a, f) \/ k = JtagClearBreakpoint(j, a, f)
      BY <2>1, <3>2, SetOwned, ClearOwned
    <3>3. CASE \E f \in Faults : k = JtagResume(j, f)
      BY <2>1, <2>2, <3>3, ResumeFrame
    <3>4. CASE \E f \in Faults : k = JtagResume(JtagClearAllBreakpoints(j, f), f)
      BY <2>1, <2>3, <3>4, DetachFrame, ClearAllOwned
    <3>5. CASE k = j
      BY <2>2, <3>5
    <3> QED
      BY <2>4, <2>5, <3>1, <3>2, <3>3, <3>4, <3>5 DEF Called
  <2>6. CASE Bypassed(j, k)
    <3>1. CASE \E f \in Faults, pc \in Addr : k = WriteDpc(j, pc, f)
      BY <2>1, <2>2, <3>1, WriteDpcFrame
    <3>2. CASE \E f \in Faults, pc \in Addr :
                 LET l == AccessMemory(j, f) IN k \in {l, WriteDpc(l, pc, f)}
      <4>1. PICK f \in Faults, pc \in Addr :
              LET l == AccessMemory(j, f) IN k \in {l, WriteDpc(l, pc, f)}
        BY <3>2
      <4> DEFINE l == AccessMemory(j, f)
      <4>2. Sound(l) /\ l.trigger = j.trigger /\ l.breakpoints = j.breakpoints
        BY <2>1, AccessMemorySound, AccessMemoryFrame
      <4>3. k \in {l, WriteDpc(l, pc, f)}
        BY <4>1
      <4> HIDE DEF l
      <4> QED
        BY <2>2, <4>2, <4>3, WriteDpcFrame
    <3> QED
      BY <2>4, <2>6, <3>1, <3>2 DEF Bypassed
  <2>7. ASSUME NEW f \in Faults
        PROVE  \A t \in Trigger :
                 (IF OnJtag(target) THEN Left(j, f) ELSE j).trigger[t] = NoAddr
    BY <2>1, LeftOwned, EmptyOwned DEF HartInv
  <2>8. CASE \E f \in Faults :
               k = JtagHalt(JtagInit(IF OnJtag(target) THEN Left(j, f) ELSE j, f), f)
    BY <2>1, <2>3, <2>7, <2>8, LeftSound, SwitchedFrame
  <2>9. CASE \E f \in Faults : k = IF OnJtag(target) THEN Left(j, f) ELSE j
    BY <2>3, <2>7, <2>9
  <2>10. CASE k = j
    BY <2>2, <2>10
  <2>11. CASE Environment \/ GdbSide
    <3>1. k.trigger = j.trigger /\ k.breakpoints = j.breakpoints
      BY <2>1, <2>11, OutsideOnHart DEF HartStops, HartExecutes, Sound, JtagState
    <3> QED
      BY <2>2, <3>1
  <2> QED
    BY <2>5, <2>6, <2>8, <2>9, <2>10, <2>11, ServerOnHart DEF Next
<1> QED
  BY <1>1, HartInvariance, PTL DEF Spec, TriggersStaleOnlyWhileRunning

---------------------------------------------------------------------------
(* The triggers follow the table.                                          *)

LEMMA SameInStep ==
    ASSUME NEW j, NEW k, InStep(j), k.trigger = j.trigger, k.breakpoints = j.breakpoints
    PROVE  InStep(k)
BY DEF InStep

LEMMA EmptyInStep ==
    ASSUME NEW k, k.breakpoints = EmptyTable
    PROVE  InStep(k)
BY DEF InStep, Active, EmptyTable

\* Without a conflict, the last slot on a trigger is the only one.
LEMMA ArmingsInStep ==
    ASSUME NEW j, NEW k, ~Conflict(j), k.trigger = Armings(j), k.breakpoints = j.breakpoints
    PROVE  InStep(k)
<1>1. ASSUME NEW i \in Active(j.breakpoints)
      PROVE  k.trigger[TriggerOf(i)] = j.breakpoints[i]
  <2> DEFINE S == SlotsOn(j.breakpoints, TriggerOf(i))
  <2>1. i \in S /\ \A n \in S : n = i
    BY DEF SlotsOn, Conflict
  <2>2. Highest(S) = i
    BY <2>1, HighestOnTrigger
  <2>3. TriggerOf(i) \in Trigger
    BY TriggerOfType DEF Active
  <2> QED
    BY <2>1, <2>2, <2>3 DEF Armings
<1> QED
  BY <1>1 DEF InStep

LEMMA HaltInStep ==
    ASSUME NEW j, NEW f, Sound(j), InStep(j), ~Conflict(j)
    PROVE  InStep(JtagHalt(j, f))
BY JtagHaltFrame, ArmingsInStep, SameInStep

LEMMA SetInStep ==
    ASSUME NEW j, NEW a \in Addr, NEW f, Sound(j), Lands(j, f), InStep(j),
           ~Conflict(JtagSetBreakpoint(j, a, f))
    PROVE  InStep(JtagSetBreakpoint(j, a, f))
<1> DEFINE k == JtagSetBreakpoint(j, a, f)
           s == FreeSlot(j.breakpoints)
<1>1. /\ k.breakpoints = TableSet(j.breakpoints, a)
      /\ k.trigger = IF Lands(j, f) /\ NeedSlot(j.breakpoints, a)
                     THEN Written(j, s, a) ELSE j.trigger
  BY SetBreakpointFrame
<1>2. j.breakpoints \in BreakpointTable /\ ~Conflict(k) /\ a # NoAddr
  BY AddrAssumption DEF Sound, JtagState, Addr, NoAddr
<1> HIDE DEF k
<1>3. CASE NeedSlot(j.breakpoints, a)
  <2>1. s \in Slot /\ TriggerOf(s) \in Trigger
    BY <1>3, LowestType, TriggerOfType DEF NeedSlot, FreeSlot, SlotsWith
  <2>2. /\ k.breakpoints = [j.breakpoints EXCEPT ![s] = a]
        /\ k.trigger = [t \in Trigger |-> IF t = TriggerOf(s) THEN a ELSE j.trigger[t]]
    BY <1>1, <1>3 DEF TableSet, Written
  <2> HIDE DEF s
  <2>3. k.breakpoints[s] = a /\ \A i \in Slot : i # s => k.breakpoints[i] = j.breakpoints[i]
    BY <1>2, <2>1, <2>2 DEF BreakpointTable
  <2>4. s \in Active(k.breakpoints)
    BY <1>2, <2>1, <2>3 DEF Active
  <2>5. ASSUME NEW i \in Active(k.breakpoints)
        PROVE  k.trigger[TriggerOf(i)] = k.breakpoints[i]
    <3>1. CASE i = s
      BY <2>1, <2>2, <2>3, <3>1
    <3>2. CASE i # s
      <4>1. i \in Slot /\ TriggerOf(i) \in Trigger /\ TriggerOf(i) # TriggerOf(s)
        BY <1>2, <2>4, <3>2, TriggerOfType DEF Conflict, Active
      <4>2. i \in Active(j.breakpoints) /\ k.breakpoints[i] = j.breakpoints[i]
        BY <2>3, <3>2, <4>1 DEF Active
      <4>3. k.trigger[TriggerOf(i)] = j.trigger[TriggerOf(i)]
        BY <2>2, <4>1
      <4> QED
        BY <4>2, <4>3 DEF InStep
    <3> QED
      BY <3>1, <3>2
  <2> QED
    BY <2>5 DEF InStep, k
<1>4. CASE ~NeedSlot(j.breakpoints, a)
  BY <1>1, <1>4, SameInStep DEF TableSet, k
<1> QED
  BY <1>3, <1>4

LEMMA ClearInStep ==
    ASSUME NEW j, NEW a \in Addr, NEW f, Sound(j), InStep(j), ~Conflict(j)
    PROVE  InStep(JtagClearBreakpoint(j, a, f))
<1> DEFINE k == JtagClearBreakpoint(j, a, f)
           s == SlotOf(j.breakpoints, a)
<1>1. /\ k.breakpoints = TableClear(j.breakpoints, a)
      /\ k.trigger = IF Lands(j, f) /\ SlotsWith(j.breakpoints, a) # {}
                     THEN Written(j, s, NoAddr) ELSE j.trigger
  BY ClearBreakpointFrame
<1>2. j.breakpoints \in BreakpointTable /\ a # NoAddr
  BY AddrAssumption DEF Sound, JtagState, Addr, NoAddr
<1> HIDE DEF k
<1>3. CASE SlotsWith(j.breakpoints, a) # {}
  <2>1. s \in Slot /\ j.breakpoints[s] = a
    BY <1>3, LowestType DEF SlotOf, SlotsWith
  <2>2. /\ k.breakpoints = [j.breakpoints EXCEPT ![s] = NoAddr]
        /\ k.trigger \in {j.trigger,
             [t \in Trigger |-> IF t = TriggerOf(s) THEN NoAddr ELSE j.trigger[t]]}
    BY <1>1, <1>3 DEF TableClear, Written
  <2> HIDE DEF s
  <2>3. ASSUME NEW i \in Active(k.breakpoints)
        PROVE  k.trigger[TriggerOf(i)] = k.breakpoints[i]
    <3>1. i \in Slot /\ i # s /\ k.breakpoints[i] = j.breakpoints[i]
      BY <1>2, <2>1, <2>2 DEF Active, BreakpointTable
    <3>2. i \in Active(j.breakpoints) /\ s \in Active(j.breakpoints)
      BY <1>2, <2>1, <3>1 DEF Active
    <3>3. TriggerOf(i) # TriggerOf(s) /\ TriggerOf(i) \in Trigger
      BY <3>1, <3>2, TriggerOfType DEF Conflict
    <3>4. k.trigger[TriggerOf(i)] = j.trigger[TriggerOf(i)]
      BY <2>2, <3>3
    <3> QED
      BY <3>1, <3>2, <3>4 DEF InStep
  <2> QED
    BY <2>3 DEF InStep, k
<1>4. CASE SlotsWith(j.breakpoints, a) = {}
  BY <1>1, <1>4, SameInStep DEF TableClear, k
<1> QED
  BY <1>3, <1>4

\* An access to the hart that leaves the triggers and the table alone.
LEMMA BypassedInStep ==
    ASSUME Sound(target.jtag), InStep(target.jtag), ~Conflict(target.jtag),
           Bypassed(target.jtag, target'.jtag)
    PROVE  InStep(target'.jtag)
<1> DEFINE j == target.jtag
           k == target'.jtag
<1>1. CASE \E f \in Faults, pc \in Addr : k = WriteDpc(j, pc, f)
  BY <1>1, WriteDpcFrame, SameInStep
<1>2. CASE \E f \in Faults, pc \in Addr : \E m \in {j, JtagHalt(j, f)} :
             LET l == AccessMemory(m, f) IN k \in {l, WriteDpc(l, pc, f)}
  <2>1. PICK f \in Faults, pc \in Addr :
          \E m \in {j, JtagHalt(j, f)} :
            LET l == AccessMemory(m, f) IN k \in {l, WriteDpc(l, pc, f)}
    BY <1>2
  <2>2. PICK m \in {j, JtagHalt(j, f)} :
          LET l == AccessMemory(m, f) IN k \in {l, WriteDpc(l, pc, f)}
    BY <2>1
  <2>3. Sound(m) /\ InStep(m)
    BY JtagHaltSound, HaltInStep
  <2> DEFINE l == AccessMemory(m, f)
  <2>4. Sound(l) /\ InStep(l)
    BY <2>3, AccessMemorySound, AccessMemoryFrame, SameInStep
  <2>5. k \in {l, WriteDpc(l, pc, f)}
    BY <2>2
  <2> HIDE DEF l
  <2> QED
    BY <2>4, <2>5, WriteDpcFrame, SameInStep
<1> QED
  BY <1>1, <1>2 DEF Bypassed

\* ^C to a running hart arms what was set while it ran.
LEMMA InterruptInStep ==
    ASSUME HaltWorks, CsrWorks, IInv, HartInv, ReachesRunningHart, ~Conflict(target.jtag)
    PROVE  InStep(target'.jtag)
<1> DEFINE j == target.jtag
           k == target'.jtag
<1>1. /\ Sound(j) /\ TargetSound(target) /\ OnJtag(target)
      /\ j.initialized /\ ~j.halted /\ j.tunnel_ready
  BY DEF IInv, TargetSound, HartInv, ReachesRunningHart
<1>2. PICK f \in Faults : Refresh(TargetHalt(target, f), s_current_tid)
  BY DEF ReachesRunningHart, HandleInterrupt
<1>3. /\ TargetSound(TargetHalt(target, f))
      /\ TargetHalt(target, f).jtag = JtagHalt(j, f)
  BY <1>1, TargetHaltSound, DispatchJtag DEF TargetHalt
<1>4. k = JtagHalt(j, f)
  BY <1>2, <1>3, RefreshJtag
<1>5. HaltAcks(j, f) /\ ("csr" \in f => "late" \in f)
  BY <1>1 DEF HaltWorks, CsrWorks, HaltAcks, Reaches
<1>6. /\ k.breakpoints = j.breakpoints
      /\ Active(j.breakpoints) # {} => k.trigger = Armings(j)
  BY <1>1, <1>4, <1>5, JtagHaltFrame
<1>7. Active(j.breakpoints) = {} => InStep(k)
  BY <1>6 DEF InStep
<1> QED
  BY <1>6, <1>7, ArmingsInStep

\* When the hart can be halted and a CSR write to a halted hart lands, the
\* triggers follow the table, and ^C to a running hart brings them in step:
\* whatever else fails, for any number of slots and of triggers, only a
\* breakpoint set while the backend does not hold the hart halted, or two
\* breakpoints on one trigger, can leave a breakpoint unarmed.
THEOREM BreakpointsStayArmed ==
    ASSUME HaltWorks, CsrWorks
    PROVE  Spec => ArmedInStep
<1> DEFINE InStepKept ==
      InStep(target.jtag) \/ ReachesRunningHart =>
        \/ InStep(target.jtag)' \/ Conflict(target.jtag) \/ Conflict(target.jtag)'
        \/ HandleBreakpointSet /\ ~target.jtag.halted
<1>1. IInv /\ HartInv /\ [Next]_vars => [InStepKept]_vars
  <2> SUFFICES ASSUME IInv, HartInv, Next, InStep(target.jtag) \/ ReachesRunningHart,
                      ~Conflict(target.jtag), ~Conflict(target'.jtag),
                      ~(HandleBreakpointSet /\ ~target.jtag.halted)
               PROVE  InStep(target'.jtag)
    OBVIOUS
  <2> DEFINE j == target.jtag
             k == target'.jtag
  <2>1. Sound(j)
    BY DEF IInv, TargetSound
  <2>2. CASE ReachesRunningHart
    BY <2>2, InterruptInStep
  <2>3. CASE InStep(j)
    <3>1. CASE Called(j, k)
      <4>1. CASE Plain(j, k) \/ k = JtagWriteScratch(j)
        BY <2>1, <2>3, <4>1, WriteScratchFrame, SameInStep DEF Plain
      <4>2. CASE HandleBreakpointSet /\ \E f \in Faults, a \in Addr : k = JtagSetBreakpoint(j, a, f)
        <5>1. \A f \in Faults : Lands(j, f)
          BY <4>2 DEF CsrWorks, Lands
        <5> QED
          BY <2>1, <2>3, <4>2, <5>1, SetInStep
      <4>3. CASE \E f \in Faults, a \in Addr : k = JtagClearBreakpoint(j, a, f)
        BY <2>1, <2>3, <4>3, ClearInStep
      <4>4. CASE \E f \in Faults : k = JtagResume(j, f)
        BY <2>1, <2>3, <4>4, ResumeFrame, SameInStep
      <4>5. CASE \E f \in Faults : k = JtagResume(JtagClearAllBreakpoints(j, f), f)
        BY <2>1, <4>5, DetachFrame, EmptyInStep
      <4>6. CASE \E f \in Faults : k = JtagHalt(j, f)
        BY <2>1, <2>3, <4>6, HaltInStep
      <4>7. CASE \E f \in Faults : JtagHit(j, f) /\ k = JtagHalt(JtagCheckBreakpoints(j, f), f)
        <5>1. PICK f \in Faults : JtagHit(j, f) /\ k = JtagHalt(JtagCheckBreakpoints(j, f), f)
          BY <4>7
        <5> DEFINE m == JtagCheckBreakpoints(j, f)
        <5>2. m.halted /\ m.trigger = j.trigger /\ m.breakpoints = j.breakpoints
          BY <2>1, <5>1, CheckBreakpointsFrame
        <5>3. k = m
          BY <5>1, <5>2 DEF JtagHalt
        <5> HIDE DEF m
        <5> QED
          BY <2>3, <5>2, <5>3, SameInStep
      <4> QED
        BY <3>1, <4>1, <4>2, <4>3, <4>4, <4>5, <4>6, <4>7 DEF Called
    <3>2. CASE Bypassed(j, k)
      BY <2>1, <2>3, <3>2, BypassedInStep
    <3>3. CASE \E f \in Faults :
                 k = JtagHalt(JtagInit(IF OnJtag(target) THEN Left(j, f) ELSE j, f), f)
      BY <2>1, <3>3, LeftSound, SwitchedFrame, EmptyInStep
    <3>4. CASE \E f \in Faults : k = IF OnJtag(target) THEN Left(j, f) ELSE j
      BY <2>1, <2>3, <3>4, LeftFrame, EmptyInStep
    <3>5. CASE k = j
      BY <2>3, <3>5
    <3>6. CASE Environment \/ GdbSide
      <4>1. k.trigger = j.trigger /\ k.breakpoints = j.breakpoints
        BY <2>1, <3>6, OutsideOnHart DEF HartStops, HartExecutes, Sound, JtagState
      <4> QED
        BY <2>3, <4>1, SameInStep
    <3> QED
      BY <3>1, <3>2, <3>3, <3>4, <3>5, <3>6, ServerOnHart DEF Next
  <2> QED
    BY <2>2, <2>3
<1> QED
  BY <1>1, HartInvariance, PTL DEF Spec, ArmedInStep

---------------------------------------------------------------------------
(* The program's s0 and s1, when the registers of a halted hart can be     *)
(* read and written.                                                       *)

\* A copy exists exactly while the backend holds the hart halted, and is the
\* program's whenever the hart still has the program's values.
ScratchSound(j) ==
    /\ j.halted <=> j.regs_saved
    /\ j.regs_saved /\ j.s0 = "own" => j.saved_s0 = "own"

SafeStep(j, k) ==
    ScratchSound(j) => ScratchSound(k) /\ (ScratchSafe(j) => ScratchSafe(k))

LEMMA SafeTransitive ==
    ASSUME NEW j, NEW k, NEW m, SafeStep(j, k), SafeStep(k, m)
    PROVE  SafeStep(j, m)
BY DEF SafeStep

\* What a guarded call overwrites has been saved.
LEMMA GuardedSafe ==
    ASSUME NEW j, NEW k, Sound(j), Guarded(j, k)
    PROVE  SafeStep(j, k)
BY DEF SafeStep, ScratchSound, ScratchSafe, Guarded, Access, Sound, JtagState, Scratch

LEMMA MarkHaltedSafe ==
    ASSUME NEW j, NEW f, Sound(j), ~j.halted, j.hart_halted, j.tunnel_ready, "gpr" \notin f
    PROVE  SafeStep(j, MarkHalted(j, f))
<1> DEFINE at == [j EXCEPT !.halted = TRUE]
           k  == [at EXCEPT !.saved_s0 = j.s0, !.regs_saved = TRUE]
<1>1. ASSUME ~j.regs_saved PROVE MarkHalted(j, f) = k
  BY <1>1 DEF MarkHalted, SaveScratch, OnHart, Reaches, Sound, JtagState
<1>2. k.halted /\ k.regs_saved /\ k.saved_s0 = j.s0 /\ k.s0 = j.s0
  BY DEF Sound, JtagState
<1> HIDE DEF k
<1> QED
  BY <1>1, <1>2 DEF SafeStep, ScratchSound, ScratchSafe

LEMMA HaltSafe ==
    ASSUME NEW j, NEW f, Sound(j), "gpr" \notin f
    PROVE  SafeStep(j, JtagHalt(j, f))
<1> DEFINE d == DmHalt(j, f)
           m == MarkHalted(d, f)
           k == ArmTriggers(m, f)
<1>1. Sound(d) /\ SafeStep(j, d) /\ d.halted = j.halted
  BY DmHaltSound, DmHaltFrame DEF SafeStep, ScratchSound, ScratchSafe
<1>2. HaltAcks(j, f) => d.hart_halted /\ d.tunnel_ready /\ d.initialized = j.initialized
  BY DmHaltStops
<1>3. JtagHalt(j, f) = IF ~j.initialized \/ j.halted THEN j
                       ELSE IF ~HaltAcks(j, f) THEN d ELSE k
  BY DEF JtagHalt
<1>4. SafeStep(j, j)
  BY DEF SafeStep
<1> HIDE DEF d
<1>5. ASSUME j.initialized, ~j.halted, HaltAcks(j, f) PROVE SafeStep(j, k)
  <2>1. SafeStep(d, m) /\ Sound(m) /\ m.halted
    BY <1>1, <1>2, <1>5, MarkHaltedSafe, MarkHaltedSound, MarkHaltedFrame
  <2> HIDE DEF m
  <2>2. SafeStep(m, k)
    BY <2>1, ArmTriggersFrame, GuardedSafe
  <2> QED
    BY <1>1, <2>1, <2>2, SafeTransitive
<1> HIDE DEF k
<1> QED
  BY <1>1, <1>3, <1>4, <1>5

LEMMA CheckBreakpointsSafe ==
    ASSUME NEW j, NEW f, Sound(j), JtagHit(j, f), "gpr" \notin f
    PROVE  SafeStep(j, JtagCheckBreakpoints(j, f))
<1> DEFINE m == MarkHalted(j, f)
<1>1. j.hart_halted /\ j.initialized /\ j.tunnel_ready /\ ~j.halted
  BY DEF JtagHit, DmIsHalted, OnHart, Reaches
<1>2. Sound(m) /\ m.halted /\ SafeStep(j, m)
  BY <1>1, MarkHaltedSound, MarkHaltedFrame, MarkHaltedSafe
<1> HIDE DEF m
<1>3. SafeStep(m, AccessCsr(m, f))
  BY <1>2, AccessCsrFrame, GuardedSafe DEF Guarded
<1> QED
  BY <1>2, <1>3, SafeTransitive DEF JtagCheckBreakpoints, m

\* A resume gives the program its values back, whether or not the hart runs.
LEMMA ResumeSafe ==
    ASSUME NEW j, NEW f, Sound(j), "gpr" \notin f
    PROVE  SafeStep(j, JtagResume(j, f))
<1> DEFINE r == RestoreScratch(j, f)
           k == [DmResume(r, f) EXCEPT !.halted = FALSE, !.regs_saved = FALSE]
<1>1. CASE ~j.halted
  BY <1>1 DEF JtagResume, SafeStep
<1>2. CASE j.halted
  <2>1. JtagResume(j, f) = k
    BY <1>2 DEF JtagResume, Sound, HaltFlagSound
  <2>2. Affects(j, "gpr", f)
    BY <1>2 DEF Affects, Sound, HaltFlagSound
  <2>3. ASSUME j.regs_saved PROVE r = [j EXCEPT !.s0 = j.saved_s0, !.regs_saved = FALSE]
    <3>1. ("gpr" \in f) = FALSE
      OBVIOUS
    <3> QED
      BY <2>2, <2>3, <3>1, Zenon DEF RestoreScratch
  <2>4. ASSUME j.regs_saved PROVE r.s0 = j.saved_s0 /\ Sound(r)
    BY <2>3, <2>4, RestoreScratchSound DEF Sound, JtagState
  <2> HIDE DEF r
  <2>5. ASSUME j.regs_saved PROVE k.s0 = j.saved_s0 /\ ~k.halted /\ ~k.regs_saved
    BY <2>4, <2>5 DEF DmResume, Sound, JtagState
  <2> HIDE DEF k
  <2> QED
    BY <1>2, <2>1, <2>5 DEF SafeStep, ScratchSound, ScratchSafe
<1> QED
  BY <1>1, <1>2

LEMMA WriteScratchSafe ==
    ASSUME NEW j, Sound(j)
    PROVE  SafeStep(j, JtagWriteScratch(j))
BY DEF JtagWriteScratch, SafeStep, ScratchSound, ScratchSafe, Sound, JtagState

LEMMA LeftSafe ==
    ASSUME NEW j, NEW f, Sound(j), "gpr" \notin f
    PROVE  SafeStep(j, Left(j, f))
<1> DEFINE m == IF JtagIsHalted(j, f) THEN j ELSE JtagHalt(j, f)
<1>1. Sound(m) /\ SafeStep(j, m)
  BY JtagHaltSound, HaltSafe DEF SafeStep
<1> HIDE DEF m
<1>2. SafeStep(m, JtagClearAllBreakpoints(m, f))
  BY <1>1, ClearAllFrame, GuardedSafe
<1> QED
  BY <1>1, <1>2, SafeTransitive DEF Left, m

\* After `monitor target jtag' a copy exists if the hart was halted.
LEMMA JtagInitScratch ==
    ASSUME NEW j, NEW f, Sound(j), "gpr" \notin f
    PROVE  ScratchSound(JtagInit(j, f))
<1> DEFINE blank == [j EXCEPT !.halted = FALSE, !.initialized = FALSE,
                              !.regs_saved = FALSE, !.breakpoints = EmptyTable]
           fresh == [blank EXCEPT !.tunnel_ready = TRUE, !.haltreq = @ /\ "init" \in f]
           ready == [fresh EXCEPT !.initialized = TRUE]
           d     == DmHalt(ready, f)
           m     == MarkHalted(d, f)
<1>1. NoDuplicates(EmptyTable)
  BY DEF NoDuplicates, EmptyTable
<1>2. Sound(blank) /\ ~blank.halted /\ ~blank.regs_saved
  BY <1>1, EmptyTableType DEF Sound, JtagState, HaltFlagSound
<1> HIDE DEF blank
<1>3. Sound(fresh) /\ ~fresh.halted /\ ~fresh.regs_saved
  BY <1>2 DEF Sound, JtagState, HaltFlagSound
<1> HIDE DEF fresh
<1>4. Sound(ready) /\ ~ready.halted /\ ~ready.regs_saved
  BY <1>3 DEF Sound, JtagState, HaltFlagSound
<1> HIDE DEF ready
<1>5. Sound(d) /\ ~d.halted /\ ~d.regs_saved
      /\ (HaltAcks(ready, f) => d.hart_halted /\ d.tunnel_ready)
  BY <1>4, DmHaltSound, DmHaltFrame, DmHaltStops
<1>6. JtagInit(j, f) = IF "ecp5" \in f THEN blank
                       ELSE IF "init" \in f THEN fresh
                       ELSE IF ~HaltAcks(ready, f) THEN d ELSE m
  BY DEF JtagInit, blank, fresh, ready
<1> HIDE DEF d
<1>7. HaltAcks(ready, f) => ScratchSound(m)
  BY <1>5, MarkHaltedSafe DEF SafeStep, ScratchSound
<1> HIDE DEF m
<1> QED
  BY <1>2, <1>3, <1>5, <1>6, <1>7 DEF ScratchSound

LEMMA CalledSafe ==
    ASSUME GprWorks, Sound(target.jtag), Called(target.jtag, target'.jtag)
    PROVE  SafeStep(target.jtag, target'.jtag)
<1> DEFINE j == target.jtag
           k == target'.jtag
<1>1. CASE Plain(j, k) \/ k = JtagWriteScratch(j)
  BY <1>1, GuardedSafe, WriteScratchSafe DEF Plain
<1>2. CASE \E f \in Faults, a \in Addr :
             k = JtagSetBreakpoint(j, a, f) \/ k = JtagClearBreakpoint(j, a, f)
  BY <1>2, SetBreakpointFrame, ClearBreakpointFrame, GuardedSafe
<1>3. CASE \E f \in Faults : k = JtagResume(j, f)
  BY <1>3, ResumeSafe DEF GprWorks
<1>4. CASE \E f \in Faults : k = JtagResume(JtagClearAllBreakpoints(j, f), f)
  <2>1. PICK f \in Faults : k = JtagResume(JtagClearAllBreakpoints(j, f), f)
    BY <1>4
  <2> DEFINE m == JtagClearAllBreakpoints(j, f)
  <2>2. Sound(m) /\ SafeStep(j, m)
    BY JtagClearAllBreakpointsSound, ClearAllFrame, GuardedSafe
  <2>3. k = JtagResume(m, f)
    BY <2>1
  <2> HIDE DEF m
  <2> QED
    BY <2>2, <2>3, ResumeSafe, SafeTransitive DEF GprWorks
<1>5. CASE \E f \in Faults : k = JtagHalt(j, f)
  BY <1>5, HaltSafe DEF GprWorks
<1>6. CASE \E f \in Faults : JtagHit(j, f) /\ k = JtagHalt(JtagCheckBreakpoints(j, f), f)
  <2>1. PICK f \in Faults : JtagHit(j, f) /\ k = JtagHalt(JtagCheckBreakpoints(j, f), f)
    BY <1>6
  <2> DEFINE m == JtagCheckBreakpoints(j, f)
  <2>2. Sound(m) /\ SafeStep(j, m)
    BY <2>1, JtagCheckBreakpointsSound, CheckBreakpointsSafe DEF GprWorks
  <2>3. k = JtagHalt(m, f)
    BY <2>1
  <2> HIDE DEF m
  <2> QED
    BY <2>2, <2>3, HaltSafe, SafeTransitive DEF GprWorks
<1> QED
  BY <1>1, <1>2, <1>3, <1>4, <1>5, <1>6 DEF Called

LEMMA BypassedScratch ==
    ASSUME GprWorks, Sound(target.jtag), ScratchSound(target.jtag),
           Bypassed(target.jtag, target'.jtag)
    PROVE  /\ ScratchSound(target'.jtag)
           /\ target.jtag.halted /\ ScratchSafe(target.jtag) => ScratchSafe(target'.jtag)
<1> DEFINE j == target.jtag
           k == target'.jtag
<1>1. ASSUME NEW m, Sound(m), ScratchSound(m), Access(m, k),
             j.halted => SafeStep(j, m) /\ m.halted
      PROVE  ScratchSound(k) /\ (j.halted /\ ScratchSafe(j) => ScratchSafe(k))
  <2>1. ScratchSound(k)
    BY <1>1 DEF ScratchSound, Access, Sound, JtagState, Scratch
  <2>2. ASSUME j.halted PROVE SafeStep(j, k)
    BY <1>1, <2>2, GuardedSafe, SafeTransitive DEF Guarded
  <2> QED
    BY <2>1, <2>2 DEF SafeStep
<1>2. CASE \E f \in Faults, pc \in Addr : k = WriteDpc(j, pc, f)
  BY <1>1, <1>2, WriteDpcFrame DEF SafeStep
<1>3. CASE \E f \in Faults, pc \in Addr : \E m \in {j, JtagHalt(j, f)} :
             LET l == AccessMemory(m, f) IN k \in {l, WriteDpc(l, pc, f)}
  <2>1. PICK f \in Faults, pc \in Addr :
          \E m \in {j, JtagHalt(j, f)} :
            LET l == AccessMemory(m, f) IN k \in {l, WriteDpc(l, pc, f)}
    BY <1>3
  <2>2. PICK m \in {j, JtagHalt(j, f)} :
          LET l == AccessMemory(m, f) IN k \in {l, WriteDpc(l, pc, f)}
    BY <2>1
  <2>3. Sound(m) /\ SafeStep(j, m) /\ (j.halted => m.halted)
    BY JtagHaltSound, HaltSafe DEF SafeStep, GprWorks, JtagHalt
  <2> DEFINE l == AccessMemory(m, f)
  <2>4. Sound(l) /\ Access(m, l)
    BY <2>3, AccessMemorySound, AccessMemoryFrame
  <2>5. k \in {l, WriteDpc(l, pc, f)}
    BY <2>2
  <2> HIDE DEF l
  <2>6. Access(l, l)
    BY DEF Access
  <2>7. Access(l, k)
    BY <2>4, <2>5, <2>6, WriteDpcFrame
  <2>8. Access(m, k)
    BY <2>4, <2>7 DEF Access
  <2>9. ScratchSound(m)
    BY <2>3 DEF SafeStep
  <2> QED
    BY <1>1, <2>3, <2>8, <2>9
<1> QED
  BY <1>2, <1>3 DEF Bypassed

LEMMA ScratchStep ==
    ASSUME GprWorks, IInv, ScratchSound(target.jtag), Next
    PROVE  /\ ScratchSound(target'.jtag)
           /\ ScratchSafe(target.jtag) =>
                \/ ScratchSafe(target'.jtag) \/ HandleTargetJtag
                \/ (HandleStep \/ HandleRiscvLoad) /\ ~target.jtag.halted
<1> DEFINE j == target.jtag
           k == target'.jtag
<1>1. Sound(j)
  BY DEF IInv, TargetSound
<1>2. ASSUME SafeStep(j, k)
      PROVE  ScratchSound(k) /\ (ScratchSafe(j) => ScratchSafe(k))
  BY <1>2 DEF SafeStep
<1>3. CASE Called(j, k)
  BY <1>1, <1>2, <1>3, CalledSafe
<1>4. CASE Bypassed(j, k)
  BY <1>1, <1>4, BypassedScratch DEF Bypassed
<1>5. CASE /\ HandleTargetJtag
           /\ \E f \in Faults :
                k = JtagHalt(JtagInit(IF OnJtag(target) THEN Left(j, f) ELSE j, f), f)
  <2>1. PICK f \in Faults : \E m : Sound(m) /\ k = JtagHalt(JtagInit(m, f), f)
    BY <1>1, <1>5, LeftSound
  <2>2. PICK m : Sound(m) /\ k = JtagHalt(JtagInit(m, f), f)
    BY <2>1
  <2>3. Sound(JtagInit(m, f)) /\ ScratchSound(JtagInit(m, f))
    BY <2>2, JtagInitSound, JtagInitScratch DEF GprWorks
  <2>4. ScratchSound(k)
    BY <2>2, <2>3, HaltSafe DEF SafeStep, GprWorks
  <2> QED
    BY <1>5, <2>4
<1>6. CASE \E f \in Faults : k = IF OnJtag(target) THEN Left(j, f) ELSE j
  <2>1. SafeStep(j, k)
    BY <1>1, <1>6, LeftSafe DEF SafeStep, GprWorks
  <2> QED
    BY <1>2, <2>1
<1>7. CASE k = j
  BY <1>7
<1>8. CASE Environment \/ GdbSide
  <2>1. \/ k = j \/ k = HartStops(j)
        \/ ~j.hart_halted /\ \E pc \in Addr : k = HartExecutes(j, pc)
    BY <1>8, OutsideOnHart
  <2>2. ~j.hart_halted => ~j.regs_saved
    BY <1>1 DEF Sound, HaltFlagSound, ScratchSound
  <2>3. SafeStep(j, k)
    BY <1>1, <2>1, <2>2
    DEF HartStops, HartExecutes, SafeStep, ScratchSound, ScratchSafe, Sound, JtagState
  <2> QED
    BY <1>2, <2>3
<1> QED
  BY <1>3, <1>4, <1>5, <1>6, <1>7, <1>8, ServerOnHart DEF Next

LEMMA ScratchInvariance ==
    ASSUME GprWorks
    PROVE  Spec => [](IInv /\ ScratchSound(target.jtag))
<1>1. Init => ScratchSound(target.jtag)
  BY DEF Init, ScratchSound, JtagBoot
<1>2. IInv /\ ScratchSound(target.jtag) /\ [Next]_vars => ScratchSound(target.jtag)'
  <2> SUFFICES ASSUME IInv, ScratchSound(target.jtag), [Next]_vars
               PROVE  ScratchSound(target'.jtag)
    OBVIOUS
  <2>1. CASE Next
    BY <2>1, ScratchStep
  <2>2. CASE UNCHANGED vars
    BY <2>2 DEF vars
  <2> QED
    BY <2>1, <2>2
<1> QED
  BY <1>1, <1>2, Invariance, PTL DEF Spec

\* While the backend holds the hart halted it has a copy of s0 and s1, whenever
\* it can read them, whatever else fails.
THEOREM HaltedHartIsSaved ==
    ASSUME GprWorks
    PROVE  Spec => []HaltedMeansSaved
<1>1. IInv /\ ScratchSound(target.jtag) => HaltedMeansSaved
  BY DEF ScratchSound, HaltedMeansSaved
<1> QED
  BY <1>1, ScratchInvariance, PTL

\* The program's s0 and s1 can always be put back, until `monitor target jtag'
\* forgets the copies or `s' or riscv_load reaches a hart whose stop the backend
\* has not noticed: whatever fails, as long as s0 and s1 can be read and written
\* on a halted hart.
THEOREM ScratchRegistersSurvive ==
    ASSUME GprWorks
    PROVE  Spec => ScratchKept
<1> DEFINE Surviving ==
      ScratchSafe(target.jtag) =>
        \/ ScratchSafe(target.jtag)' \/ HandleTargetJtag
        \/ (HandleStep \/ HandleRiscvLoad) /\ ~target.jtag.halted
<1>1. (IInv /\ ScratchSound(target.jtag)) /\ [Next]_vars => [Surviving]_vars
  BY ScratchStep
<1> QED
  BY <1>1, ScratchInvariance, PTL DEF Spec, ScratchKept

---------------------------------------------------------------------------
(* The active backend, as a debugger knows it: halted or not.              *)

ActiveIn(tg) == IF OnJtag(tg) THEN tg.jtag.hart_halted ELSE tg.local.halted

LEMMA DispatchLocal ==
    ASSUME NEW tg, TargetSound(tg), NEW j, NEW l
    PROVE  Dispatch(tg, j, l).local = IF OnJtag(tg) THEN tg.local ELSE l
BY DEF Dispatch, TargetSound, TargetState

\* The local backend's calls that do not resume the tasks.
LEMMA LocalStaysHalted ==
    ASSUME NEW l, LocalSound(l)
    PROVE  /\ LocalHalt(l).halted
           /\ \A order : LocalGetThreads(l, order).halted = l.halted
           /\ \A tid, pc : LocalWritePc(l, tid, pc).halted = l.halted
           /\ \A a : LocalSetBreakpoint(l, a).halted = l.halted
           /\ \A a : LocalClearBreakpoint(l, a).halted = l.halted
BY DEF LocalSound, LocalState, LocalHalt, LocalGetThreads, LocalWritePc,
       LocalSetBreakpoint, LocalClearBreakpoint

\* A halt of the active backend.
LEMMA HaltHalts ==
    ASSUME HaltWorks, NEW f \in Faults, NEW tg, TargetSound(tg),
           OnJtag(tg) => tg.jtag.initialized /\ tg.jtag.tunnel_ready
    PROVE  LET end == TargetHalt(tg, f) IN TargetSound(end) /\ ActiveIn(end)
<1> DEFINE end == TargetHalt(tg, f)
<1>1. /\ TargetSound(end) /\ end.ops = tg.ops
      /\ end.jtag = IF OnJtag(tg) THEN JtagHalt(tg.jtag, f) ELSE tg.jtag
      /\ end.local = IF OnJtag(tg) THEN tg.local ELSE LocalHalt(tg.local)
  BY TargetHaltSound, DispatchJtag, DispatchLocal DEF TargetHalt
<1> HIDE DEF end
<1>2. OnJtag(tg) => JtagHalt(tg.jtag, f).hart_halted
  BY JtagHaltStops DEF TargetSound, HaltWorks
<1>3. LocalHalt(tg.local).halted
  BY LocalStaysHalted DEF TargetSound
<1>4. TargetSound(end) /\ ActiveIn(end)
  BY <1>1, <1>2, <1>3 DEF ActiveIn, OnJtag
<1> QED
  BY <1>4 DEF end

LEMMA RefreshActive ==
    ASSUME NEW tg, NEW tid, TargetSound(tg), Refresh(tg, tid)
    PROVE  target'.ops = tg.ops /\ (ActiveHalted' <=> ActiveIn(tg))
<1>1. PICK order : target' = TargetGetThreads(tg, order)
  BY DEF Refresh
<1>2. target'.ops = tg.ops /\ target'.jtag = tg.jtag
  BY RefreshJtag
<1>3. target'.local.halted = tg.local.halted
  BY <1>1, DispatchLocal, LocalStaysHalted DEF TargetGetThreads, TargetSound
<1> QED
  BY <1>2, <1>3 DEF ActiveHalted, ActiveIn, OnJtag

\* A ^C, and an attach while the server believes the target runs.
LEMMA InterruptHalts ==
    ASSUME HaltWorks, IInv, HartInv, Connected,
           HandleInterrupt \/ (HandleHaltReason /\ s_running)
    PROVE  ActiveHalted'
<1>1. PICK f \in Faults : \E tid : Refresh(TargetHalt(target, f), tid)
  BY DEF HandleInterrupt, HandleHaltReason
<1>2. TargetSound(TargetHalt(target, f)) /\ ActiveIn(TargetHalt(target, f))
  BY HaltHalts DEF IInv, HartInv, Connected
<1> QED
  BY <1>1, <1>2, RefreshActive

\* A reported hit.
LEMMA PollHalts ==
    ASSUME HaltWorks, IInv, HartInv, Connected, Poll
    PROVE  ActiveHalted'
<1> DEFINE j == target.jtag
<1>1. PICK f \in Faults :
        /\ TargetHit(target, f)
        /\ \E tid : Refresh(TargetHalt(TargetCheckBreakpoints(target, f), f), tid)
  BY DEF Poll
<1> DEFINE hit == TargetCheckBreakpoints(target, f)
<1>2. /\ TargetSound(hit) /\ hit.ops = target.ops
      /\ hit.jtag = IF OnJtag(target) THEN JtagCheckBreakpoints(j, f) ELSE j
  BY <1>1, TargetCheckBreakpointsSound, DispatchJtag DEF TargetCheckBreakpoints, IInv
<1> HIDE DEF hit
<1>3. OnJtag(hit) => hit.jtag.initialized /\ hit.jtag.tunnel_ready
  <2> SUFFICES ASSUME OnJtag(target)
               PROVE  hit.jtag.initialized /\ hit.jtag.tunnel_ready
    BY <1>2 DEF OnJtag
  <2>1. Sound(j) /\ JtagHit(j, f) /\ j.initialized /\ j.tunnel_ready
    BY <1>1 DEF IInv, TargetSound, TargetHit, Connected, HartInv
  <2> QED
    BY <1>2, <2>1, CheckBreakpointsFrame DEF Steady
<1>4. TargetSound(TargetHalt(hit, f)) /\ ActiveIn(TargetHalt(hit, f))
  BY <1>2, <1>3, HaltHalts
<1> QED
  BY <1>1, <1>4, RefreshActive DEF hit

LEMMA SwitchedLocal ==
    ASSUME IInv, NEW f
    PROVE  TargetSound(Switched("local", f)) /\ Switched("local", f).ops = "local"
<1> DEFINE tg == TargetSetBackend(target, "local", f)
<1>1. "local" \in Backend
  BY DEF Backend
<1>2. TargetSound(tg) /\ tg.ops = "local"
  BY <1>1, TargetSetBackendSound, SetBackendKept DEF IInv
<1> HIDE DEF tg
<1>3. LocalSound(LocalExclude(tg.local, Srv))
  BY <1>2, LocalExcludeSound DEF TargetSound, Task
<1>4. Switched("local", f) = [tg EXCEPT !.local = LocalExclude(tg.local, Srv)]
  BY DEF Switched, tg
<1> QED
  BY <1>2, <1>3, <1>4 DEF TargetSound, TargetState, LocalSound

\* `monitor target' ends with the new backend halted.
LEMMA SwitchHalts ==
    ASSUME HaltWorks, InitWorks, IInv, HandleTargetLocal \/ HandleTargetJtag
    PROVE  ActiveHalted'
<1> DEFINE j == target.jtag
           k == target'.jtag
<1>1. CASE HandleTargetJtag
  <2>1. /\ OnJtag(target')
        /\ \E f \in Faults :
             k = JtagHalt(JtagInit(IF OnJtag(target) THEN Left(j, f) ELSE j, f), f)
    <3>1. Switch("jtag") /\ "jtag" \in Backend
      BY <1>1 DEF HandleTargetJtag, Backend
    <3> QED
      BY <3>1, SwitchOnHart DEF OnJtag
  <2>0. PICK f \in Faults : k = JtagHalt(JtagInit(IF OnJtag(target) THEN Left(j, f) ELSE j, f), f)
    BY <2>1
  <2>2. PICK m : Sound(m) /\ k = JtagHalt(JtagInit(m, f), f)
    BY <2>0, LeftSound DEF IInv, TargetSound
  <2>3. /\ Sound(JtagInit(m, f)) /\ JtagInit(m, f).initialized
        /\ JtagInit(m, f).tunnel_ready
    BY <2>2, JtagInitSound, JtagInitFrame DEF InitWorks
  <2>4. k.hart_halted
    BY <2>2, <2>3, JtagHaltStops DEF HaltWorks
  <2> QED
    BY <2>1, <2>4 DEF ActiveHalted
<1>2. CASE HandleTargetLocal
  <2>1. PICK f \in Faults : \E order \in ThreadOrders(Switched("local", f)) :
          target' = TargetHalt(TargetGetThreads(Switched("local", f), order), f)
    BY <1>2 DEF HandleTargetLocal, Switch
  <2> DEFINE sw == Switched("local", f)
  <2>2. TargetSound(sw) /\ sw.ops = "local"
    BY SwitchedLocal
  <2>3. PICK order \in ThreadOrders(sw) : target' = TargetHalt(TargetGetThreads(sw, order), f)
    BY <2>1
  <2> HIDE DEF sw
  <2>4. /\ TargetSound(TargetGetThreads(sw, order))
        /\ TargetGetThreads(sw, order).ops = "local"
    BY <2>2, OrderSound, DispatchJtag DEF TargetGetThreads
  <2>5. ActiveIn(target')
    BY <2>3, <2>4, HaltHalts DEF OnJtag
  <2> QED
    BY <2>5 DEF ActiveIn, ActiveHalted
<1> QED
  BY <1>1, <1>2

\* The handlers that neither halt nor resume, and riscv_load.
Quiet ==
    \/ HandleReadRegisters \/ HandleWriteScratch \/ HandleWritePc \/ HandleMemory
    \/ HandleBreakpointSet \/ HandleBreakpointClear \/ HandleStep \/ HandleSetThread
    \/ HandleThreadInfo \/ HandleRiscvLoad

LEMMA QuietLocal ==
    ASSUME IInv, Quiet, target.local.halted
    PROVE  target'.local.halted
<1>1. TargetSound(target) /\ LocalSound(target.local)
  BY DEF IInv, TargetSound
<1>2. CASE HandleReadRegisters \/ HandleWriteScratch \/ HandleWritePc \/ HandleMemory
           \/ HandleBreakpointSet \/ HandleBreakpointClear
  BY <1>1, <1>2, DispatchLocal, LocalStaysHalted
  DEF HandleReadRegisters, HandleWriteScratch, HandleWritePc, HandleMemory,
      HandleBreakpointSet, HandleBreakpointClear, TargetReadRegisters, TargetWriteScratch,
      TargetWritePc, TargetMemory, TargetSetBreakpoint, TargetClearBreakpoint
<1>3. CASE HandleSetThread \/ HandleThreadInfo
  BY <1>1, <1>3, DispatchLocal, LocalStaysHalted
  DEF HandleSetThread, HandleThreadInfo, Refresh, TargetGetThreads
<1>4. CASE HandleStep
  BY <1>1, <1>4 DEF HandleStep, TargetSound, TargetState
<1>5. CASE HandleRiscvLoad
  <2>1. PICK f \in Faults : \E j : target' = [TargetHalt(target, f) EXCEPT !.jtag = j]
    BY <1>5 DEF HandleRiscvLoad
  <2>2. TargetSound(TargetHalt(target, f)) /\ TargetHalt(target, f).local.halted
    BY <1>1, TargetHaltSound, DispatchLocal, LocalStaysHalted DEF TargetHalt
  <2> QED
    BY <2>1, <2>2 DEF TargetSound, TargetState
<1> QED
  BY <1>2, <1>3, <1>4, <1>5 DEF Quiet

\* What is halted stays halted while GDB looks at it.
LEMMA QuietKeepsHalted ==
    ASSUME IInv, Quiet, ActiveHalted
    PROVE  ActiveHalted' /\ UNCHANGED s_running
<1> DEFINE j == target.jtag
           k == target'.jtag
<1>1. Sound(j) /\ Handle
  BY DEF IInv, TargetSound, Quiet, Handle
<1>2. /\ UNCHANGED s_running
      /\ ~Receive("c") /\ ~Receive("D") /\ ~Receive("target jtag") /\ ~Receive("target local")
  BY DEF Quiet, HandleReadRegisters, HandleWriteScratch, HandleWritePc, HandleMemory,
         HandleBreakpointSet, HandleBreakpointClear, HandleStep, HandleSetThread,
         HandleThreadInfo, HandleRiscvLoad, Unmoved, Receive
<1>3. ~HandleContinue /\ ~HandleDetach /\ ~HandleTargetJtag /\ ~HandleTargetLocal
  BY <1>2 DEF HandleContinue, HandleDetach, HandleTargetJtag, HandleTargetLocal
<1>4. /\ target'.ops = target.ops
      /\ \/ ~OnJtag(target) /\ k = j
         \/ OnJtag(target) /\ Called(j, k)
         \/ Bypassed(j, k)
  BY <1>1, <1>3, ServerOnHart
<1>5. Steady(j, k)
  <2>1. k = j => Steady(j, k)
    BY DEF Steady
  <2> QED
    BY <1>1, <1>3, <1>4, <2>1, CalledSteady, BypassedSteady
<1> QED
  BY <1>2, <1>4, <1>5, QuietLocal DEF ActiveHalted, OnJtag, Steady

\* No task can be at a breakpoint, as at the boot.
Untouched == ~OnJtag(target) /\ \A i \in Slot : target.local.breakpoints[i] = NoAddr

LEMMA UntouchedIsNotHit ==
    ASSUME IInv, Untouched, NEW f
    PROVE  ~TargetHit(target, f)
<1>1. \A t \in Task : target.local.at[t] \in Addr
  BY DEF IInv, TargetSound, LocalSound, LocalState
<1>2. NoAddr \notin Addr
  BY AddrAssumption DEF Addr, NoAddr
<1> QED
  BY <1>1, <1>2 DEF Untouched, TargetHit, LocalHits, Debuggable

\* What is debugged stops by itself, or moves on.
LEMMA EnvironmentMoves ==
    ASSUME IInv, Environment
    PROVE  /\ UNCHANGED <<s_running, gdb, toServer, toGdb>>
           /\ ActiveHalted => ActiveHalted'
           /\ Untouched => Untouched'
<1> DEFINE j == target.jtag
           k == target'.jtag
<1>1. TargetSound(target) /\ Sound(j) /\ LocalSound(target.local)
  BY DEF IInv, TargetSound
<1>2. UNCHANGED <<s_running, gdb, toServer, toGdb>>
  BY DEF Environment, HartMoves, HartHits, HartStopsLate, MainReturns, TaskCreated, TaskMoves,
         ServerIdle
<1>3. target'.ops = target.ops /\ (j.hart_halted => k.hart_halted)
  BY <1>1, OutsideOnHart DEF HartStops, HartExecutes, Sound, JtagState
<1>4. /\ target'.local.halted = target.local.halted
      /\ target'.local.breakpoints = target.local.breakpoints
  <2>1. CASE HartMoves \/ HartHits \/ HartStopsLate
    BY <1>1, <2>1 DEF HartMoves, HartHits, HartStopsLate, TargetSound, TargetState
  <2>2. CASE MainReturns \/ \E t \in AppTasks : TaskCreated(t) \/ TaskMoves(t)
    BY <1>1, <2>2 DEF MainReturns, TaskCreated, TaskMoves, TargetSound, TargetState,
                      LocalSound, LocalState, SetRun, TaskExecutes
  <2> QED
    BY <2>1, <2>2 DEF Environment
<1> QED
  BY <1>2, <1>3, <1>4 DEF ActiveHalted, Untouched, OnJtag

---------------------------------------------------------------------------
(* The conversation.                                                       *)

CtrlC     == [op |-> "intr", arg |-> 0]
AttachAsk == [op |-> "?", arg |-> 0]

\* A ^C that the report of a hit has crossed: to handle it misleads GDB.
Crossed == ~s_running /\ toServer # <<>> /\ Head(toServer).op = "intr"

\* There is one answer at most, its request is gone, and GDB waits for it.
AnswersFit ==
    toGdb # <<>> =>
      /\ toGdb \in {<<"stop">>, <<"answer">>}
      /\ gdb.mode \in {"waiting", "running", "leaving"}
      /\ gdb.mode = "running" => toGdb = <<"stop">>
      /\ ~s_running
      /\ toServer = <<>> \/ Crossed

\* The server polls for a GDB that waits for a stop, or that has yet to attach.
PollsForGdb ==
    s_running =>
      \/ gdb.mode = "running" /\ toServer = <<>>
      \/ gdb.mode = "running" /\ toServer = <<CtrlC>> /\ gdb.interrupting
      \/ Untouched /\ gdb.mode = "detached" /\ toServer = <<>>
      \/ Untouched /\ gdb.mode = "waiting" /\ toServer = <<AttachAsk>>

\* What waits for the server is what GDB waits for.
RequestFits ==
    ~s_running /\ ~Crossed /\ toServer # <<>> =>
      /\ toGdb = <<>>
      /\ \E p \in Packet :
           \/ gdb.mode = "waiting" /\ p.op \notin {"c", "D", "intr"} /\ toServer = <<p>>
           \/ gdb.mode = "leaving" /\ p.op = "D" /\ toServer = <<p>>
           \/ gdb.mode = "running" /\ p.op = "c" /\ toServer = <<p>>
           \/ gdb.mode = "running" /\ p.op = "c" /\ toServer = <<p, CtrlC>> /\ gdb.interrupting

HaltedWhenTold ==
    Phase \in {"stopped", "asking", "resuming", "told", "leaving"} => ActiveHalted

\* The inductive invariant of a session in which nothing has misled GDB yet.
Talk == AnswersFit /\ PollsForGdb /\ RequestFits /\ HaltedWhenTold

\* The steps of the abstract session and its stutters, without the one that misleads.
Same == ActiveHalted' = ActiveHalted
Move(from, to) == Phase = from /\ Phase' = to

Moves ==
    \/ Phase' = Phase /\ Same
    \/ /\ Same
       /\ \/ Move("detached", "attaching") \/ Move("stopped", "asking")
          \/ Move("stopped", "resuming") \/ Move("stopped", "leaving")
          \/ Move("told", "stopped") \/ Move("left", "detached")
          \/ Move("stopped", "detached") \/ Move("asking", "told")
    \/ ActiveHalted' = TRUE /\ (Move("attaching", "told") \/ Move("running", "told"))
    \/ ActiveHalted' \in BOOLEAN /\ (Move("resuming", "running") \/ Move("leaving", "left"))
    \/ /\ Phase \in {"running", "left", "detached", "attaching"}
       /\ ActiveHalted' = TRUE /\ Phase' = Phase

LEMMA MovesSimulate ==
    ASSUME Moves, UNCHANGED misled
    PROVE  [Session!Next]_Session!vars
<1> USE DEF Move, Session!Step
<1> HIDE DEF ActiveHalted, Phase
<1>1. CASE Phase' = Phase /\ Same
  BY <1>1 DEF Same, Session!vars
<1>2. CASE /\ Same
           /\ \/ Move("detached", "attaching") \/ Move("stopped", "asking")
              \/ Move("stopped", "resuming") \/ Move("stopped", "leaving")
  BY <1>2 DEF Same, Session!Next, Session!Request
<1>3. CASE Same /\ (Move("told", "stopped") \/ Move("left", "detached"))
  BY <1>3 DEF Same, Session!Next, Session!Hear
<1>4. CASE Same /\ (Move("stopped", "detached") \/ Move("asking", "told"))
  BY <1>4 DEF Same, Session!Next, Session!Vanish, Session!Answer
<1>5. CASE ActiveHalted' = TRUE /\ (Move("attaching", "told") \/ Move("running", "told"))
  BY <1>5 DEF Session!Next, Session!Stop
<1>6. CASE ActiveHalted' \in BOOLEAN /\ (Move("resuming", "running") \/ Move("leaving", "left"))
  BY <1>6 DEF Session!Next, Session!Resume
<1>7. CASE /\ Phase \in {"running", "left", "detached", "attaching"}
           /\ ActiveHalted' = TRUE /\ Phase' = Phase
  BY <1>7 DEF Session!Next, Session!TargetStops
<1> QED
  BY <1>1, <1>2, <1>3, <1>4, <1>5, <1>6, <1>7 DEF Moves

LEMMA Queues ==
    ASSUME NEW S, NEW p \in S, NEW q \in S
    PROVE  /\ <<p>> # <<>> /\ Len(<<p>>) = 1 /\ Head(<<p>>) = p /\ Tail(<<p>>) = <<>>
           /\ <<p, q>> # <<>> /\ Len(<<p, q>>) = 2
           /\ Head(<<p, q>>) = p /\ Tail(<<p, q>>) = <<q>>
           /\ Append(<<>>, p) = <<p>> /\ Append(<<p>>, q) = <<p, q>>
           /\ <<p>>[1] = p /\ <<p, q>>[2] = q
<1>1. <<p>> # <<>> /\ Len(<<p>>) = 1
  OBVIOUS
<1>11. Head(<<p>>) = p
  OBVIOUS
<1>2. Tail(<<p>>) = <<>>
  OBVIOUS
<1>3. <<p, q>> # <<>> /\ Len(<<p, q>>) = 2 
  OBVIOUS
<1>31. Head(<<p, q>>) = p
  OBVIOUS
<1>4. Tail(<<p, q>>) = <<q>>
  OBVIOUS
<1>5. Append(<<>>, p) = <<p>>
  OBVIOUS
<1>7. <<p>>[1] = p /\ <<p, q>>[2] = q
  OBVIOUS
<1>6. Append(<<p>>, q) = <<p, q>>
  <2>1. <<p>> \in Seq(S) /\ <<p, q>> \in Seq(S)
    OBVIOUS
  <2>2. Append(<<p>>, q) \in Seq(S) /\ Len(Append(<<p>>, q)) = 2
    BY <1>1, <2>1, AppendProperties
  <2>3. Append(<<p>>, q)[1] = p /\ Append(<<p>>, q)[2] = q
    BY <1>1, <1>7, <2>1, AppendProperties
  <2>4. \A i \in 1 .. 2 : i = 1 \/ i = 2
    OBVIOUS
  <2>5. \A i \in 1 .. 2 : Append(<<p>>, q)[i] = <<p, q>>[i]
    BY <1>7, <2>3, <2>4
  <2> DEFINE a == Append(<<p>>, q)
             b == <<p, q>>
  <2>6. a \in Seq(S) /\ b \in Seq(S) /\ Len(a) = Len(b) /\ \A i \in 1 .. Len(a) : a[i] = b[i]
    BY <1>3, <2>1, <2>2, <2>5
  <2> HIDE DEF a, b
  <2>7. a = b
    BY <2>6, SeqEqual
  <2> QED
    BY <2>7 DEF a, b
<1> QED
  BY <1>1, <1>11, <1>2, <1>3, <1>31, <1>4, <1>5, <1>6, <1>7

LEMMA Packets == CtrlC \in Packet /\ AttachAsk \in Packet
BY PlainPackets DEF CtrlC, AttachAsk

\* What the server finds at the head of its queue, when that does not mislead.
LEMMA Received ==
    ASSUME IInv, Talk, toServer # <<>>, ~Crossed
    PROVE  LET o == Head(toServer).op
           IN  /\ toGdb = <<>>
               /\ \/ /\ s_running /\ o = "intr"
                     /\ gdb.mode = "running" /\ Phase = "running" /\ Tail(toServer) = <<>>
                  \/ /\ s_running /\ o = "?"
                     /\ gdb.mode = "waiting" /\ Phase = "attaching" /\ Tail(toServer) = <<>>
                  \/ /\ ~s_running /\ o \notin {"c", "D", "intr"} /\ gdb.mode = "waiting"
                     /\ Phase = (IF o = "?" THEN "attaching" ELSE "asking")
                     /\ Tail(toServer) = <<>>
                  \/ /\ ~s_running /\ o = "D"
                     /\ gdb.mode = "leaving" /\ Phase = "leaving" /\ Tail(toServer) = <<>>
                  \/ /\ ~s_running /\ o = "c"
                     /\ gdb.mode = "running" /\ Phase = "resuming"
                     /\ \/ Tail(toServer) = <<>>
                        \/ Tail(toServer) = <<CtrlC>> /\ gdb.interrupting
<1>1. CASE s_running
  <2>1. toGdb = <<>>
    BY <1>1 DEF Talk, AnswersFit
  <2>2. CASE gdb.mode = "running" /\ toServer = <<CtrlC>>
    BY <1>1, <2>1, <2>2, Queues, Packets DEF Phase, CtrlC
  <2>3. CASE gdb.mode = "waiting" /\ toServer = <<AttachAsk>>
    BY <1>1, <2>1, <2>3, Queues, Packets DEF Phase, Attaching, AttachAsk
  <2> QED
    BY <1>1, <2>1, <2>2, <2>3 DEF Talk, PollsForGdb
<1>2. CASE ~s_running
  <2>1. toGdb = <<>>
    BY <1>2 DEF Talk, RequestFits
  <2>2. PICK p \in Packet :
           \/ gdb.mode = "waiting" /\ p.op \notin {"c", "D", "intr"} /\ toServer = <<p>>
           \/ gdb.mode = "leaving" /\ p.op = "D" /\ toServer = <<p>>
           \/ gdb.mode = "running" /\ p.op = "c" /\ toServer = <<p>>
           \/ gdb.mode = "running" /\ p.op = "c" /\ toServer = <<p, CtrlC>> /\ gdb.interrupting
    BY <1>2 DEF Talk, RequestFits
  <2>3. CASE gdb.mode = "waiting" /\ p.op \notin {"c", "D", "intr"} /\ toServer = <<p>>
    BY <1>2, <2>1, <2>3, Queues DEF Phase, Attaching
  <2>4. CASE gdb.mode = "leaving" /\ p.op = "D" /\ toServer = <<p>>
    BY <1>2, <2>1, <2>4, Queues DEF Phase
  <2>5. CASE gdb.mode = "running" /\ p.op = "c" /\ toServer = <<p>>
    BY <1>2, <2>1, <2>5, Queues DEF Phase
  <2>6. CASE gdb.mode = "running" /\ p.op = "c" /\ toServer = <<p, CtrlC>> /\ gdb.interrupting
    BY <1>2, <2>1, <2>6, Queues, Packets DEF Phase
  <2> QED
    BY <2>2, <2>3, <2>4, <2>5, <2>6
<1> QED
  BY <1>1, <1>2

LEMMA ActiveSame ==
    ASSUME IInv, IInv'
    PROVE  /\ (ActiveHalted' <=> ActiveHalted) => Same
           /\ ActiveHalted' => ActiveHalted' = TRUE
           /\ ActiveHalted' \in BOOLEAN
<1>1. ActiveHalted \in BOOLEAN /\ ActiveHalted' \in BOOLEAN
  BY DEF IInv, TargetSound, TargetState, Sound, JtagState, LocalSound, LocalState, ActiveHalted
<1> QED
  BY <1>1 DEF Same

\* The server has sent the answer that GDB waits for.
LEMMA Answered ==
    ASSUME gdb.mode \in {"waiting", "running", "leaving"}, gdb' = gdb, ~s_running',
           toServer' = <<>> \/ Crossed', toGdb' \in {<<"stop">>, <<"answer">>},
           gdb.mode = "running" => toGdb' = <<"stop">>,
           gdb.mode # "leaving" => ActiveHalted'
    PROVE  Talk' /\ Phase' = IF gdb.mode = "leaving" THEN "left" ELSE "told"
<1>1. toGdb' # <<>>
  OBVIOUS
<1>2. Phase' = IF gdb.mode = "leaving" THEN "left" ELSE "told"
  BY <1>1 DEF Phase
<1>3. AnswersFit' /\ PollsForGdb' /\ RequestFits'
  BY DEF AnswersFit, PollsForGdb, RequestFits
<1>4. HaltedWhenTold'
  BY <1>2 DEF HaltedWhenTold
<1> QED
  BY <1>2, <1>3, <1>4 DEF Talk

\* A handler of a request that leaves the target halted and answers.
LEMMA Served ==
    ASSUME IInv, IInv', Talk, NEW op, op \notin {"?", "c", "D", "intr"}, Receive(op),
           Reply("stop") \/ Reply("answer"),
           ActiveHalted /\ ~s_running => ActiveHalted' /\ ~s_running'
    PROVE  Talk' /\ Moves
<1>1. toServer # <<>> /\ ~Crossed /\ Head(toServer).op = op
  BY DEF Receive, Crossed
<1>2. /\ toGdb = <<>> /\ ~s_running /\ gdb.mode = "waiting" /\ Phase = "asking"
      /\ Tail(toServer) = <<>>
  BY <1>1, Received
<1>3. ActiveHalted /\ ActiveHalted' /\ ~s_running'
  BY <1>2 DEF Talk, HaltedWhenTold
<1>4. toGdb' \in {<<"stop">>, <<"answer">>} /\ toServer' = <<>> /\ gdb' = gdb
  BY <1>2 DEF Reply, Receive
<1>5. Talk' /\ Phase' = "told"
  BY <1>2, <1>3, <1>4, Answered
<1>6. Same
  BY <1>3, ActiveSame
<1> QED
  BY <1>2, <1>5, <1>6 DEF Moves, Move

\* The server's steps, but for those that mislead.
LEMMA ServerTalks ==
    ASSUME HaltWorks, InitWorks, IInv, IInv', HartInv, Connected, Talk, Poll \/ Handle,
           ~StopSentTwice, ~StopAssumed
    PROVE  Talk' /\ Moves
<1>1. CASE Poll
  <2>1. s_running /\ \E f \in Faults : TargetHit(target, f)
    BY <1>1 DEF Poll
  <2>2. gdb.mode = "running" /\ (toServer = <<>> \/ toServer = <<CtrlC>>) /\ toGdb = <<>>
    BY <2>1, UntouchedIsNotHit DEF Talk, PollsForGdb, AnswersFit
  <2>3. /\ ~s_running' /\ gdb' = gdb /\ toServer' = toServer /\ toGdb' = <<"stop">>
    BY <1>1, <2>2 DEF Poll, Reply
  <2>4. toServer' = <<>> \/ Crossed'
    BY <2>2, <2>3, Queues, Packets DEF Crossed, CtrlC
  <2>5. ActiveHalted'
    BY <1>1, PollHalts
  <2>6. Talk' /\ Phase' = "told"
    BY <2>2, <2>3, <2>4, <2>5, Answered
  <2>7. Phase = "running"
    BY <2>1, <2>2 DEF Phase
  <2> QED
    BY <2>5, <2>6, <2>7, ActiveSame DEF Moves, Move
<1>2. CASE HandleInterrupt
  <2>1. Receive("intr") /\ s_running /\ ~s_running' /\ Reply("stop")
    BY <1>2 DEF HandleInterrupt, StopSentTwice
  <2>2. toServer # <<>> /\ ~Crossed /\ Head(toServer).op = "intr"
    BY <2>1 DEF Receive, Crossed
  <2>3. toGdb = <<>> /\ gdb.mode = "running" /\ Phase = "running" /\ Tail(toServer) = <<>>
    BY <2>2, Received
  <2>4. toGdb' = <<"stop">> /\ toServer' = <<>> /\ gdb' = gdb
    BY <2>1, <2>3 DEF Reply, Receive
  <2>5. ActiveHalted'
    BY <1>2, InterruptHalts
  <2>6. Talk' /\ Phase' = "told"
    BY <2>1, <2>3, <2>4, <2>5, Answered
  <2> QED
    BY <2>3, <2>5, <2>6, ActiveSame DEF Moves, Move
<1>3. CASE HandleHaltReason
  <2>1. Receive("?") /\ ~s_running' /\ Reply("stop")
    BY <1>3 DEF HandleHaltReason
  <2>2. toServer # <<>> /\ ~Crossed /\ Head(toServer).op = "?"
    BY <2>1 DEF Receive, Crossed
  <2>3. toGdb = <<>> /\ gdb.mode = "waiting" /\ Phase = "attaching" /\ Tail(toServer) = <<>>
    BY <2>2, Received
  <2>4. toGdb' = <<"stop">> /\ toServer' = <<>> /\ gdb' = gdb
    BY <2>1, <2>3 DEF Reply, Receive
  <2>5. ActiveHalted'
    <3>1. CASE s_running
      BY <1>3, <3>1, InterruptHalts
    <3>2. CASE ~s_running
      <4>1. ActiveHalted /\ target' = target
        BY <1>3, <3>2 DEF StopAssumed, HandleHaltReason
      <4> QED
        BY <4>1 DEF ActiveHalted, OnJtag
    <3> QED
      BY <3>1, <3>2
  <2>6. Talk' /\ Phase' = "told"
    BY <2>1, <2>3, <2>4, <2>5, Answered
  <2> QED
    BY <2>3, <2>5, <2>6, ActiveSame DEF Moves, Move
<1>4. CASE HandleContinue
  <2>1. Receive("c") /\ s_running' = TRUE /\ toGdb' = toGdb
    BY <1>4 DEF HandleContinue
  <2>2. toServer # <<>> /\ ~Crossed /\ Head(toServer).op = "c"
    BY <2>1 DEF Receive, Crossed
  <2>3. /\ toGdb = <<>> /\ gdb.mode = "running" /\ Phase = "resuming"
        /\ Tail(toServer) = <<>> \/ (Tail(toServer) = <<CtrlC>> /\ gdb.interrupting)
    BY <2>2, Received
  <2>4. gdb' = gdb /\ toServer' = Tail(toServer)
    BY <2>1 DEF Receive
  <2>5. Phase' = "running"
    BY <2>1, <2>3, <2>4 DEF Phase
  <2>6. Talk'
    BY <2>1, <2>3, <2>4, <2>5
    DEF Talk, AnswersFit, PollsForGdb, RequestFits, HaltedWhenTold
  <2> QED
    BY <2>3, <2>5, <2>6, ActiveSame DEF Moves, Move
<1>5. CASE HandleDetach
  <2>1. Receive("D") /\ ~s_running' /\ Reply("answer")
    BY <1>5 DEF HandleDetach
  <2>2. toServer # <<>> /\ ~Crossed /\ Head(toServer).op = "D"
    BY <2>1 DEF Receive, Crossed
  <2>3. toGdb = <<>> /\ gdb.mode = "leaving" /\ Phase = "leaving" /\ Tail(toServer) = <<>>
    BY <2>2, Received
  <2>4. toGdb' = <<"answer">> /\ toServer' = <<>> /\ gdb' = gdb
    BY <2>1, <2>3 DEF Reply, Receive
  <2>5. Talk' /\ Phase' = "left"
    BY <2>1, <2>3, <2>4, Answered
  <2> QED
    BY <2>3, <2>5, ActiveSame DEF Moves, Move
<1>6. CASE Quiet
  <2>1. \E op : /\ op \notin {"?", "c", "D", "intr"} /\ Receive(op)
                /\ Reply("stop") \/ Reply("answer")
    BY <1>6 DEF Quiet, HandleReadRegisters, HandleWriteScratch, HandleWritePc, HandleMemory,
                HandleBreakpointSet, HandleBreakpointClear, HandleStep, HandleSetThread,
                HandleThreadInfo, HandleRiscvLoad
  <2> QED
    BY <1>6, <2>1, QuietKeepsHalted, Served
<1>7. CASE HandleTargetLocal \/ HandleTargetJtag
  <2>1. \E op : op \notin {"?", "c", "D", "intr"} /\ Receive(op) /\ Reply("answer")
    BY <1>7 DEF HandleTargetLocal, HandleTargetJtag, Switch
  <2>2. ActiveHalted' /\ ~s_running'
    BY <1>7, SwitchHalts DEF HandleTargetLocal, HandleTargetJtag, Switch
  <2> QED
    BY <2>1, <2>2, Served
<1> QED
  BY <1>1, <1>2, <1>3, <1>4, <1>5, <1>6, <1>7 DEF Handle, Quiet

\* The target is not the server's business alone: it moves on, and stops.
LEMMA EnvironmentTalks ==
    ASSUME IInv, IInv', Talk, Environment
    PROVE  Talk' /\ Moves
<1>1. /\ s_running' = s_running /\ gdb' = gdb /\ toServer' = toServer /\ toGdb' = toGdb
      /\ ActiveHalted => ActiveHalted'
      /\ Untouched => Untouched'
  BY EnvironmentMoves
<1>2. Phase' = Phase
  BY <1>1 DEF Phase, Attaching
<1>3. Talk'
  <2>1. AnswersFit'
    BY <1>1 DEF Talk, AnswersFit, Crossed
  <2>2. PollsForGdb'
    BY <1>1 DEF Talk, PollsForGdb
  <2>3. RequestFits'
    BY <1>1 DEF Talk, RequestFits, Crossed
  <2>4. HaltedWhenTold'
    BY <1>1, <1>2 DEF Talk, HaltedWhenTold
  <2> QED
    BY <2>1, <2>2, <2>3, <2>4 DEF Talk
<1>4. Phase \in {"running", "left", "detached", "attaching"} \/ ActiveHalted
  BY DEF Talk, HaltedWhenTold, Phase, IInv, Links, Mode
<1> QED
  BY <1>1, <1>2, <1>3, <1>4, ActiveSame DEF Moves

\* GDB has sent something while the server did not look.
LEMMA Sent ==
    ASSUME IInv, Talk, NEW p \in Packet, toServer' = Append(toServer, p), gdb.mode # "running",
           UNCHANGED s_running, Crossed
    PROVE  Crossed' /\ toServer'[Len(toServer')] = p
<1>1. toServer \in Seq(Packet) /\ toServer # <<>>
  BY DEF IInv, Links, Crossed
<1>2. /\ toServer' # <<>> /\ Len(toServer') = Len(toServer) + 1
      /\ toServer'[Len(toServer) + 1] = p
  BY <1>1, AppendProperties
<1>3. Head(toServer') = Head(toServer)
  BY <1>1, HeadTailAppend
<1> QED
  BY <1>2, <1>3 DEF Crossed

LEMMA GdbTalks ==
    ASSUME IInv, IInv', Talk, GdbSide, ~LeftInBetween
    PROVE  Talk' /\ Moves
<1>1. UNCHANGED <<target, s_running>> /\ Same /\ (Untouched => Untouched')
  BY DEF GdbSide, GdbAttaches, GdbCommands, GdbInterrupts, GdbReceives, GdbVanishes,
         BridgeDrops, Send, Client, Same, ActiveHalted, Untouched, OnJtag
<1>2. gdb.mode \in {"detached", "stopped"} => toGdb = <<>>
  BY DEF Talk, AnswersFit
<1>3. CASE GdbAttaches
  <2>1. /\ gdb.mode = "detached" /\ toServer' = Append(toServer, AttachAsk)
        /\ gdb' = [mode |-> "waiting", interrupting |-> FALSE] /\ toGdb' = <<>>
    BY <1>2, <1>3 DEF GdbAttaches, Send, AttachAsk
  <2>2. gdb'.mode = "waiting"
    BY <2>1
  <2>3. CASE Crossed
    <3>1. Crossed' /\ toServer'[Len(toServer')] = AttachAsk /\ toServer' # <<>> /\ ~s_running'
      BY <1>1, <2>1, <2>3, Sent, Packets DEF Crossed
    <3>2. Phase = "detached" /\ Phase' = "attaching"
      BY <2>1, <2>2, <3>1 DEF Phase, Attaching, AttachAsk
    <3>3. Talk'
      BY <2>1, <3>1, <3>2 DEF Talk, AnswersFit, PollsForGdb, RequestFits, HaltedWhenTold
    <3> QED
      BY <1>1, <3>2, <3>3 DEF Moves, Move
  <2>4. CASE ~Crossed
    <3>1. toServer = <<>> /\ (s_running => Untouched)
      BY <2>1, <2>4 DEF Talk, PollsForGdb, RequestFits
    <3>2. toServer' = <<AttachAsk>>
      BY <2>1, <3>1, Queues, Packets
    <3>3. Phase = "detached" /\ Phase' = "attaching"
      BY <2>1, <2>2, <3>2, Queues, Packets DEF Phase, Attaching, AttachAsk
    <3>4. Talk'
      <4>1. PollsForGdb'
        BY <1>1, <2>2, <3>1, <3>2 DEF PollsForGdb
      <4>2. RequestFits'
        BY <2>1, <2>2, <3>2, Packets DEF RequestFits, AttachAsk
      <4> QED
        BY <2>1, <3>3, <4>1, <4>2 DEF Talk, AnswersFit, HaltedWhenTold
    <3> QED
      BY <1>1, <3>3, <3>4 DEF Moves, Move
  <2> QED
    BY <2>3, <2>4
<1>4. CASE GdbCommands
  <2>1. PICK p \in Commands :
          /\ toServer' = Append(toServer, p) /\ toGdb' = toGdb
          /\ gdb' = [mode |-> CASE p.op = "c" -> "running" [] p.op = "D" -> "leaving"
                                [] OTHER -> "waiting",
                     interrupting |-> FALSE]
    BY <1>4 DEF GdbCommands, Send
  <2>2. p \in Packet /\ p.op \notin {"?", "intr"}
    BY DEF Commands
  <2>3. /\ gdb.mode = "stopped" /\ toGdb' = <<>>
        /\ gdb'.mode = IF p.op = "c" THEN "running" ELSE IF p.op = "D" THEN "leaving" ELSE "waiting"
    BY <1>2, <1>4, <2>1 DEF GdbCommands
  <2>4. ~s_running /\ ~s_running'
    BY <1>1, <2>3 DEF Talk, PollsForGdb
  <2>5. Phase = "stopped" /\ ActiveHalted /\ ActiveHalted'
    BY <1>1, <2>3 DEF Phase, Talk, HaltedWhenTold, Same
  <2>6. toServer' # <<>> /\ toServer'[Len(toServer')] = p
        /\ (Crossed' \/ toServer' = <<p>>)
    <3>1. CASE Crossed
      BY <1>1, <2>1, <2>2, <2>3, <3>1, Sent DEF Crossed
    <3>2. CASE ~Crossed
      <4>1. toServer = <<>>
        BY <2>3, <2>4, <3>2 DEF Talk, RequestFits
      <4> QED
        BY <2>1, <2>2, <4>1, Queues
    <3> QED
      BY <3>1, <3>2
  <2>7. Phase' = IF p.op = "c" THEN "resuming" ELSE IF p.op = "D" THEN "leaving" ELSE "asking"
    BY <2>2, <2>3, <2>4, <2>6 DEF Phase, Attaching
  <2>8. RequestFits'
    BY <2>2, <2>3, <2>6 DEF RequestFits
  <2>9. Talk'
    BY <2>3, <2>4, <2>5, <2>8 DEF Talk, AnswersFit, PollsForGdb, HaltedWhenTold
  <2> QED
    BY <1>1, <2>5, <2>7, <2>9 DEF Moves, Move
<1>5. CASE GdbInterrupts
  <2>1. /\ gdb.mode = "running" /\ ~gdb.interrupting /\ toServer' = Append(toServer, CtrlC)
        /\ gdb' = [mode |-> "running", interrupting |-> TRUE] /\ toGdb' = toGdb
    BY <1>5 DEF GdbInterrupts, Send, CtrlC
  <2>2. gdb'.mode = "running" /\ gdb'.interrupting
    BY <2>1
  <2>3. Phase' = Phase
    BY <1>1, <2>1, <2>2 DEF Phase
  <2>4. CASE s_running
    <3>1. toServer = <<>> /\ toGdb = <<>>
      BY <2>1, <2>4 DEF Talk, PollsForGdb, AnswersFit
    <3>2. toServer' = <<CtrlC>>
      BY <2>1, <3>1, Queues, Packets
    <3> QED
      BY <1>1, <2>1, <2>2, <2>3, <2>4, <3>1, <3>2
      DEF Moves, Same, Talk, AnswersFit, PollsForGdb, RequestFits, HaltedWhenTold
  <2>5. CASE ~s_running
    <3>1. toServer' # <<>> /\ (toServer = <<>> \/ Crossed => Crossed')
      <4>1. toServer \in Seq(Packet)
        BY DEF IInv, Links
      <4>2. toServer' # <<>>
            /\ Head(toServer') = IF toServer = <<>> THEN CtrlC ELSE Head(toServer)
        BY <2>1, <4>1, Packets, AppendProperties, HeadTailAppend
      <4> QED
        BY <1>1, <2>5, <4>2 DEF Crossed, CtrlC
    <3>2. AnswersFit'
      BY <1>1, <2>1, <2>2, <3>1 DEF Talk, AnswersFit
    <3>3. RequestFits'
      <4> SUFFICES ASSUME ~Crossed' PROVE RequestFits'
        BY DEF RequestFits
      <4>1. ~Crossed /\ toServer # <<>>
        BY <3>1
      <4>2. PICK p \in Packet : p.op = "c" /\ toServer = <<p>>
        BY <2>1, <2>5, <4>1 DEF Talk, RequestFits
      <4>3. toServer' = <<p, CtrlC>>
        <5>1. Append(<<p>>, CtrlC) = <<p, CtrlC>>
          BY <4>2, Packets, Queues, Zenon
        <5> QED
          BY <2>1, <4>2, <5>1, Zenon
      <4>4. toGdb = <<>>
        BY <2>5, <4>1 DEF Talk, RequestFits
      <4> QED
        BY <2>1, <2>2, <4>2, <4>3, <4>4 DEF RequestFits
    <3>4. HaltedWhenTold'
      BY <1>1, <2>3 DEF Talk, HaltedWhenTold, Same
    <3> QED
      BY <1>1, <2>3, <2>5, <3>2, <3>3, <3>4 DEF Moves, Talk, PollsForGdb
  <2> QED
    BY <2>4, <2>5
<1>6. CASE GdbReceives
  <2>1. /\ gdb.mode \in {"waiting", "running", "leaving"} /\ toGdb # <<>>
        /\ toGdb' = Tail(toGdb) /\ toServer' = toServer
        /\ gdb' = CASE gdb.mode = "leaving" -> [mode |-> "detached", interrupting |-> FALSE]
                    [] gdb.mode = "running" /\ Head(toGdb) = "answer" -> gdb
                    [] OTHER -> [mode |-> "stopped", interrupting |-> FALSE]
    BY <1>6 DEF GdbReceives
  <2>2. /\ toGdb \in {<<"stop">>, <<"answer">>}
        /\ gdb.mode = "running" => toGdb = <<"stop">>
        /\ ~s_running /\ (toServer = <<>> \/ Crossed)
    BY <2>1 DEF Talk, AnswersFit
  <2>3. toGdb' = <<>> /\ (gdb.mode = "running" => Head(toGdb) # "answer")
    BY <2>1, <2>2
  <2>4. gdb'.mode = IF gdb.mode = "leaving" THEN "detached" ELSE "stopped"
    BY <2>1, <2>3
  <2>5. /\ Phase = IF gdb.mode = "leaving" THEN "left" ELSE "told"
        /\ Phase' = IF gdb.mode = "leaving" THEN "detached" ELSE "stopped"
    BY <2>1, <2>4 DEF Phase
  <2>6. HaltedWhenTold'
    BY <1>1, <2>1, <2>5 DEF Talk, HaltedWhenTold, Same
  <2>7. AnswersFit' /\ PollsForGdb' /\ RequestFits'
    BY <1>1, <2>1, <2>2, <2>3 DEF AnswersFit, PollsForGdb, RequestFits, Crossed
  <2> QED
    BY <1>1, <2>1, <2>5, <2>6, <2>7 DEF Moves, Move, Talk
<1>7. CASE GdbVanishes
  <2>1. /\ gdb.mode = "stopped" /\ toServer' = toServer /\ toGdb' = toGdb
        /\ gdb' = [mode |-> "detached", interrupting |-> FALSE]
    BY <1>7 DEF GdbVanishes, LeftInBetween
  <2>2. ~s_running /\ toGdb = <<>> /\ (toServer = <<>> \/ Crossed)
    BY <1>2, <2>1 DEF Talk, PollsForGdb, RequestFits
  <2>3. Phase = "stopped" /\ Phase' = "detached"
    BY <2>1 DEF Phase
  <2>4. Talk'
    BY <1>1, <2>1, <2>2, <2>3
    DEF Talk, AnswersFit, PollsForGdb, RequestFits, HaltedWhenTold, Crossed
  <2> QED
    BY <1>1, <2>3, <2>4 DEF Moves, Move
<1>8. CASE BridgeDrops
  BY <1>2, <1>8 DEF BridgeDrops
<1> QED
  BY <1>3, <1>4, <1>5, <1>6, <1>7, <1>8 DEF GdbSide

---------------------------------------------------------------------------
(* The theorems.                                                           *)

SessionInv == misled \in BOOLEAN /\ (~misled => Talk)

\* What holds of the server holds of it in a session.
LEMMA SessionIsServer ==
    ASSUME InitWorks
    PROVE  SessionSpec => [](IInv /\ HartInv /\ Connected)
<1>1. SessionInit => Init
  BY DEF SessionInit
<1>2. [SessionNext]_sessionVars => [Next]_vars
  BY DEF SessionNext, sessionVars
<1>3. Init => Connected
  BY DEF Init, Connected, OnJtag
<1>4. IInv /\ HartInv /\ Connected /\ [Next]_vars => Connected'
  BY ConnectedStep
<1>5. SessionSpec => Spec
  BY <1>1, <1>2, PTL DEF SessionSpec, Spec
<1> QED
  BY <1>3, <1>4, <1>5, HartInvariance, PTL DEF Spec

LEMMA SessionBoot == SessionInit => SessionInv /\ Session!Init
<1> SUFFICES ASSUME SessionInit PROVE SessionInv /\ Session!Init
  OBVIOUS
<1>1. /\ s_running = TRUE /\ gdb.mode = "detached" /\ toServer = <<>> /\ toGdb = <<>>
      /\ misled = FALSE
  BY DEF SessionInit, Init
<1>2. PICK order : target.local = LocalGetThreads(LocalBoot, order) /\ target.ops = "local"
  BY DEF SessionInit, Init
<1>3. Untouched /\ ActiveHalted = FALSE
  BY <1>2 DEF Untouched, ActiveHalted, OnJtag, LocalGetThreads, LocalBoot, EmptyTable
<1>4. Phase = "detached"
  BY <1>1 DEF Phase
<1>5. Talk
  BY <1>1, <1>3, <1>4 DEF Talk, AnswersFit, PollsForGdb, RequestFits, HaltedWhenTold
<1> QED
  BY <1>1, <1>3, <1>4, <1>5 DEF SessionInv, Session!Init

LEMMA SessionStep ==
    ASSUME HaltWorks, InitWorks, IInv, IInv', HartInv, Connected, SessionInv,
           [SessionNext]_sessionVars
    PROVE  SessionInv' /\ [Session!Next]_Session!vars
<1>1. CASE UNCHANGED sessionVars
  <2>1. UNCHANGED <<target, s_running, gdb, toServer, toGdb, misled>>
    BY <1>1 DEF sessionVars, vars
  <2>2. UNCHANGED <<Phase, ActiveHalted>>
    BY <2>1 DEF Phase, Attaching, ActiveHalted, OnJtag
  <2>3. Talk => Talk'
    BY <2>1, <2>2 DEF Talk, AnswersFit, PollsForGdb, RequestFits, HaltedWhenTold, Crossed,
                      Untouched, OnJtag
  <2> QED
    BY <2>1, <2>2, <2>3 DEF SessionInv, Session!vars
<1>2. CASE SessionNext /\ (misled \/ Misleads)
  <2>1. misled' = TRUE
    BY <1>2 DEF SessionNext
  <2> QED
    BY <2>1 DEF SessionInv, Session!Next
<1>3. CASE SessionNext /\ ~misled /\ ~Misleads
  <2>1. misled = FALSE /\ misled' = FALSE /\ Next /\ Talk
    BY <1>3 DEF SessionNext, SessionInv
  <2>2. Talk' /\ Moves
    BY <1>3, <2>1, ServerTalks, EnvironmentTalks, GdbTalks DEF Next, Misleads
  <2> QED
    BY <2>1, <2>2, MovesSimulate DEF SessionInv
<1> QED
  BY <1>1, <1>2, <1>3

LEMMA SessionInvariance ==
    ASSUME HaltWorks, InitWorks
    PROVE  SessionSpec => [](SessionInv /\ IInv /\ HartInv /\ Connected)
<1>1. SessionInv /\ (IInv /\ HartInv /\ Connected) /\ IInv' /\ [SessionNext]_sessionVars
        => SessionInv'
  BY SessionStep
<1>2. SessionInit => SessionInv
  BY SessionBoot
<1> QED
  BY <1>1, <1>2, SessionIsServer, PTL DEF SessionSpec

\* The server, with either backend behind it and any order of ^C, hits and
\* commands on the two links, is a debug session until one of the three events
\* that mislead GDB: whenever dm_init and dm_halt work, whatever else fails.
THEOREM ServerIsADebugSession ==
    ASSUME HaltWorks, InitWorks
    PROVE  SessionSpec => ImplementsSession
<1>1. SessionInit => Session!Init
  BY SessionBoot
<1>2. (SessionInv /\ IInv /\ HartInv /\ Connected) /\ IInv' /\ [SessionNext]_sessionVars
        => [Session!Next]_Session!vars
  BY SessionStep
<1> QED
  BY <1>1, <1>2, SessionInvariance, PTL DEF SessionSpec, ImplementsSession, Session!Spec

\* The three events are the only reasons why GDB may take a running target for
\* a stopped one.
THEOREM OnlyThreeEventsMislead ==
    ASSUME HaltWorks, InitWorks
    PROVE  SessionSpec => [](~misled => StoppedMeansHalted)
<1>1. SessionInv => (~misled => StoppedMeansHalted)
  BY DEF SessionInv, Talk, HaltedWhenTold, Phase, StoppedMeansHalted
<1> QED
  BY <1>1, SessionInvariance, PTL
=============================================================================
