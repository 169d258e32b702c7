------------------------------- MODULE Target -------------------------------
(***************************************************************************)
(* The dispatcher (target.c): which backend is active, and the call of the *)
(* vtable that each target_* function makes.  A state tg has the fields    *)
(* ops, jtag and local; f is the set of failing Debug Module calls, and    *)
(* order the order in which FreeRTOS lists its tasks.  Both backends       *)
(* implement every entry of the vtable, and s_ops is never null once       *)
(* gdb_server_init has called target_init.                                 *)
(***************************************************************************)
EXTENDS TargetJtag, TargetLocal

Backend == {"local", "jtag"}

TargetState == [ops : Backend, jtag : JtagState, local : LocalState]

OnJtag(tg) == tg.ops = "jtag"

\* What the dispatched call does to the two backends.
Dispatch(tg, j, l) ==
    IF OnJtag(tg) THEN [tg EXCEPT !.jtag = j] ELSE [tg EXCEPT !.local = l]

TargetHalt(tg, f)     == Dispatch(tg, JtagHalt(tg.jtag, f), LocalHalt(tg.local))
TargetContinue(tg, f) == Dispatch(tg, JtagResume(tg.jtag, f), LocalResume(tg.local))

TargetIsHalted(tg, f) ==
    IF OnJtag(tg) THEN JtagIsHalted(tg.jtag, f) ELSE tg.local.halted

TargetClearAllBreakpoints(tg, f) ==
    Dispatch(tg, JtagClearAllBreakpoints(tg.jtag, f),
                 LocalClearAllBreakpoints(tg.local))

TargetInit(tg, f) == Dispatch(tg, JtagInit(tg.jtag, f), LocalInit(tg.local))

\* Mutant: the old backend is left as it is.
TargetSetBackendRunning(tg, backend, f) ==
    TargetInit([TargetClearAllBreakpoints(tg, f) EXCEPT !.ops = backend], f)

\* The old backend is halted and loses its breakpoints; the new one starts anew.
TargetSetBackend(tg, backend, f) ==
    LET stopped == IF TargetIsHalted(tg, f) THEN tg ELSE TargetHalt(tg, f)
        cleared == TargetClearAllBreakpoints(stopped, f)
    IN TargetInit([cleared EXCEPT !.ops = backend], f)

TargetGetThreads(tg, order) ==
    Dispatch(tg, tg.jtag, LocalGetThreads(tg.local, order))

TargetThreadCount(tg, order) == IF OnJtag(tg) THEN 1 ELSE Len(order)

TargetReadRegisters(tg, f) == Dispatch(tg, JtagReadRegisters(tg.jtag, f), tg.local)

\* A write to x8 or x9, which the JTAG backend keeps a copy of.
TargetWriteScratch(tg) == Dispatch(tg, JtagWriteScratch(tg.jtag), tg.local)

TargetWritePc(tg, tid, pc, f) ==
    Dispatch(tg, JtagWritePc(tg.jtag, pc, f), LocalWritePc(tg.local, tid, pc))

\* Mutant: memory is always the hart's.
TargetMemoryBypass(tg, f) == [tg EXCEPT !.jtag = JtagMemory(@, f)]

TargetMemory(tg, f) == Dispatch(tg, JtagMemory(tg.jtag, f), tg.local)

TargetSetBreakpoint(tg, a, f) ==
    Dispatch(tg, JtagSetBreakpoint(tg.jtag, a, f), LocalSetBreakpoint(tg.local, a))

TargetClearBreakpoint(tg, a, f) ==
    Dispatch(tg, JtagClearBreakpoint(tg.jtag, a, f), LocalClearBreakpoint(tg.local, a))

TargetHit(tg, f) ==
    IF OnJtag(tg) THEN JtagHit(tg.jtag, f) ELSE LocalHits(tg.local) # {}

TargetCheckBreakpoints(tg, f) ==
    Dispatch(tg, JtagCheckBreakpoints(tg.jtag, f), tg.local)

\* The thread ids a hit may report; garbage is what an unassigned one may hold.
TargetHitIds(tg, garbage) ==
    IF OnJtag(tg) THEN {1}
    ELSE UNION {LocalHitIds(tg.local, t, garbage) : t \in LocalHits(tg.local)}
=============================================================================
