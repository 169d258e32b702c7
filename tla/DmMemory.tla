------------------------------ MODULE DmMemory ------------------------------
(***************************************************************************)
(* dm_read_memory and dm_write_memory of riscv_dm.c, one step for each     *)
(* request that crosses the cable.  The hart moves the data: the driver    *)
(* puts a load or a store into the program buffer and passes the address   *)
(* and the data through data0, s0 and s1.  The buffer holds one width at a *)
(* time, and a transfer of odd start or length uses both.                  *)
(***************************************************************************)
EXTENDS Bytes

CONSTANTS
    Contents,   \* the target's memory at first
    Payloads,   \* the callers' buffers
    MaxCalls    \* bound: transfers in a behaviour

ASSUME CallsAssumption == Contents \subseteq Memory /\ Payloads \subseteq Buffer /\ MaxCalls \in Nat

VARIABLES
    mem, buf,
    before,          \* the target's memory when the call was made
    call,            \* the call in progress, or the last: op, addr and len
    offset, result,
    pc,
    progbuf0,        \* the instruction there
    data0, s0, s1,
    calls

hart == <<data0, s0, s1>>
vars == <<mem, buf, before, call, offset, result, pc, progbuf0, hart, calls>>

\* What data0 or a register holds: an address, data, or what another command of
\* the driver left.
Value  == [addr : Addr] \cup [word : Word] \cup [other : {TRUE}]
Unused == [other |-> TRUE]

Place == {"idle", "code", "ebreak", "narrow", "address",
          "load", "fetch", "result", "move", "value", "store", "widen"}

TypeOK ==
    /\ mem \in Memory /\ before \in Memory /\ buf \in Buffer
    /\ call \in Transfers /\ offset \in 0 .. call.len
    /\ result \in {"busy", "ok", "error"}
    /\ pc \in Place /\ progbuf0 \in {"lw", "lb", "sw", "sb", "other"}
    /\ data0 \in Value /\ s0 \in Value /\ s1 \in Value
    /\ calls \in 0 .. MaxCalls

WideInsn   == IF call.op = "read" THEN "lw" ELSE "sw"
NarrowInsn == IF call.op = "read" THEN "lb" ELSE "sb"

Init ==
    /\ mem \in Contents /\ buf \in Payloads /\ before = mem
    /\ call = [op |-> "read", addr |-> 0, len |-> 0]
    /\ offset = 0 /\ result = "ok"
    /\ pc = "idle" /\ progbuf0 = "other"
    /\ data0 = Unused /\ s0 = Unused /\ s1 = Unused
    /\ calls = 0

---------------------------------------------------------------------------
(* The callers.                                                            *)

Call(c, b) ==
    /\ pc = "idle" /\ calls < MaxCalls
    /\ call' = c /\ buf' = b /\ before' = mem
    /\ offset' = 0 /\ result' = "busy" /\ pc' = "code"
    /\ calls' = calls + 1
    /\ UNCHANGED <<mem, progbuf0, hart>>

\* Between two transfers: dm_read_csr, dm_write_csr, dm_write_gpr, dm_fence_i.
OtherCommand ==
    /\ pc = "idle"
    /\ progbuf0' = "other"
    /\ data0' = Unused /\ s0' = Unused /\ s1' = Unused
    /\ UNCHANGED <<mem, buf, before, call, offset, result, pc, calls>>

---------------------------------------------------------------------------
(* The loop.                                                               *)

\* cur_addr and remaining of the iteration at offset o.
CurAddr(o)   == At(call.addr, o)
Remaining(o) == call.len - o

Wide(o)  == Remaining(o) >= 4 /\ CurAddr(o) % 4 = 0
Width(o) == IF Wide(o) THEN 4 ELSE 1

Return(r) == pc' = "idle" /\ result' = r

\* On, or out with -1 although the request took effect.
GoTo(place) ==
    \/ pc' = place /\ UNCHANGED result
    \/ Return("error")

\* Where an iteration begins.
Iterate(o) == IF Wide(o) THEN "address" ELSE "narrow"

\* Mutant: a byte access leaves its instruction to the word access after it.
ChunkDoneUnrestored ==
    /\ offset' = offset + Width(offset)
    /\ IF offset' >= call.len THEN Return("ok")
       ELSE pc' = Iterate(offset') /\ UNCHANGED result

\* Mutant: a byte access does not go on to the next byte.
ChunkDoneStuck ==
    /\ offset' = IF Wide(offset) THEN offset + 4 ELSE offset
    /\ IF offset + Width(offset) >= call.len THEN Return("ok")
       ELSE pc' = (IF Wide(offset) THEN Iterate(offset') ELSE "widen") /\ UNCHANGED result

\* A byte access is followed by the word instruction, whatever comes next.
ChunkDone ==
    /\ offset' = offset + Width(offset)
    /\ IF offset' >= call.len THEN Return("ok")
       ELSE pc' = (IF Wide(offset) THEN Iterate(offset') ELSE "widen") /\ UNCHANGED result

---------------------------------------------------------------------------
(* The requests.                                                           *)

\* A request that is not taken, or that the module refuses: no effect, and the
\* call returns -1.
Refused ==
    /\ pc # "idle"
    /\ Return("error")
    /\ UNCHANGED <<mem, buf, before, call, offset, progbuf0, hart, calls>>

WriteWideInsn ==
    /\ pc \in {"code", "widen"}
    /\ progbuf0' = WideInsn
    /\ GoTo(IF pc = "code" THEN "ebreak" ELSE Iterate(offset))
    /\ UNCHANGED <<mem, buf, before, call, offset, hart, calls>>

\* Every user of the buffer puts the same ebreak into progbuf1.
WriteEbreak ==
    /\ pc = "ebreak"
    /\ IF call.len = 0 THEN Return("ok") ELSE GoTo(Iterate(0))
    /\ UNCHANGED <<mem, buf, before, call, offset, progbuf0, hart, calls>>

WriteNarrowInsn ==
    /\ pc = "narrow"
    /\ progbuf0' = NarrowInsn
    /\ GoTo("address")
    /\ UNCHANGED <<mem, buf, before, call, offset, hart, calls>>

\* Mutant: the address of the call, whatever was moved already.
WriteAddressOfCall ==
    /\ pc = "address"
    /\ data0' = [addr |-> call.addr]
    /\ GoTo(IF call.op = "read" THEN "load" ELSE "move")
    /\ UNCHANGED <<mem, buf, before, call, offset, progbuf0, s0, s1, calls>>

WriteAddress ==
    /\ pc = "address"
    /\ data0' = [addr |-> CurAddr(offset)]
    /\ GoTo(IF call.op = "read" THEN "load" ELSE "move")
    /\ UNCHANGED <<mem, buf, before, call, offset, progbuf0, s0, s1, calls>>

\* The hart takes data0 into s0 and loads s0 through it.  A word at an odd
\* address traps.
Load ==
    /\ pc = "load"
    /\ IF progbuf0 = "lw" /\ data0.addr % 4 # 0
       THEN s0' = data0 /\ Return("error")
       ELSE /\ s0' = [word |-> Loaded(mem, data0.addr, IF progbuf0 = "lw" THEN 4 ELSE 1)]
            /\ GoTo("fetch")
    /\ UNCHANGED <<mem, buf, before, call, offset, progbuf0, data0, s1, calls>>

Fetch ==
    /\ pc = "fetch"
    /\ data0' = s0
    /\ GoTo("result")
    /\ UNCHANGED <<mem, buf, before, call, offset, progbuf0, s0, s1, calls>>

\* The word, or its low byte, into the caller's buffer.
ReadResult ==
    /\ pc = "result"
    /\ buf' = Put(buf, offset, Width(offset), data0.word)
    /\ ChunkDone
    /\ UNCHANGED <<mem, before, call, progbuf0, hart, calls>>

MoveAddress ==
    /\ pc = "move"
    /\ s0' = data0
    /\ GoTo("value")
    /\ UNCHANGED <<mem, buf, before, call, offset, progbuf0, data0, s1, calls>>

\* Mutant: the first bytes of the buffer are written again and again.
WriteValueFromStart ==
    /\ pc = "value"
    /\ data0' = [word |-> Taken(buf, 0, Width(offset))]
    /\ GoTo("store")
    /\ UNCHANGED <<mem, buf, before, call, offset, progbuf0, s0, s1, calls>>

WriteValue ==
    /\ pc = "value"
    /\ data0' = [word |-> Taken(buf, offset, Width(offset))]
    /\ GoTo("store")
    /\ UNCHANGED <<mem, buf, before, call, offset, progbuf0, s0, s1, calls>>

\* The hart takes data0 into s1 and stores s1 through s0.
Store ==
    /\ pc = "store"
    /\ s1' = data0
    /\ IF progbuf0 = "sw" /\ s0.addr % 4 # 0
       THEN Return("error") /\ UNCHANGED <<mem, offset>>
       ELSE /\ mem' = Stored(mem, s0.addr, IF progbuf0 = "sw" THEN 4 ELSE 1, data0.word)
            /\ \/ ChunkDone
               \/ Return("error") /\ UNCHANGED offset
    /\ UNCHANGED <<buf, before, call, progbuf0, data0, s0, calls>>

Driver ==
    \/ Refused \/ WriteWideInsn \/ WriteEbreak \/ WriteNarrowInsn \/ WriteAddress
    \/ Load \/ Fetch \/ ReadResult \/ MoveAddress \/ WriteValue \/ Store

Next ==
    \/ \E c \in Transfers, b \in Payloads : Call(c, b)
    \/ OtherCommand
    \/ Driver

Spec == Init /\ [][Next]_vars

\* dmi_transfer and wait_abstract_cmd give up after a bounded number of polls,
\* so every request ends.
FairSpec == Spec /\ WF_vars(Driver)
---------------------------------------------------------------------------
(* Properties.                                                             *)

\* A read that returns 0 has filled the buffer with the bytes of the target at
\* addr and after it, whatever the alignment of its start and its length; the
\* target's memory is as before a read of any outcome.
ReadsTheTarget ==
    call.op = "read" =>
      /\ mem = before
      /\ result = "ok" => \A i \in 0 .. call.len - 1 : buf[i] = mem[At(call.addr, i)]

\* A write changes the target only from addr on and within its length, puts each
\* byte in its place, and is whole when it returns 0.  One that returns -1 has
\* written a beginning of the buffer: nothing past a byte that is missing.
WritesAPrefix ==
    call.op = "write" =>
      \E n \in 0 .. call.len :
        /\ \A x \in Addr : mem[x] = IF Behind(call.addr, x) < n THEN buf[Behind(call.addr, x)]
                                    ELSE before[x]
        /\ n >= offset
        /\ result = "ok" => n = call.len

\* The driver keeps the promise of RemoteMemory: bytes move in order, each once.
Promise == INSTANCE RemoteMemory
    WITH mem <- mem, buf <- buf, call <- call, offset <- offset, result <- result
ImplementsRemoteMemory == Promise!Spec

\* Every call returns, on a cable that fails at any request.
CallReturns == pc # "idle" ~> pc = "idle"
=============================================================================
