---------------------------- MODULE RemoteMemory ----------------------------
(***************************************************************************)
(* What dm_read_memory and dm_write_memory promise to the backend and to   *)
(* riscv_load: a transfer copies bytes in address order between the        *)
(* target's memory and the caller's buffer, returns 0 when all are copied  *)
(* and -1 at any earlier point.  How the bytes travel is not said here.    *)
(***************************************************************************)
EXTENDS Bytes

VARIABLES
    mem, buf,
    call,       \* the transfer: op, addr and len
    offset,     \* the bytes copied so far
    result      \* "busy" while the call runs, then "ok" or "error"

vars == <<mem, buf, call, offset, result>>

Here == At(call.addr, offset)

Init ==
    /\ mem \in Memory /\ buf \in Buffer
    /\ call = [op |-> "read", addr |-> 0, len |-> 0]
    /\ offset = 0 /\ result = "ok"

Begin ==
    /\ result # "busy"
    /\ call' \in Transfers /\ buf' \in Buffer
    /\ offset' = 0 /\ result' = "busy"
    /\ UNCHANGED mem

Advance(n) ==
    /\ result = "busy" /\ offset + n <= call.len
    /\ offset' = offset + n
    /\ result' = IF offset' = call.len THEN "ok" ELSE "busy"
    /\ UNCHANGED call

CopyFromTarget(n) ==
    /\ call.op = "read" /\ Advance(n)
    /\ buf' = Put(buf, offset, n, Loaded(mem, Here, n))
    /\ UNCHANGED mem

CopyToTarget(n) ==
    /\ call.op = "write" /\ Advance(n)
    /\ mem' = Stored(mem, Here, n, Taken(buf, offset, n))
    /\ UNCHANGED buf

NothingToCopy ==
    /\ result = "busy" /\ call.len = 0
    /\ result' = "ok"
    /\ UNCHANGED <<mem, buf, call, offset>>

\* The target may have taken bytes whose arrival was not confirmed.
GiveUp ==
    /\ result = "busy"
    /\ result' = "error"
    /\ \/ UNCHANGED mem
       \/ \E n \in {1, 4} : /\ call.op = "write" /\ offset + n <= call.len
                            /\ mem' = Stored(mem, Here, n, Taken(buf, offset, n))
    /\ UNCHANGED <<buf, call, offset>>

Next ==
    \/ Begin
    \/ \E n \in {1, 4} : CopyFromTarget(n) \/ CopyToTarget(n)
    \/ NothingToCopy
    \/ GiveUp

Spec == Init /\ [][Next]_vars
=============================================================================
