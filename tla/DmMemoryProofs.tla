--------------------------- MODULE DmMemoryProofs ---------------------------
(***************************************************************************)
(* The memory transfers of riscv_dm.c are right for every memory, every    *)
(* buffer, every address and every length: what DmMemory's runs check for  *)
(* two words.                                                              *)
(***************************************************************************)
EXTENDS DmMemory, TLAPS

\* The chunk that the iteration moves, and the places that move it.
Reading   == {"load", "fetch", "result"}
Writing   == {"move", "value", "store"}
Moving    == {"address"} \cup Reading \cup Writing
Iterating == {"narrow", "widen"} \cup Moving

Progress ==
    /\ pc = "idle" <=> result # "busy"
    /\ pc \in {"code", "ebreak"} => offset = 0
    /\ pc \in Iterating => offset < call.len
    /\ pc \in Reading => call.op = "read"
    /\ pc \in Writing => call.op = "write"
    /\ result = "ok" => offset = call.len

\* The width of the instruction is the width of the chunk.
WidthInv ==
    /\ pc = "ebreak" => progbuf0 = WideInsn
    /\ pc = "narrow" => ~Wide(offset)
    /\ pc \in Moving => progbuf0 = IF Wide(offset) THEN WideInsn ELSE NarrowInsn

\* Where the address and the data are at each request.
RegisterInv ==
    /\ pc \in {"load", "move"} => data0 = [addr |-> CurAddr(offset)]
    /\ pc \in {"value", "store"} => s0 = [addr |-> CurAddr(offset)]
    /\ pc = "fetch" => s0 = [word |-> Loaded(mem, CurAddr(offset), Width(offset))]
    /\ pc = "result" => data0 = [word |-> Loaded(mem, CurAddr(offset), Width(offset))]
    /\ pc = "store" => data0 = [word |-> Taken(buf, offset, Width(offset))]

\* What has been moved.
Written(n) ==
    \A x \in Addr : mem[x] = IF Behind(call.addr, x) < n THEN buf[Behind(call.addr, x)]
                             ELSE before[x]

CopyInv ==
    /\ call.op = "read" => /\ mem = before
                           /\ \A i \in 0 .. offset - 1 : buf[i] = mem[At(call.addr, i)]
    /\ call.op = "write" => /\ result # "error" => Written(offset)
                            /\ \E n \in offset .. call.len : Written(n)

IInv == TypeOK /\ Progress /\ WidthInv /\ RegisterInv /\ CopyInv

USE BytesAssumption, CallsAssumption

LEMMA CallTyped ==
    ASSUME TypeOK
    PROVE  /\ call.op \in {"read", "write"} /\ call.addr \in Addr /\ call.len \in 0 .. MaxLen
           /\ offset \in Nat /\ offset <= call.len
BY DEF TypeOK, Transfers, Addr

\* Addresses wrap within the address space.
LEMMA AtTyped ==
    ASSUME NEW a \in Addr, NEW i \in 0 .. MaxLen
    PROVE  At(a, i) \in Addr
BY DEF At, Addr

\* The address o after a, and the distance from there.
LEMMA BehindAt ==
    ASSUME NEW a \in Addr, NEW o \in 0 .. MaxLen, NEW n \in 0 .. MaxLen, o + n <= MaxLen,
           NEW x \in Addr
    PROVE  /\ Behind(a, x) \in Addr
           /\ Behind(At(a, o), x) < n <=> Behind(a, x) \in o .. o + n - 1
           /\ Behind(At(a, o), x) < n => Behind(At(a, o), x) = Behind(a, x) - o
BY DEF At, Behind, Addr

LEMMA LoadedTyped ==
    ASSUME NEW m \in Memory, NEW a \in Addr, NEW n \in {1, 4}, n <= MaxLen
    PROVE  Loaded(m, a, n) \in Word
<1>1. \A i \in 0 .. 3 : i < n => At(a, i) \in Addr
  BY AtTyped
<1> QED BY <1>1 DEF Loaded, Word, Memory

LEMMA TakenTyped ==
    ASSUME NEW b \in Buffer, NEW o \in Nat, NEW n \in {1, 4}, o + n <= MaxLen
    PROVE  Taken(b, o, n) \in Word
BY DEF Taken, Word, Buffer

\* A chunk of the target, put in its place in the buffer.
LEMMA PutLoaded ==
    ASSUME NEW m \in Memory, NEW b \in Buffer, NEW a \in Addr, NEW o \in Nat,
           NEW n \in {1, 4}, o + n <= MaxLen
    PROVE  LET c == Put(b, o, n, Loaded(m, At(a, o), n))
           IN  /\ c \in Buffer
               /\ \A i \in 0 .. o - 1 : c[i] = b[i]
               /\ \A i \in o .. o + n - 1 : c[i] = m[At(a, i)]
<1> DEFINE w == Loaded(m, At(a, o), n)
<1>1. At(a, o) \in Addr /\ \A i \in 0 .. n - 1 : At(At(a, o), i) = At(a, o + i)
  BY DEF At, Addr
<1>2. \A i \in o .. o + n - 1 : i - o \in 0 .. n - 1 /\ w[i - o] = m[At(a, i)]
  BY <1>1 DEF Loaded
<1>3. \A i \in o .. o + n - 1 : At(a, i) \in Addr
  BY AtTyped
<1>4. \A i \in o .. o + n - 1 : m[At(a, i)] \in Byte
  BY <1>3 DEF Memory
<1> QED BY <1>2, <1>4 DEF Put, Buffer

\* A chunk of the buffer, stored where it belongs: the bytes written are those of
\* a longer beginning.
LEMMA StoredByte ==
    ASSUME NEW m \in Memory, NEW b \in Buffer, NEW a \in Addr, NEW o \in Nat,
           NEW n \in {1, 4}, o + n <= MaxLen,
           NEW c, c = Stored(m, At(a, o), n, Taken(b, o, n)), NEW x \in Addr
    PROVE  /\ c[x] = IF Behind(a, x) \in o .. o + n - 1 THEN b[Behind(a, x)] ELSE m[x]
           /\ c[x] \in Byte
<1>1. /\ Behind(a, x) \in Addr
      /\ Behind(At(a, o), x) < n <=> Behind(a, x) \in o .. o + n - 1
      /\ Behind(At(a, o), x) < n => Behind(At(a, o), x) = Behind(a, x) - o
  BY BehindAt
<1>2. CASE Behind(a, x) \in o .. o + n - 1
  <2>1. c[x] = Taken(b, o, n)[Behind(a, x) - o]
    BY <1>1, <1>2 DEF Stored
  <2>2. Behind(a, x) - o \in 0 .. 3 /\ Behind(a, x) - o < n /\ o + (Behind(a, x) - o) = Behind(a, x)
    BY <1>1, <1>2 DEF Addr
  <2>3. c[x] = b[Behind(a, x)]
    BY <2>1, <2>2 DEF Taken
  <2> QED BY <1>2, <2>3 DEF Buffer
<1>3. CASE Behind(a, x) \notin o .. o + n - 1
  BY <1>1, <1>3 DEF Stored, Memory
<1> QED BY <1>2, <1>3

LEMMA StoredTyped ==
    ASSUME NEW m \in Memory, NEW b \in Buffer, NEW a \in Addr, NEW o \in Nat,
           NEW n \in {1, 4}, o + n <= MaxLen,
           NEW c, c = Stored(m, At(a, o), n, Taken(b, o, n))
    PROVE  c \in Memory
<1>1. \A x \in Addr : c[x] \in Byte
  BY StoredByte
<1>2. c = [x \in Addr |-> c[x]]
  BY DEF Stored
<1> QED BY <1>1, <1>2 DEF Memory

LEMMA WidthFits ==
    ASSUME TypeOK, offset < call.len
    PROVE  /\ Width(offset) \in {1, 4} /\ offset + Width(offset) <= call.len
           /\ CurAddr(offset) \in Addr
           /\ CurAddr(offset) = At(call.addr, offset)
           /\ Wide(offset) <=> Width(offset) = 4
<1>1. call.addr \in Addr /\ call.len \in 0 .. MaxLen /\ offset \in Nat
  BY CallTyped
<1>2. CurAddr(offset) \in Addr
  BY <1>1, AtTyped DEF CurAddr
<1> QED BY <1>1, <1>2 DEF Width, Wide, Remaining, CurAddr

---------------------------------------------------------------------------
LEMMA InitIInv == Init => IInv
<1> SUFFICES ASSUME Init PROVE IInv
  OBVIOUS
<1>1. TypeOK
  BY DEF Init, TypeOK, Value, Unused, Transfers, Place, Addr, Memory, Buffer
<1>2. Progress /\ WidthInv /\ RegisterInv
  BY DEF Init, Progress, WidthInv, RegisterInv, Iterating, Moving, Reading, Writing
<1>3. CopyInv
  BY DEF Init, CopyInv
<1> QED BY <1>1, <1>2, <1>3 DEF IInv

\* What an action that moves nothing has to show.
LEMMA Unmoved ==
    ASSUME CopyInv, result' # "error" => result # "error",
           UNCHANGED <<mem, buf, before, call, offset>>
    PROVE  CopyInv'
BY DEF CopyInv, Written

LEMMA CallStep ==
    ASSUME IInv, NEW c \in Transfers, NEW b \in Payloads, Call(c, b)
    PROVE  IInv'
<1>1. TypeOK'
  BY DEF IInv, Call, TypeOK, hart, Place, Transfers
<1>2. Progress' /\ WidthInv' /\ RegisterInv'
  BY DEF Call, Progress, WidthInv, RegisterInv, Iterating, Moving, Reading, Writing
<1>3. mem \in [Addr -> Byte] /\ call'.addr \in Addr /\ call'.len \in Nat
  BY DEF IInv, TypeOK, Memory, Call, Transfers
<1>4. Written(0)'
  <2> SUFFICES ASSUME NEW x \in Addr PROVE ~(Behind(call'.addr, x) < 0)
    BY DEF Call, Written
  <2> QED BY <1>3 DEF Behind, Addr
<1>5. CopyInv'
  BY <1>3, <1>4 DEF Call, CopyInv
<1> QED BY <1>1, <1>2, <1>5 DEF IInv

LEMMA OtherCommandStep ==
    ASSUME IInv, OtherCommand
    PROVE  IInv'
<1>1. TypeOK'
  BY DEF IInv, OtherCommand, TypeOK, Value, Unused
<1>2. Progress' /\ WidthInv' /\ RegisterInv'
  BY DEF IInv, OtherCommand, Progress, WidthInv, RegisterInv, Iterating, Moving, Reading, Writing
<1> QED BY <1>1, <1>2, Unmoved DEF IInv, OtherCommand

\* Every request may end the call with -1: nothing is in flight then.
LEMMA Returned ==
    ASSUME TypeOK', pc' = "idle", result' = "error", CopyInv'
    PROVE  IInv'
BY DEF IInv, Progress, WidthInv, RegisterInv, Iterating, Moving, Reading, Writing

LEMMA RefusedStep ==
    ASSUME IInv, Refused
    PROVE  IInv'
<1>1. TypeOK'
  BY DEF IInv, Refused, Return, TypeOK, Place, hart
<1>2. CopyInv'
  BY DEF IInv, Refused, Return, CopyInv, Written
<1> QED BY <1>1, <1>2, Returned DEF Refused, Return

\* The requests that move nothing, and leave data0, s0 or progbuf0 as told.
LEMMA PreparingStep ==
    ASSUME IInv,
           \/ WriteWideInsn \/ WriteEbreak \/ WriteNarrowInsn \/ WriteAddress
           \/ Load \/ Fetch \/ MoveAddress \/ WriteValue
    PROVE  IInv'
<1>0. UNCHANGED <<mem, buf, before, call, offset, calls>> /\ pc # "idle" /\ result = "busy"
  BY DEF IInv, TypeOK, Progress, WriteWideInsn, WriteEbreak, WriteNarrowInsn, WriteAddress, Load,
         Fetch, MoveAddress, WriteValue, hart
<1>1. call.addr \in Addr /\ call.len \in Nat /\ offset \in Nat /\ call.len <= MaxLen
  BY CallTyped DEF IInv
<1>2. pc \in Iterating => /\ CurAddr(offset) \in Addr
                          /\ Width(offset) \in {1, 4} /\ offset + Width(offset) <= call.len
  BY WidthFits DEF IInv, Progress
<1>3. pc \in Iterating => /\ Loaded(mem, CurAddr(offset), Width(offset)) \in Word
                          /\ Taken(buf, offset, Width(offset)) \in Word
  <2> SUFFICES ASSUME pc \in Iterating
               PROVE  /\ Loaded(mem, CurAddr(offset), Width(offset)) \in Word
                      /\ Taken(buf, offset, Width(offset)) \in Word
    OBVIOUS
  <2>1. offset + Width(offset) <= MaxLen /\ Width(offset) <= MaxLen
    BY <1>1, <1>2
  <2>2. mem \in Memory /\ buf \in Buffer
    BY DEF IInv, TypeOK
  <2>3. Loaded(mem, CurAddr(offset), Width(offset)) \in Word
    BY <1>2, <2>1, <2>2, LoadedTyped
  <2>4. Taken(buf, offset, Width(offset)) \in Word
    BY <1>1, <1>2, <2>1, <2>2, TakenTyped
  <2> QED BY <2>3, <2>4
<1>4. CopyInv'
  BY <1>0 DEF IInv, CopyInv, Written
<1>5. CASE WriteWideInsn
  <2>1. TypeOK'
    BY <1>0, <1>5 DEF IInv, WriteWideInsn, GoTo, Return, Iterate, TypeOK, Place, WideInsn, hart
  <2>2. Progress' /\ WidthInv' /\ RegisterInv'
    BY <1>0, <1>5 DEF IInv, WriteWideInsn, GoTo, Return, Iterate, Progress, WidthInv, RegisterInv,
       Iterating, Moving, Reading, Writing, WideInsn, NarrowInsn, Wide, Remaining, CurAddr, hart
  <2> QED BY <1>4, <2>1, <2>2 DEF IInv
<1>6. CASE WriteEbreak
  <2>0. call.len # 0 => offset < call.len
    BY <1>1, <1>6 DEF IInv, WriteEbreak, Progress
  <2>1. TypeOK'
    BY <1>0, <1>6 DEF IInv, WriteEbreak, GoTo, Return, Iterate, TypeOK, Place, hart
  <2>2. Progress' /\ WidthInv' /\ RegisterInv'
    BY <1>0, <1>6, <2>0 DEF IInv, WriteEbreak, GoTo, Return, Iterate, Progress, WidthInv, RegisterInv,
       Iterating, Moving, Reading, Writing, WideInsn, NarrowInsn, Wide, Remaining, CurAddr, hart
  <2> QED BY <1>4, <2>1, <2>2 DEF IInv
<1>7. CASE WriteNarrowInsn
  <2>1. TypeOK'
    BY <1>0, <1>7 DEF IInv, WriteNarrowInsn, GoTo, Return, TypeOK, Place, NarrowInsn, hart
  <2>2. Progress' /\ WidthInv' /\ RegisterInv'
    BY <1>0, <1>7 DEF IInv, WriteNarrowInsn, GoTo, Return, Progress, WidthInv, RegisterInv,
       Iterating, Moving, Reading, Writing, WideInsn, NarrowInsn, Wide, Remaining, CurAddr, hart
  <2> QED BY <1>4, <2>1, <2>2 DEF IInv
<1>8. CASE WriteAddress
  <2>1. TypeOK'
    BY <1>0, <1>2, <1>8 DEF IInv, WriteAddress, GoTo, Return, TypeOK, Place, Value, Iterating, Moving
  <2>2. Progress' /\ WidthInv' /\ RegisterInv'
    BY <1>0, <1>8 DEF IInv, TypeOK, Transfers, WriteAddress, GoTo, Return, Progress, WidthInv,
       RegisterInv, Iterating, Moving, Reading, Writing, WideInsn, NarrowInsn, Wide, Remaining, CurAddr
  <2> QED BY <1>4, <2>1, <2>2 DEF IInv
<1>9. CASE Load
  <2>0. /\ data0.addr = CurAddr(offset)
        /\ IF progbuf0 = "lw" THEN Width(offset) = 4 /\ CurAddr(offset) % 4 = 0 ELSE Width(offset) = 1
    BY <1>9 DEF IInv, Load, RegisterInv, WidthInv, Progress, Moving, Reading, Width, Wide, WideInsn,
       NarrowInsn
  <2>1. TypeOK'
    <3>1. s0' = [word |-> Loaded(mem, CurAddr(offset), Width(offset))]
      BY <1>9, <2>0 DEF Load
    <3>2. s0' \in Value
      BY <1>3, <1>9, <3>1 DEF Load, Value, Iterating, Moving, Reading
    <3> QED BY <1>0, <1>9, <2>0, <3>2 DEF IInv, Load, GoTo, Return, TypeOK, Place
  <2>2. Progress' /\ WidthInv' /\ RegisterInv'
    BY <1>0, <1>9, <2>0 DEF IInv, Load, GoTo, Return, Progress, WidthInv,
       RegisterInv, Iterating, Moving, Reading, Writing, WideInsn, NarrowInsn, Width, Wide, Remaining,
       CurAddr
  <2> QED BY <1>4, <2>1, <2>2 DEF IInv
<1>10. CASE Fetch
  <2>1. TypeOK'
    BY <1>0, <1>10 DEF IInv, Fetch, GoTo, Return, TypeOK, Place
  <2>2. Progress' /\ WidthInv' /\ RegisterInv'
    BY <1>0, <1>10 DEF IInv, Fetch, GoTo, Return, Progress, WidthInv,
       RegisterInv, Iterating, Moving, Reading, Writing, WideInsn, NarrowInsn, Width, Wide, Remaining,
       CurAddr
  <2> QED BY <1>4, <2>1, <2>2 DEF IInv
<1>11. CASE MoveAddress
  <2>1. TypeOK'
    BY <1>0, <1>11 DEF IInv, MoveAddress, GoTo, Return, TypeOK, Place
  <2>2. Progress' /\ WidthInv' /\ RegisterInv'
    BY <1>0, <1>11 DEF IInv, MoveAddress, GoTo, Return, Progress, WidthInv,
       RegisterInv, Iterating, Moving, Reading, Writing, WideInsn, NarrowInsn, Width, Wide, Remaining,
       CurAddr
  <2> QED BY <1>4, <2>1, <2>2 DEF IInv
<1>12. CASE WriteValue
  <2>1. TypeOK'
    BY <1>0, <1>3, <1>12 DEF IInv, WriteValue, GoTo, Return, TypeOK, Place, Value, Iterating, Moving,
       Writing
  <2>2. Progress' /\ WidthInv' /\ RegisterInv'
    BY <1>0, <1>12 DEF IInv, WriteValue, GoTo, Return, Progress, WidthInv,
       RegisterInv, Iterating, Moving, Reading, Writing, WideInsn, NarrowInsn, Width, Wide, Remaining,
       CurAddr
  <2> QED BY <1>4, <2>1, <2>2 DEF IInv
<1> QED BY <1>5, <1>6, <1>7, <1>8, <1>9, <1>10, <1>11, <1>12

---------------------------------------------------------------------------
(* The steps that move a chunk.                                            *)

LEMMA ChunkDoneAdvances ==
    ASSUME TypeOK, offset < call.len, UNCHANGED call, ChunkDone
    PROVE  /\ offset' = offset + Width(offset) /\ offset' \in Nat /\ offset' <= call.len
           /\ offset' = call.len => pc' = "idle" /\ result' = "ok"
           /\ offset' # call.len => /\ offset' < call.len /\ UNCHANGED result
                                    /\ pc' = IF Wide(offset) THEN Iterate(offset') ELSE "widen"
<1>1. offset \in Nat /\ call.len \in Nat
  BY CallTyped
<1>2. Width(offset) \in {1, 4} /\ offset + Width(offset) <= call.len
  BY WidthFits
<1> QED BY <1>1, <1>2 DEF ChunkDone, Return

\* After a chunk: the instruction is the next iteration's, or will be put there.
LEMMA MovedOn ==
    ASSUME IInv, pc \in {"result", "store"}, ChunkDone, UNCHANGED <<call, progbuf0>>
    PROVE  Progress' /\ WidthInv' /\ RegisterInv' /\ pc' \in Place
           /\ result' \in {"busy", "ok"} /\ offset' \in 0 .. call.len
<1>0. TypeOK /\ offset < call.len /\ call.len \in Nat
  BY CallTyped DEF IInv, Progress, Iterating, Moving, Reading, Writing
<1>1. /\ offset' = offset + Width(offset) /\ offset' \in Nat /\ offset' <= call.len
      /\ offset' = call.len => pc' = "idle" /\ result' = "ok"
      /\ offset' # call.len => /\ offset' < call.len /\ UNCHANGED result
                               /\ pc' = IF Wide(offset) THEN Iterate(offset') ELSE "widen"
  BY <1>0, ChunkDoneAdvances
<1>2. result = "busy" /\ progbuf0 = IF Wide(offset) THEN WideInsn ELSE NarrowInsn
  BY DEF IInv, TypeOK, Progress, WidthInv, Moving, Reading, Writing
<1>3. Progress'
  BY <1>0, <1>1, <1>2 DEF Progress, Iterate, Iterating, Moving, Reading, Writing
<1>4. WidthInv'
  BY <1>0, <1>1, <1>2 DEF WidthInv, Iterate, Iterating, Moving, Reading, Writing, WideInsn, NarrowInsn,
     Wide, Remaining, CurAddr
<1>5. RegisterInv'
  BY <1>1 DEF RegisterInv, Iterate
<1> QED BY <1>0, <1>1, <1>2, <1>3, <1>4, <1>5 DEF Place, Iterate

LEMMA ReadResultStep ==
    ASSUME IInv, ReadResult
    PROVE  IInv'
<1>0. /\ TypeOK /\ offset < call.len /\ call.op = "read" /\ result = "busy"
      /\ data0 = [word |-> Loaded(mem, CurAddr(offset), Width(offset))]
      /\ pc = "result" /\ ChunkDone
      /\ UNCHANGED <<mem, before, call, progbuf0, data0, s0, s1, calls>>
  BY DEF IInv, TypeOK, ReadResult, Progress, RegisterInv, Iterating, Moving, Reading, hart
<1>1. /\ call.addr \in Addr /\ call.len \in 0 .. MaxLen /\ offset \in Nat
      /\ Width(offset) \in {1, 4} /\ offset + Width(offset) <= call.len
      /\ CurAddr(offset) = At(call.addr, offset)
  BY <1>0, CallTyped, WidthFits
<1>2. /\ buf' \in Buffer
      /\ \A i \in 0 .. offset - 1 : buf'[i] = buf[i]
      /\ \A i \in offset .. offset + Width(offset) - 1 : buf'[i] = mem[At(call.addr, i)]
  <2>1. buf' = Put(buf, offset, Width(offset), Loaded(mem, At(call.addr, offset), Width(offset)))
    BY <1>0, <1>1 DEF ReadResult
  <2>2. mem \in Memory /\ buf \in Buffer /\ offset + Width(offset) <= MaxLen
    BY <1>0, <1>1 DEF TypeOK
  <2> QED BY <1>1, <2>1, <2>2, PutLoaded, SMTT(20)
<1>3. /\ Progress' /\ WidthInv' /\ RegisterInv' /\ pc' \in Place
      /\ result' \in {"busy", "ok"} /\ offset' \in 0 .. call.len
  BY <1>0, MovedOn
<1>4. TypeOK'
  BY <1>0, <1>2, <1>3 DEF TypeOK
<1>5. offset' = offset + Width(offset)
  BY <1>0, ChunkDoneAdvances
<1>6. CopyInv'
  <2>1. \A i \in 0 .. offset - 1 : buf[i] = mem[At(call.addr, i)]
    BY <1>0 DEF IInv, CopyInv
  <2>2. mem = before
    BY <1>0 DEF IInv, CopyInv
  <2>3. \A i \in 0 .. offset' - 1 : i \in 0 .. offset - 1 \/ i \in offset .. offset + Width(offset) - 1
    BY <1>1, <1>5
  <2> QED BY <1>0, <1>2, <2>1, <2>2, <2>3 DEF CopyInv
<1> QED BY <1>3, <1>4, <1>6 DEF IInv

\* What the hart stores is the chunk at offset.
LEMMA StoreEffect ==
    ASSUME IInv, Store
    PROVE  /\ TypeOK /\ offset < call.len /\ call.op = "write" /\ result = "busy" /\ pc = "store"
           /\ UNCHANGED <<buf, before, call, progbuf0, data0, s0, calls>> /\ s1' = data0
           /\ mem' = Stored(mem, At(call.addr, offset), Width(offset), Taken(buf, offset, Width(offset)))
           /\ ChunkDone \/ (Return("error") /\ UNCHANGED offset)
<1>1. /\ TypeOK /\ offset < call.len /\ call.op = "write" /\ result = "busy" /\ pc = "store"
      /\ UNCHANGED <<buf, before, call, progbuf0, data0, s0, calls>> /\ s1' = data0
  BY DEF IInv, TypeOK, Store, Progress, Iterating, Moving, Writing
<1>2. /\ s0.addr = At(call.addr, offset)
      /\ data0.word = Taken(buf, offset, Width(offset))
      /\ IF progbuf0 = "sw" THEN Width(offset) = 4 /\ At(call.addr, offset) % 4 = 0
         ELSE Width(offset) = 1
  BY <1>1 DEF IInv, RegisterInv, WidthInv, Moving, Writing, Width, Wide, WideInsn, NarrowInsn, CurAddr
<1> QED BY <1>1, <1>2 DEF Store

LEMMA StoreStep ==
    ASSUME IInv, Store
    PROVE  IInv'
<1>0. /\ TypeOK /\ offset < call.len /\ call.op = "write" /\ result = "busy" /\ pc = "store"
      /\ UNCHANGED <<buf, before, call, progbuf0, data0, s0, calls>> /\ s1' = data0
      /\ mem' = Stored(mem, At(call.addr, offset), Width(offset), Taken(buf, offset, Width(offset)))
      /\ ChunkDone \/ (Return("error") /\ UNCHANGED offset)
  BY StoreEffect
<1>1. /\ call.addr \in Addr /\ call.len \in 0 .. MaxLen /\ offset \in Nat
      /\ Width(offset) \in {1, 4} /\ offset + Width(offset) <= call.len
  BY <1>0, CallTyped, WidthFits
<1>2. /\ mem' \in Memory
      /\ \A x \in Addr : mem'[x] = IF Behind(call.addr, x) \in offset .. offset + Width(offset) - 1
                                    THEN buf[Behind(call.addr, x)] ELSE mem[x]
  <2>1. mem \in Memory /\ buf \in Buffer /\ offset + Width(offset) <= MaxLen
    BY <1>0, <1>1 DEF TypeOK
  <2>2. mem' = Stored(mem, At(call.addr, offset), Width(offset), Taken(buf, offset, Width(offset)))
    BY <1>0
  <2>3. mem' \in Memory
    BY <1>1, <2>1, <2>2, StoredTyped
  <2>4. ASSUME NEW x \in Addr
        PROVE  mem'[x] = IF Behind(call.addr, x) \in offset .. offset + Width(offset) - 1
                         THEN buf[Behind(call.addr, x)] ELSE mem[x]
    BY <1>1, <2>1, <2>2, StoredByte
  <2> QED BY <2>3, <2>4
<1>3. \A x \in Addr : Behind(call.addr, x) \in Addr
  BY <1>1 DEF Behind, Addr
<1>4. Written(offset)
  BY <1>0 DEF IInv, CopyInv
<1>5. \A x \in Addr : mem'[x] = IF Behind(call.addr, x) < offset + Width(offset)
                                THEN buf[Behind(call.addr, x)] ELSE before[x]
  <2> TAKE x \in Addr
  <2>1. mem[x] = IF Behind(call.addr, x) < offset THEN buf[Behind(call.addr, x)] ELSE before[x]
    BY <1>4 DEF Written
  <2>2. Behind(call.addr, x) \in Nat
    BY <1>3 DEF Addr
  <2> QED BY <1>1, <1>2, <2>1, <2>2
<1>6. CASE ChunkDone
  <2>1. /\ Progress' /\ WidthInv' /\ RegisterInv' /\ pc' \in Place
        /\ result' \in {"busy", "ok"} /\ offset' \in 0 .. call.len
    BY <1>0, <1>6, MovedOn
  <2>2. offset' = offset + Width(offset)
    BY <1>0, <1>6, ChunkDoneAdvances
  <2>3. TypeOK'
    BY <1>0, <1>2, <2>1 DEF TypeOK
  <2>4. Written(offset)'
    BY <1>0, <1>5, <2>2 DEF Written
  <2>5. CopyInv'
    <3>1. offset' \in offset' .. call'.len
      BY <1>0, <1>1, <2>1
    <3>2. \E n \in offset' .. call'.len :
            \A x \in Addr : mem'[x] = IF Behind(call'.addr, x) < n
                                      THEN buf'[Behind(call'.addr, x)] ELSE before'[x]
      BY <2>4, <3>1 DEF Written
    <3> QED BY <1>0, <2>4, <3>2 DEF CopyInv, Written
  <2> QED BY <2>1, <2>3, <2>5 DEF IInv
<1>7. CASE Return("error") /\ UNCHANGED offset
  <2>1. TypeOK'
    BY <1>0, <1>2, <1>7 DEF TypeOK, Return, Place
  <2>2. CopyInv'
    <3>1. offset + Width(offset) \in offset' .. call'.len
      BY <1>0, <1>1, <1>7
    <3>2. \A x \in Addr : mem'[x] = IF Behind(call'.addr, x) < offset + Width(offset)
                                    THEN buf'[Behind(call'.addr, x)] ELSE before'[x]
      BY <1>0, <1>5
    <3>3. \E n \in offset' .. call'.len :
            \A x \in Addr : mem'[x] = IF Behind(call'.addr, x) < n
                                      THEN buf'[Behind(call'.addr, x)] ELSE before'[x]
      BY <3>1, <3>2
    <3> QED BY <1>0, <1>7, <3>3 DEF CopyInv, Written, Return
  <2> QED BY <1>7, <2>1, <2>2, Returned DEF Return
<1> QED BY <1>0, <1>6, <1>7

LEMMA IInvStep == IInv /\ [Next]_vars => IInv'
<1> SUFFICES ASSUME IInv, [Next]_vars PROVE IInv'
  OBVIOUS
<1>1. CASE UNCHANGED vars
  <2>1. TypeOK'
    BY <1>1 DEF IInv, TypeOK, vars, hart
  <2>2. Progress' /\ WidthInv'
    BY <1>1 DEF IInv, Progress, WidthInv, WideInsn, NarrowInsn, Wide, Remaining, CurAddr, vars
  <2>3. RegisterInv'
    BY <1>1 DEF IInv, RegisterInv, Width, Wide, Remaining, CurAddr, vars, hart
  <2>4. CopyInv'
    BY <1>1 DEF IInv, CopyInv, Written, vars
  <2> QED BY <2>1, <2>2, <2>3, <2>4 DEF IInv
<1>2. ASSUME NEW c \in Transfers, NEW b \in Payloads, Call(c, b) PROVE IInv'
  BY <1>2, CallStep
<1>3. CASE OtherCommand
  BY <1>3, OtherCommandStep
<1>4. CASE Driver
  BY <1>4, RefusedStep, PreparingStep, ReadResultStep, StoreStep DEF Driver
<1> QED BY <1>1, <1>2, <1>3, <1>4 DEF Next

LEMMA Invariant == Spec => []IInv
BY InitIInv, IInvStep, PTL DEF Spec

\* Type correctness of the driver's state.
THEOREM TypeCorrect == Spec => []TypeOK
BY Invariant, PTL DEF IInv

\* dm_read_memory returns the target's bytes, whatever the alignment of the start
\* and the length, and changes nothing.
THEOREM ReadCorrect == Spec => []ReadsTheTarget
<1>1. IInv => ReadsTheTarget
  BY DEF IInv, CopyInv, Progress, ReadsTheTarget
<1> QED BY <1>1, Invariant, PTL

\* dm_write_memory writes a beginning of the buffer, all of it when it returns 0,
\* and no byte outside.
THEOREM WriteCorrect == Spec => []WritesAPrefix
<1>1. IInv => WritesAPrefix
  <2> SUFFICES ASSUME IInv, call.op = "write" PROVE WritesAPrefix
    BY DEF WritesAPrefix
  <2>1. call.len \in Nat /\ offset \in Nat /\ offset <= call.len
    BY CallTyped DEF IInv
  <2>2. CASE result = "ok"
    <3>1. offset = call.len /\ Written(offset)
      BY <2>2 DEF IInv, Progress, CopyInv
    <3>2. call.len \in 0 .. call.len /\ Written(call.len)
      BY <2>1, <3>1
    <3> QED BY <2>1, <3>1, <3>2 DEF WritesAPrefix, Written
  <2>3. CASE result # "ok"
    <3>1. PICK n \in offset .. call.len : Written(n)
      BY DEF IInv, CopyInv
    <3>2. n \in 0 .. call.len /\ n >= offset
      BY <2>1
    <3> QED BY <2>3, <3>1, <3>2 DEF WritesAPrefix, Written
  <2> QED BY <2>2, <2>3
<1> QED BY <1>1, Invariant, PTL

---------------------------------------------------------------------------
(* The promise.                                                            *)

LEMMA PromiseInit == Init => Promise!Init
BY DEF Init, Promise!Init, Memory, Buffer, Promise!Memory, Promise!Buffer, Addr, Promise!Addr

LEMMA PromiseCall ==
    ASSUME IInv, NEW c \in Transfers, NEW b \in Payloads, Call(c, b)
    PROVE  Promise!Next
BY DEF IInv, Progress, Call, Promise!Next, Promise!Begin, Promise!Transfers, Promise!Buffer,
   Promise!Addr, Transfers, Buffer, Addr

LEMMA PromisePreparing ==
    ASSUME IInv,
           \/ Refused \/ WriteWideInsn \/ WriteEbreak \/ WriteNarrowInsn \/ WriteAddress
           \/ Load \/ Fetch \/ MoveAddress \/ WriteValue
    PROVE  Promise!Next \/ UNCHANGED Promise!vars
<1>1. UNCHANGED <<mem, buf, call, offset>> /\ pc # "idle" /\ result = "busy"
  BY DEF IInv, TypeOK, Progress, Refused, WriteWideInsn, WriteEbreak, WriteNarrowInsn, WriteAddress,
     Load, Fetch, MoveAddress, WriteValue
<1>2. result' = result \/ result' = "error" \/ (call.len = 0 /\ result' = "ok")
  <2>1. CASE WriteEbreak
    BY <2>1 DEF WriteEbreak, GoTo, Return
  <2>2. CASE Load
    BY <2>2 DEF Load, GoTo, Return
  <2>3. CASE Refused \/ WriteWideInsn \/ WriteNarrowInsn \/ WriteAddress
    BY <2>3 DEF Refused, WriteWideInsn, WriteNarrowInsn, WriteAddress, GoTo, Return
  <2>4. CASE Fetch \/ MoveAddress \/ WriteValue
    BY <2>4 DEF Fetch, MoveAddress, WriteValue, GoTo, Return
  <2> QED BY <2>1, <2>2, <2>3, <2>4
<1> QED BY <1>1, <1>2 DEF Promise!Next, Promise!vars, Promise!GiveUp, Promise!NothingToCopy

LEMMA PromiseAdvance ==
    ASSUME TypeOK, offset < call.len, result = "busy", UNCHANGED call, ChunkDone
    PROVE  Promise!Advance(Width(offset))
<1>1. /\ offset' = offset + Width(offset)
      /\ offset' = call.len => result' = "ok"
      /\ offset' # call.len => UNCHANGED result
  BY ChunkDoneAdvances
<1>2. offset + Width(offset) <= call.len
  BY WidthFits
<1> QED BY <1>1, <1>2 DEF Promise!Advance

LEMMA PromiseRead ==
    ASSUME IInv, ReadResult
    PROVE  Promise!Next
<1>0. /\ TypeOK /\ offset < call.len /\ call.op = "read" /\ result = "busy"
      /\ data0 = [word |-> Loaded(mem, CurAddr(offset), Width(offset))]
      /\ ChunkDone /\ UNCHANGED <<mem, call>>
      /\ buf' = Put(buf, offset, Width(offset), data0.word)
  BY DEF IInv, TypeOK, ReadResult, Progress, RegisterInv, Iterating, Moving, Reading, hart
<1>1. Width(offset) \in {1, 4}
  BY <1>0, WidthFits
<1>2. Promise!Advance(Width(offset))
  BY <1>0, PromiseAdvance
<1>3. buf' = Promise!Put(buf, offset, Width(offset), Promise!Loaded(mem, Promise!Here, Width(offset)))
  BY <1>0 DEF Promise!Put, Promise!Loaded, Promise!Here, Promise!At, Put, Loaded, At, CurAddr
<1>4. Promise!CopyFromTarget(Width(offset))
  BY <1>0, <1>2, <1>3 DEF Promise!CopyFromTarget
<1> QED BY <1>1, <1>4 DEF Promise!Next

LEMMA PromiseStore ==
    ASSUME IInv, Store
    PROVE  Promise!Next
<1>0. /\ TypeOK /\ offset < call.len /\ call.op = "write" /\ result = "busy"
      /\ UNCHANGED <<buf, call>>
      /\ mem' = Stored(mem, At(call.addr, offset), Width(offset), Taken(buf, offset, Width(offset)))
      /\ ChunkDone \/ (Return("error") /\ UNCHANGED offset)
  BY StoreEffect
<1>1. Width(offset) \in {1, 4} /\ offset + Width(offset) <= call.len
  BY <1>0, WidthFits
<1>2. mem' = Promise!Stored(mem, Promise!Here, Width(offset), Promise!Taken(buf, offset, Width(offset)))
  BY <1>0 DEF Promise!Stored, Promise!Taken, Promise!Here, Promise!At, Promise!Behind, Promise!Addr,
     Stored, Taken, At, Behind, Addr
<1>3. CASE ChunkDone
  <2>1. Promise!Advance(Width(offset))
    BY <1>0, <1>3, PromiseAdvance
  <2>2. Promise!CopyToTarget(Width(offset))
    BY <1>0, <1>2, <2>1 DEF Promise!CopyToTarget
  <2> QED BY <1>1, <2>2 DEF Promise!Next
<1>4. CASE Return("error") /\ UNCHANGED offset
  BY <1>0, <1>1, <1>2, <1>4 DEF Return, Promise!GiveUp, Promise!Next
<1> QED BY <1>0, <1>3, <1>4

\* Seen through memory, buffer and result, the requests of the program buffer are
\* RemoteMemory: bytes in order, each once, and an honest return value.
THEOREM ImplementsPromise == Spec => ImplementsRemoteMemory
<1>1. IInv /\ [Next]_vars => [Promise!Next]_Promise!vars
  <2> SUFFICES ASSUME IInv, [Next]_vars PROVE [Promise!Next]_Promise!vars
    OBVIOUS
  <2>1. CASE UNCHANGED vars
    BY <2>1 DEF vars, Promise!vars
  <2>2. CASE OtherCommand
    BY <2>2 DEF OtherCommand, Promise!vars
  <2>3. ASSUME NEW c \in Transfers, NEW b \in Payloads, Call(c, b)
        PROVE  [Promise!Next]_Promise!vars
    BY <2>3, PromiseCall
  <2>4. CASE Driver
    BY <2>4, PromisePreparing, PromiseRead, PromiseStore DEF Driver
  <2> QED BY <2>1, <2>2, <2>3, <2>4 DEF Next
<1> QED BY <1>1, PromiseInit, Invariant, PTL DEF Spec, ImplementsRemoteMemory, Promise!Spec
=============================================================================
