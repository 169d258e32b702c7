-------------------------- MODULE FileLoaderProofs --------------------------
(***************************************************************************)
(* Theorems about FileLoader, for every number of names, slots and blocks, *)
(* every allocator and every size: memory and table of the file system     *)
(* stay sound, responses are true, a copy taken without a lock is the file *)
(* unless its slot was written meanwhile, and the FPGA is left in          *)
(* programming mode only by a wait that was given up.                      *)
(***************************************************************************)
EXTENDS FileLoader, WellFoundedInduction, TLAPS

---------------------------------------------------------------------------
(* The inductive invariant: the types; what the operation in progress and  *)
(* the file task know of each other; owners, by kind; and why a response   *)
(* will be true.                                                           *)

FilesType ==
    /\ files \in [Slots -> File] /\ \A s \in Slots : files[s].size <= MaxSize
    /\ heap \in [Blocks -> [ver : Versions \cup {0}, len : 0 .. MaxSize]]
    /\ mutex \in BOOLEAN /\ op \in Operation
    /\ arrived \in 0 .. MaxCommands /\ queued \in 0 .. QueueDepth /\ fm \in FileTask /\ changed \in BOOLEAN

LoaderType ==
    /\ ld \in Loading
    /\ fpga \in [isc : BOOLEAN, loaded : Seq(Versions \cup {0})]
    /\ raced \in BOOLEAN /\ fault \in BOOLEAN /\ timedOut \in BOOLEAN

InProgress == {"copy", "store", "drop", "delete"} \cup Critical

\* The operation in progress: its copy, and how far its slot is.
OpInv ==
    /\ mutex <=> op.pc \in Critical
    /\ op.pc \in InProgress => fm.pc = "wait" /\ op.name = fm.name
    /\ op.pc = "copy" => op.src = fm.buf /\ fm.buf \in Blocks
    /\ op.pc \in {"store", "drop"} => op.data \in Blocks
    /\ op.pc \in Results \cup {"copy", "delete", "name"} => op.data = Null
    /\ op.data = Null /\ op.pc # "copy" => op.size = 0
    /\ op.data \in Blocks => op.size = heap[op.data].len
    /\ op.size <= MaxSize
    /\ op.pc \in Critical => files[op.slot].name = op.name
    /\ op.pc = "free" => files[op.slot].data \in Blocks
    /\ op.pc \in {"size", "name"} => files[op.slot].data = op.data
    /\ op.pc = "name" => files[op.slot].size = 0

\* The file task and its buffer.
FmInv ==
    /\ fm.pc = "read" => fm.buf \in Blocks
    /\ fm.pc \in {"idle", "start", "ok", "error"} => fm.buf = Null
    /\ fm.pc \in {"idle", "start"} => fm.total = 0
    /\ fm.pc = "idle" => fm.action = "none"
    /\ UnknownLengthReadToItsEnd

\* The three kinds of owners.
SlotOwns(s, b) == files[s].data = b /\ ~(op.pc = "data" /\ op.slot = s)
CopyOwns(b)    == op.data = b /\ op.pc \in {"store", "drop", "free", "data"}

OwnerInv ==
    \A b \in Blocks :
        /\ (heap[b] # Freed) = (fm.buf = b \/ CopyOwns(b) \/ \E s \in Slots : SlotOwns(s, b))
        /\ ~(fm.buf = b /\ CopyOwns(b))
        /\ \A s \in Slots : SlotOwns(s, b) =>
             /\ fm.buf # b /\ ~CopyOwns(b)
             /\ \A t \in Slots : SlotOwns(t, b) => s = t

Downloaded == [ver |-> fm.ver, len |-> fm.total]

\* What the command asked for is there.
Done ==
    CASE fm.action = "download" -> \E s \in SlotsOf(fm.name) : heap[files[s].data] = Downloaded
      [] fm.action = "delete"   -> SlotsOf(fm.name) = {}
      [] OTHER                  -> ~changed

ResponseInv ==
    /\ fm.pc \in {"read", "wait"} /\ fm.action = "download" =>
         fm.buf \in Blocks /\ heap[fm.buf].ver = fm.ver
    /\ fm.pc = "read" => fm.action = "download"
    /\ fm.pc = "wait" => fm.action \in {"download", "delete"}
    /\ op.pc = "copy" => fm.action = "download" /\ op.size = fm.total
    /\ op.pc \in InProgress \ {"copy"} =>
         IF op.data = Null THEN fm.action = "delete"
                           ELSE fm.action = "download" /\ heap[op.data] = Downloaded
    /\ fm.pc = "ok" \/ (fm.pc = "wait" /\ op.pc = "ok") => Done
    /\ fm.pc # "ok" /\ ~(fm.pc = "wait" /\ op.pc \in Critical \cup {"ok"}) => ~changed

\* The GDB task's slot, and the FPGA's mode.
LoaderInv ==
    /\ LoaderType
    /\ ld.pc \in {"halt", "take"} => ld.slot \in Slots
    /\ InIscOnlyAfterTimeout

FsInv == FilesType /\ OpInv /\ FmInv /\ TableIsSound /\ OwnerInv /\ ResponseInv
IInv  == FsInv /\ LoaderInv

LEMMA LeastNat ==
    ASSUME NEW S, S \subseteq Nat, S # {}
    PROVE  \E s \in S : \A t \in S : s <= t
<1> DEFINE R == OpToRel(<, Nat)
<1>1. IsWellFoundedOn(R, Nat)
  BY NatLessThanWellFounded
<1>2. PICK s \in S : \A t \in S : ~(<<t, s>> \in R)
  <2> HIDE DEF R
  <2> QED
    BY <1>1, WFMin, Zenon
<1>3. \A t \in S : ~(t < s)
  BY <1>2 DEF OpToRel
<1> QED
  BY <1>3

USE RamFsAssumption, FileManagerAssumption

---------------------------------------------------------------------------
(* Operators.                                                              *)

\* A search loop over slots stops at a first one.
LEMMA FirstIsThere ==
    ASSUME NEW S, S \subseteq Slots, S # {}
    PROVE  First(S) \in S
<1>1. S \subseteq Nat
  BY DEF Slots
<1>2. \E s \in S : \A t \in S : s <= t
  BY <1>1, LeastNat, Zenon
<1> QED
  BY <1>2 DEF First

LEMMA AnyName == (CHOOSE n \in Names : TRUE) \in Names
OBVIOUS

LEMMA NoOperationType ==
    ASSUME NEW r \in Results
    PROVE  NoOperation(r) \in Operation
<1>1. 1 \in Slots
  BY DEF Slots
<1> QED
  BY <1>1, AnyName DEF NoOperation, Operation

LEMMA IdleType ==
    Idle \in FileTask /\ Idle.pc = "idle" /\ Idle.action = "none" /\ Idle.buf = Null /\ Idle.total = 0
<1> DEFINE name == CHOOSE n \in Names : TRUE
<1>1. name \in Names
  BY AnyName
<1> HIDE DEF name
<1>2. [pc |-> "idle", action |-> "none", name |-> name, buf |-> Null, cap |-> 0,
       total |-> 0, known |-> FALSE, ver |-> 0] \in FileTask
  BY <1>1 DEF FileTask
<1> QED
  BY <1>2 DEF Idle, name

LEMMA ErrorType ==
    ASSUME Error
    PROVE  fm' \in FileTask /\ fm'.pc = "error" /\ fm'.buf = Null
<1> HIDE DEF Idle
<1> QED
  BY IdleType DEF Error, FileTask

\* Malloc returns a block that nobody has.
LEMMA CandidatesAreFree ==
    ASSUME NEW b \in Candidates
    PROVE  b \in Blocks /\ heap[b] = Freed
<1>1. {c \in Blocks : heap[c] = Freed} \in SUBSET Blocks
  OBVIOUS
<1> QED
  BY <1>1 DEF Candidates

LEMMA FreeType ==
    ASSUME heap \in [Blocks -> [ver : Versions \cup {0}, len : 0 .. MaxSize]], NEW d
    PROVE  Free(d) \in [Blocks -> [ver : Versions \cup {0}, len : 0 .. MaxSize]]
BY DEF Free, Freed

\* What the file system's part of a step has to keep.
FsStep(A) == A /\ changed' = (changed \/ files' # files) /\ UNCHANGED <<arrived, queued, fm>>

---------------------------------------------------------------------------
(* The file system.                                                        *)

LEMMA AllocateKeeps ==
    ASSUME FsInv, FsStep(Allocate)
    PROVE  FsInv'
<1> USE DEF FsInv, FsStep
<1>0. op.pc = "copy" /\ fm.pc = "wait" /\ files' = files /\ changed' = changed /\ mutex' = mutex
      /\ UNCHANGED <<arrived, queued, fm>>
  BY DEF Allocate, OpInv, InProgress, FilesType
<1>1. CASE Return("no_mem") /\ UNCHANGED heap
  <2>1. op' = NoOperation("no_mem") /\ op'.pc = "no_mem" /\ op'.data = Null /\ op'.size = 0 /\ heap' = heap
    BY <1>1 DEF Return, NoOperation
  <2>2. FilesType'
    BY <1>0, <2>1, NoOperationType DEF FilesType, Results
  <2>3. OpInv'
    BY <1>0, <2>1 DEF OpInv, FilesType, InProgress, Critical, Results
  <2>4. FmInv'
    BY <1>0 DEF FmInv, UnknownLengthReadToItsEnd
  <2>5. TableIsSound'
    BY <1>0, <2>1 DEF TableIsSound, SlotsOf, Critical
  <2>6. OwnerInv'
    BY <1>0, <2>1 DEF OwnerInv, SlotOwns, CopyOwns, FilesType, OpInv, Results
  <2>7. ResponseInv'
    BY <1>0, <2>1 DEF ResponseInv, Done, SlotsOf, Downloaded, InProgress, Critical
  <2> QED
    BY <2>2, <2>3, <2>4, <2>5, <2>6, <2>7
<1>2. ASSUME NEW b \in Candidates, op.size > 0,
             heap' = [heap EXCEPT ![b] = [ver |-> heap[op.src].ver, len |-> op.size]],
             op' = [op EXCEPT !.pc = "store", !.data = b]
      PROVE  FsInv'
  <2>1. b \in Blocks /\ heap[b] = Freed /\ fm.buf \in Blocks /\ op.src = fm.buf /\ op.size \in 1 .. MaxSize
    BY <1>0, <1>2, CandidatesAreFree DEF OpInv, FilesType, Operation
  <2>2. /\ op' \in Operation /\ op'.pc = "store" /\ op'.data = b /\ op'.size = op.size
        /\ op'.name = op.name /\ op'.slot = op.slot
    BY <1>2, <2>1 DEF FilesType, Operation
  <2>3. FilesType'
    BY <1>0, <1>2, <2>1, <2>2 DEF FilesType
  <2>4. heap'[b] # Freed /\ heap'[b].len = op.size /\ \A c \in Blocks \ {b} : heap'[c] = heap[c]
    BY <1>2, <2>1 DEF FilesType, Freed
  <2>5. OpInv'
    BY <1>0, <2>1, <2>2, <2>4 DEF OpInv, InProgress, Critical, Results
  <2>6. FmInv'
    BY <1>0 DEF FmInv, UnknownLengthReadToItsEnd
  <2>7. fm.buf # b /\ \A s \in Slots : files[s].data # b
    BY <1>0, <2>1 DEF OwnerInv, SlotOwns, CopyOwns
  <2>8. TableIsSound'
    BY <1>0, <2>2, <2>4, <2>7 DEF TableIsSound, SlotsOf, Critical
  <2>9. OwnerInv'
    BY <1>0, <2>1, <2>2, <2>4, <2>7 DEF OwnerInv, SlotOwns, CopyOwns, FilesType, OpInv, Results
  <2>10. ResponseInv'
    BY <1>0, <1>2, <2>1, <2>2, <2>4, <2>7 DEF ResponseInv, Done, SlotsOf, Downloaded, InProgress, Critical, FilesType
  <2> QED
    BY <2>3, <2>5, <2>6, <2>8, <2>9, <2>10
<1> QED
  BY <1>1, <1>2 DEF Allocate

LEMMA UpdateKeeps ==
    ASSUME FsInv, FsStep(Update)
    PROVE  FsInv'
<1> USE DEF FsInv, FsStep
<1> DEFINE s == First(SlotsOf(op.name))
<1>0. /\ op.pc = "store" /\ fm.pc = "wait" /\ ~mutex /\ mutex' = TRUE
      /\ files' = files /\ heap' = heap /\ changed' = changed /\ UNCHANGED <<arrived, queued, fm>>
  BY DEF Update, OpInv, InProgress, FilesType
<1>1. s \in SlotsOf(op.name)
  BY FirstIsThere DEF Update, SlotsOf
<1>2. s \in Slots /\ files[s].name = op.name /\ op.name \in Names
  BY <1>1 DEF SlotsOf, FilesType, Operation
<1>3. op' = [op EXCEPT !.pc = "free", !.slot = s]
  BY DEF Update
<1> HIDE DEF s
<1>4. /\ op' \in Operation /\ op'.pc = "free" /\ op'.slot = s /\ op'.data = op.data
      /\ op'.size = op.size /\ op'.name = op.name
  BY <1>2, <1>3 DEF FilesType, Operation, Critical
<1>5. files[s].data \in Blocks
  BY <1>0, <1>2 DEF TableIsSound, Critical
<1>6. FilesType'
  BY <1>0, <1>4 DEF FilesType
<1>7. OpInv'
  BY <1>0, <1>2, <1>4, <1>5 DEF OpInv, InProgress, Critical, Results
<1>8. FmInv'
  BY <1>0 DEF FmInv, UnknownLengthReadToItsEnd
<1>9. TableIsSound'
  BY <1>0, <1>4 DEF TableIsSound, Critical
<1>10. OwnerInv'
  BY <1>0, <1>4 DEF OwnerInv, SlotOwns, CopyOwns
<1>11. ResponseInv'
  BY <1>0, <1>4 DEF ResponseInv, Done, SlotsOf, Downloaded, InProgress, Critical
<1> QED
  BY <1>6, <1>7, <1>8, <1>9, <1>10, <1>11

LEMMA CreateKeeps ==
    ASSUME FsInv, FsStep(Create)
    PROVE  FsInv'
<1> USE DEF FsInv, FsStep
<1> DEFINE s == First(SlotsOf(NoName))
<1>0. /\ op.pc = "store" /\ fm.pc = "wait" /\ ~mutex /\ mutex' = TRUE /\ SlotsOf(op.name) = {}
      /\ heap' = heap /\ UNCHANGED <<arrived, queued, fm>>
  BY DEF Create, OpInv, InProgress, FilesType
<1>1. s \in SlotsOf(NoName)
  BY FirstIsThere DEF Create, SlotsOf
<1>2. s \in Slots /\ files[s].name = NoName /\ op.name \in Names
  BY <1>1 DEF SlotsOf, FilesType, Operation
<1>3. /\ op' = [op EXCEPT !.pc = "data", !.slot = s]
      /\ files' = [files EXCEPT ![s].name = op.name]
  BY DEF Create
<1> HIDE DEF s
<1>4. /\ op' \in Operation /\ op'.pc = "data" /\ op'.slot = s /\ op'.data = op.data
      /\ op'.size = op.size /\ op'.name = op.name
  BY <1>2, <1>3 DEF FilesType, Operation, Critical
<1>5. /\ files' \in [Slots -> File]
      /\ files'[s] = [files[s] EXCEPT !.name = op.name]
      /\ \A t \in Slots \ {s} : files'[t] = files[t]
  BY <1>2, <1>3 DEF FilesType, File
<1>6. FilesType'
  <2>1. \A t \in Slots : files'[t].size <= MaxSize
    BY <1>2, <1>5 DEF FilesType, File
  <2> QED
    BY <1>0, <1>4, <1>5, <2>1 DEF FilesType
<1>7. OpInv'
  <2>1. files'[s].name = op.name
    BY <1>2, <1>5 DEF FilesType, File
  <2> QED
    BY <1>0, <1>4, <2>1 DEF OpInv, InProgress, Critical, Results
<1>8. FmInv'
  BY <1>0 DEF FmInv, UnknownLengthReadToItsEnd
<1>9. files[s].data = Null /\ files'[s].data = Null
  BY <1>0, <1>2, <1>5 DEF TableIsSound, Critical, FilesType, File
<1>10. TableIsSound'
  <2>1. \A t \in Slots : files[t].name # op.name
    BY <1>0 DEF SlotsOf
  <2>2. ASSUME NEW t \in Slots
        PROVE  \A u \in Slots : files'[t].name = files'[u].name => t = u \/ files'[t].name = NoName
    BY <1>2, <1>5, <2>1 DEF TableIsSound, FilesType, File
  <2>3. ASSUME NEW t \in Slots \ {s}
        PROVE  IF files'[t].name = NoName
               THEN files'[t].data = Null /\ files'[t].size = 0
               ELSE files'[t].data \in Blocks /\ heap'[files'[t].data].len = files'[t].size
    BY <1>0, <1>5 DEF TableIsSound, Critical
  <2> QED
    BY <1>4, <2>2, <2>3 DEF TableIsSound, Critical
<1>11. OwnerInv'
  <2>1. \A t \in Slots, b \in Blocks : SlotOwns(t, b)' <=> SlotOwns(t, b)
    BY <1>0, <1>4, <1>5, <1>9 DEF SlotOwns
  <2>2. \A b \in Blocks : CopyOwns(b)' <=> CopyOwns(b)
    BY <1>0, <1>4 DEF CopyOwns
  <2> QED
    BY <1>0, <2>1, <2>2 DEF OwnerInv
<1>12. ResponseInv'
  BY <1>0, <1>4 DEF ResponseInv, Done, SlotsOf, Downloaded, InProgress, Critical
<1> QED
  BY <1>6, <1>7, <1>8, <1>10, <1>11, <1>12

LEMMA NoRoomKeeps ==
    ASSUME FsInv, FsStep(NoRoom)
    PROVE  FsInv'
<1> USE DEF FsInv, FsStep
<1>1. /\ op.pc = "store" /\ fm.pc = "wait" /\ op' = [op EXCEPT !.pc = "drop"]
      /\ files' = files /\ heap' = heap /\ mutex' = mutex /\ changed' = changed
      /\ UNCHANGED <<arrived, queued, fm>>
  BY DEF NoRoom, OpInv, InProgress, FilesType
<1>2. /\ op' \in Operation /\ op'.pc = "drop" /\ op'.slot = op.slot /\ op'.data = op.data
      /\ op'.size = op.size /\ op'.name = op.name
  BY <1>1 DEF FilesType, Operation
<1>3. FilesType'
  BY <1>1, <1>2 DEF FilesType
<1>4. OpInv'
  BY <1>1, <1>2 DEF OpInv, InProgress, Critical, Results
<1>5. FmInv'
  BY <1>1 DEF FmInv, UnknownLengthReadToItsEnd
<1>6. TableIsSound'
  BY <1>1, <1>2 DEF TableIsSound, Critical
<1>7. OwnerInv'
  BY <1>1, <1>2 DEF OwnerInv, SlotOwns, CopyOwns
<1>8. ResponseInv'
  BY <1>1, <1>2 DEF ResponseInv, Done, SlotsOf, Downloaded, InProgress, Critical
<1> QED
  BY <1>3, <1>4, <1>5, <1>6, <1>7, <1>8

LEMMA DropKeeps ==
    ASSUME FsInv, FsStep(Drop)
    PROVE  FsInv'
<1> USE DEF FsInv, FsStep
<1>1. /\ op.pc = "drop" /\ fm.pc = "wait" /\ op' = NoOperation("no_mem") /\ heap' = Free(op.data)
      /\ files' = files /\ mutex' = mutex /\ changed' = changed
      /\ UNCHANGED <<arrived, queued, fm>>
  BY DEF Drop, OpInv, InProgress, FilesType, Return
<1>2. op'.pc = "no_mem" /\ op'.data = Null /\ op'.size = 0 /\ op.data \in Blocks
  BY <1>1 DEF NoOperation, OpInv
<1>3. heap'[op.data] = Freed /\ \A c \in Blocks \ {op.data} : heap'[c] = heap[c]
  BY <1>1, <1>2 DEF Free
<1>4. FilesType'
  BY <1>1, FreeType, NoOperationType DEF FilesType, Results
<1>5. OpInv'
  BY <1>1, <1>2 DEF OpInv, InProgress, Critical, Results
<1>6. FmInv'
  BY <1>1 DEF FmInv, UnknownLengthReadToItsEnd
<1>7. fm.buf # op.data /\ \A s \in Slots : files[s].data # op.data
  BY <1>1, <1>2 DEF OwnerInv, SlotOwns, CopyOwns
<1>8. TableIsSound'
  BY <1>1, <1>2, <1>3, <1>7 DEF TableIsSound, Critical
<1>9. OwnerInv'
  <2>1. \A s \in Slots, b \in Blocks : SlotOwns(s, b)' <=> SlotOwns(s, b)
    BY <1>1, <1>2 DEF SlotOwns
  <2>2. \A b \in Blocks : ~CopyOwns(b)' /\ (CopyOwns(b) <=> b = op.data)
    BY <1>1, <1>2 DEF CopyOwns
  <2> QED
    BY <1>1, <1>2, <1>3, <1>7, <2>1, <2>2 DEF OwnerInv, SlotOwns
<1>10. ResponseInv'
  BY <1>1, <1>2, <1>3, <1>7 DEF ResponseInv, Done, SlotsOf, Downloaded, InProgress, Critical
<1> QED
  BY <1>4, <1>5, <1>6, <1>8, <1>9, <1>10

LEMMA FindToDeleteKeeps ==
    ASSUME FsInv, FsStep(FindToDelete)
    PROVE  FsInv'
<1> USE DEF FsInv, FsStep
<1> DEFINE s == First(SlotsOf(op.name))
<1>0. /\ op.pc = "delete" /\ fm.pc = "wait" /\ ~mutex /\ op.data = Null /\ op.size = 0
      /\ files' = files /\ heap' = heap /\ changed' = changed /\ UNCHANGED <<arrived, queued, fm>>
  BY DEF FindToDelete, OpInv, InProgress, FilesType, Results
<1>1. FmInv'
  BY <1>0 DEF FmInv, UnknownLengthReadToItsEnd
<1>2. CASE SlotsOf(op.name) # {} /\ mutex' = TRUE /\ op' = [op EXCEPT !.pc = "free", !.slot = s]
  <2>1. s \in SlotsOf(op.name)
    BY <1>2, FirstIsThere DEF SlotsOf
  <2>2. s \in Slots /\ files[s].name = op.name /\ op.name \in Names
    BY <2>1 DEF SlotsOf, FilesType, Operation
  <2> HIDE DEF s
  <2>3. /\ op' \in Operation /\ op'.pc = "free" /\ op'.slot = s /\ op'.data = op.data
        /\ op'.size = op.size /\ op'.name = op.name
    BY <1>2, <2>2 DEF FilesType, Operation, Critical
  <2>4. files[s].data \in Blocks
    BY <1>0, <2>2 DEF TableIsSound, Critical
  <2>5. FilesType'
    BY <1>0, <1>2, <2>3 DEF FilesType
  <2>6. OpInv'
    BY <1>0, <1>2, <2>2, <2>3, <2>4 DEF OpInv, InProgress, Critical, Results
  <2>7. TableIsSound'
    BY <1>0, <2>3 DEF TableIsSound, Critical
  <2>8. OwnerInv'
    BY <1>0, <2>3 DEF OwnerInv, SlotOwns, CopyOwns
  <2>9. ResponseInv'
    BY <1>0, <2>3 DEF ResponseInv, Done, SlotsOf, Downloaded, InProgress, Critical
  <2> QED
    BY <1>1, <2>5, <2>6, <2>7, <2>8, <2>9
<1>3. CASE SlotsOf(op.name) = {} /\ Return("not_found") /\ UNCHANGED mutex
  <2>1. op' = NoOperation("not_found") /\ op'.pc = "not_found" /\ op'.data = Null /\ op'.size = 0
    BY <1>3 DEF Return, NoOperation
  <2>2. FilesType'
    BY <1>0, <1>3, <2>1, NoOperationType DEF FilesType, Results
  <2>3. OpInv'
    BY <1>0, <1>3, <2>1 DEF OpInv, FilesType, InProgress, Critical, Results
  <2>4. TableIsSound'
    BY <1>0, <2>1 DEF TableIsSound, Critical
  <2>5. OwnerInv'
    BY <1>0, <2>1 DEF OwnerInv, SlotOwns, CopyOwns
  <2>6. ResponseInv'
    BY <1>0, <2>1 DEF ResponseInv, Done, SlotsOf, Downloaded, InProgress, Critical
  <2> QED
    BY <1>1, <2>2, <2>3, <2>4, <2>5, <2>6
<1> QED
  BY <1>2, <1>3 DEF FindToDelete

LEMMA FreeDataKeeps ==
    ASSUME FsInv, FsStep(FreeData)
    PROVE  FsInv'
<1> USE DEF FsInv, FsStep
<1>1. /\ op.pc = "free" /\ fm.pc = "wait" /\ heap' = Free(files[op.slot].data)
      /\ op' = [op EXCEPT !.pc = "data"]
      /\ files' = files /\ mutex' = mutex /\ changed' = changed /\ UNCHANGED <<arrived, queued, fm>>
  BY DEF FreeData, OpInv, InProgress, Critical, FilesType
<1>2. /\ op' \in Operation /\ op'.pc = "data" /\ op'.slot = op.slot /\ op'.data = op.data
      /\ op'.size = op.size /\ op'.name = op.name /\ op.slot \in Slots /\ op.data \in Blocks \cup {Null}
  BY <1>1 DEF FilesType, Operation, Critical
<1>3. PICK d \in Blocks : d = files[op.slot].data /\ SlotOwns(op.slot, d)
  BY <1>1, <1>2 DEF OpInv, SlotOwns
<1>4. heap'[d] = Freed /\ \A c \in Blocks \ {d} : heap'[c] = heap[c]
  BY <1>1, <1>3 DEF Free
<1>5. fm.buf # d /\ op.data # d /\ \A s \in Slots \ {op.slot} : files[s].data # d
  BY <1>1, <1>2, <1>3 DEF OwnerInv, SlotOwns, CopyOwns
<1>6. FilesType'
  BY <1>1, <1>2, FreeType DEF FilesType
<1>7. OpInv'
  BY <1>1, <1>2, <1>4, <1>5 DEF OpInv, InProgress, Critical, Results
<1>8. FmInv'
  BY <1>1 DEF FmInv, UnknownLengthReadToItsEnd
<1>9. TableIsSound'
  BY <1>1, <1>2, <1>4, <1>5 DEF TableIsSound, Critical
<1>10. OwnerInv'
  <2>1. \A s \in Slots, b \in Blocks : SlotOwns(s, b)' <=> SlotOwns(s, b) /\ s # op.slot
    BY <1>1, <1>2 DEF SlotOwns
  <2>2. \A b \in Blocks : CopyOwns(b)' <=> CopyOwns(b)
    BY <1>1, <1>2 DEF CopyOwns
  <2>3. \A b \in Blocks : SlotOwns(op.slot, b) <=> b = d
    BY <1>1, <1>2, <1>3 DEF SlotOwns
  <2>4. ASSUME NEW b \in Blocks \ {d}
        PROVE  (heap'[b] # Freed) = (fm.buf = b \/ CopyOwns(b) \/ \E s \in Slots : SlotOwns(s, b)')
    BY <1>4, <2>1, <2>3 DEF OwnerInv
  <2>5. ~CopyOwns(d) /\ \A s \in Slots : ~SlotOwns(s, d)'
    BY <1>1, <1>2, <1>5, <2>1 DEF CopyOwns, SlotOwns
  <2>6. ASSUME NEW b \in Blocks
        PROVE  /\ ~(fm.buf = b /\ CopyOwns(b))
               /\ \A s \in Slots : SlotOwns(s, b)' =>
                    /\ fm.buf # b /\ ~CopyOwns(b)
                    /\ \A t \in Slots : SlotOwns(t, b)' => s = t
    BY <2>1 DEF OwnerInv
  <2> QED
    BY <1>1, <1>4, <1>5, <2>2, <2>4, <2>5, <2>6 DEF OwnerInv
<1>11. ResponseInv'
  BY <1>1, <1>2, <1>4, <1>5 DEF ResponseInv, Downloaded, InProgress, Critical
<1> QED
  BY <1>6, <1>7, <1>8, <1>9, <1>10, <1>11

LEMMA SetDataKeeps ==
    ASSUME FsInv, FsStep(SetData)
    PROVE  FsInv'
<1> USE DEF FsInv, FsStep
<1>1. /\ op.pc = "data" /\ fm.pc = "wait" /\ op' = [op EXCEPT !.pc = "size"]
      /\ files' = [files EXCEPT ![op.slot].data = op.data]
      /\ heap' = heap /\ mutex' = mutex /\ UNCHANGED <<arrived, queued, fm>>
  BY DEF SetData, OpInv, InProgress, Critical
<1>2. /\ op' \in Operation /\ op'.pc = "size" /\ op'.slot = op.slot /\ op'.data = op.data
      /\ op'.size = op.size /\ op'.name = op.name /\ op.slot \in Slots /\ op.data \in Blocks \cup {Null}
  BY <1>1 DEF FilesType, Operation, Critical
<1>3. /\ files' \in [Slots -> File]
      /\ files'[op.slot].data = op.data
      /\ \A t \in Slots : files'[t].name = files[t].name /\ files'[t].size = files[t].size
      /\ \A t \in Slots \ {op.slot} : files'[t].data = files[t].data
  BY <1>1, <1>2 DEF FilesType, File
<1>4. FilesType'
  BY <1>1, <1>2, <1>3 DEF FilesType
<1>5. OpInv'
  BY <1>1, <1>2, <1>3 DEF OpInv, InProgress, Critical, Results
<1>6. FmInv'
  BY <1>1 DEF FmInv, UnknownLengthReadToItsEnd
<1>7. TableIsSound'
  BY <1>1, <1>2, <1>3 DEF TableIsSound, Critical
<1>8. OwnerInv'
  <2>1. \A s \in Slots \ {op.slot}, b \in Blocks : SlotOwns(s, b)' <=> SlotOwns(s, b)
    BY <1>1, <1>2, <1>3 DEF SlotOwns
  <2>2. \A b \in Blocks : ~CopyOwns(b)' /\ ~SlotOwns(op.slot, b) /\ (SlotOwns(op.slot, b)' <=> CopyOwns(b))
    BY <1>1, <1>2, <1>3 DEF CopyOwns, SlotOwns
  <2>3. ASSUME NEW b \in Blocks
        PROVE  (\E s \in Slots : SlotOwns(s, b)') <=> CopyOwns(b) \/ \E s \in Slots : SlotOwns(s, b)
    BY <1>2, <2>1, <2>2
  <2> QED
    BY <1>1, <1>2, <2>1, <2>2, <2>3 DEF OwnerInv
<1>9. ResponseInv'
  BY <1>1, <1>2 DEF ResponseInv, Downloaded, InProgress, Critical
<1> QED
  BY <1>4, <1>5, <1>6, <1>7, <1>8, <1>9

LEMMA SetSizeKeeps ==
    ASSUME FsInv, FsStep(SetSize)
    PROVE  FsInv'
<1> USE DEF FsInv, FsStep
<1>1. /\ op.pc = "size" /\ fm.pc = "wait" /\ op.name = fm.name
      /\ files' = [files EXCEPT ![op.slot].size = op.size]
      /\ files[op.slot].name = op.name /\ files[op.slot].data = op.data
      /\ heap' = heap /\ UNCHANGED <<arrived, queued, fm>>
  BY DEF SetSize, OpInv, InProgress, Critical
<1>2. op.slot \in Slots /\ op.data \in Blocks \cup {Null} /\ op.size \in 0 .. MaxSize /\ op.name \in Names
  BY DEF FilesType, Operation, OpInv
<1>3. /\ files' \in [Slots -> File]
      /\ files'[op.slot].size = op.size
      /\ \A t \in Slots : files'[t].name = files[t].name /\ files'[t].data = files[t].data
      /\ \A t \in Slots \ {op.slot} : files'[t].size = files[t].size
      /\ \A t \in Slots : files'[t].size <= MaxSize
  BY <1>1, <1>2 DEF FilesType, File
<1>4. FmInv'
  BY <1>1 DEF FmInv, UnknownLengthReadToItsEnd
<1>5. \A s \in Slots, b \in Blocks : op'.pc # "data" => (SlotOwns(s, b)' <=> SlotOwns(s, b))
  BY <1>1, <1>3 DEF SlotOwns
<1>6. \A b \in Blocks : ~CopyOwns(b)
  BY <1>1 DEF CopyOwns
<1>7. CASE op.data = Null
  <2>1. op' = [op EXCEPT !.pc = "name"] /\ mutex' = mutex
    BY <1>7 DEF SetSize
  <2>2. /\ op' \in Operation /\ op'.pc = "name" /\ op'.slot = op.slot /\ op'.data = op.data
        /\ op'.size = op.size /\ op'.name = op.name
    BY <2>1 DEF FilesType, Operation, Critical
  <2>3. FilesType'
    BY <1>1, <1>3, <2>1, <2>2 DEF FilesType
  <2>4. op.size = 0
    BY <1>1, <1>7 DEF OpInv
  <2>5. OpInv'
    BY <1>1, <1>2, <1>3, <1>7, <2>1, <2>2, <2>4 DEF OpInv, InProgress, Critical, Results
  <2>6. TableIsSound'
    BY <1>1, <1>3, <2>2 DEF TableIsSound, Critical
  <2>7. OwnerInv'
    BY <1>1, <1>5, <1>6, <2>2 DEF OwnerInv, CopyOwns
  <2>8. ResponseInv'
    BY <1>1, <2>2 DEF ResponseInv, Downloaded, InProgress, Critical
  <2> QED
    BY <1>4, <2>3, <2>5, <2>6, <2>7, <2>8
<1>8. CASE op.data # Null
  <2>1. op' = NoOperation("ok") /\ mutex' = FALSE
    BY <1>8 DEF SetSize, Return
  <2>2. op'.pc = "ok" /\ op'.data = Null /\ op'.size = 0
    BY <2>1 DEF NoOperation
  <2>3. FilesType'
    BY <1>1, <1>3, <2>1, NoOperationType DEF FilesType, Results
  <2>4. OpInv'
    <3>1. op'.pc \notin Critical \cup InProgress /\ op'.size <= MaxSize /\ op'.data \notin Blocks
      BY <2>2 DEF InProgress, Critical
    <3> QED
      BY <2>1, <2>2, <3>1 DEF OpInv
  <2>5. op.data \in Blocks /\ heap[op.data].len = op.size
    BY <1>2, <1>8 DEF OpInv
  <2>6. TableIsSound'
    <3>1. \A s, t \in Slots : files'[s].name = files'[t].name => s = t \/ files'[s].name = NoName
      BY <1>3 DEF TableIsSound
    <3>2. ASSUME NEW s \in Slots \ {op.slot}
          PROVE  IF files'[s].name = NoName
                 THEN files'[s].data = Null /\ files'[s].size = 0
                 ELSE files'[s].data \in Blocks /\ heap'[files'[s].data].len = files'[s].size
      BY <1>1, <1>3 DEF TableIsSound
    <3> QED
      BY <1>1, <1>2, <1>3, <2>2, <2>5, <3>1, <3>2 DEF TableIsSound
  <2>7. OwnerInv'
    BY <1>1, <1>5, <1>6, <2>2 DEF OwnerInv, CopyOwns
  <2>8. ResponseInv'
    <3>1. fm.action = "download" /\ heap[op.data] = Downloaded
      BY <1>1, <1>8 DEF ResponseInv, InProgress, Critical
    <3>2. op.slot \in SlotsOf(fm.name)' /\ heap'[files'[op.slot].data] = Downloaded
      BY <1>1, <1>2, <1>3, <3>1 DEF SlotsOf
    <3>3. Done'
      BY <1>1, <3>1, <3>2 DEF Done, Downloaded
    <3> QED
      BY <1>1, <2>2, <3>3 DEF ResponseInv, Downloaded, InProgress, Critical
  <2> QED
    BY <1>4, <2>3, <2>4, <2>6, <2>7, <2>8
<1> QED
  BY <1>7, <1>8

LEMMA ClearNameKeeps ==
    ASSUME FsInv, FsStep(ClearName)
    PROVE  FsInv'
<1> USE DEF FsInv, FsStep
<1>1. /\ op.pc = "name" /\ fm.pc = "wait" /\ op.name = fm.name /\ op.data = Null
      /\ files' = [files EXCEPT ![op.slot].name = NoName]
      /\ files[op.slot].name = op.name /\ files[op.slot].data = Null /\ files[op.slot].size = 0
      /\ op' = NoOperation("ok") /\ mutex' = FALSE
      /\ heap' = heap /\ UNCHANGED <<arrived, queued, fm>>
  BY DEF ClearName, Return, OpInv, InProgress, Critical, Results
<1>2. op.slot \in Slots /\ op.name \in Names
  BY DEF FilesType, Operation
<1>3. /\ files' \in [Slots -> File]
      /\ files'[op.slot].name = NoName
      /\ \A t \in Slots : files'[t].size = files[t].size /\ files'[t].data = files[t].data
      /\ \A t \in Slots \ {op.slot} : files'[t].name = files[t].name
  BY <1>1, <1>2 DEF FilesType, File
<1>4. op'.pc = "ok" /\ op'.data = Null /\ op'.size = 0
  BY <1>1 DEF NoOperation
<1>5. FilesType'
  BY <1>1, <1>3, NoOperationType DEF FilesType, Results
<1>6. OpInv'
  <2>1. op'.pc \notin Critical \cup InProgress /\ op'.size <= MaxSize /\ op'.data \notin Blocks
    BY <1>4 DEF InProgress, Critical
  <2> QED
    BY <1>1, <1>4, <2>1 DEF OpInv
<1>7. FmInv'
  BY <1>1 DEF FmInv, UnknownLengthReadToItsEnd
<1>8. TableIsSound'
  <2>1. ASSUME NEW s \in Slots \ {op.slot}
        PROVE  /\ \A t \in Slots : files'[s].name = files'[t].name => s = t \/ files'[s].name = NoName
               /\ IF files'[s].name = NoName
                  THEN files'[s].data = Null /\ files'[s].size = 0
                  ELSE files'[s].data \in Blocks /\ heap'[files'[s].data].len = files'[s].size
    BY <1>1, <1>3 DEF TableIsSound
  <2> QED
    BY <1>1, <1>2, <1>3, <2>1 DEF TableIsSound
<1>9. OwnerInv'
  <2>1. \A s \in Slots, b \in Blocks : SlotOwns(s, b)' <=> SlotOwns(s, b)
    BY <1>1, <1>3, <1>4 DEF SlotOwns
  <2>2. \A b \in Blocks : ~CopyOwns(b)' /\ ~CopyOwns(b)
    BY <1>1, <1>4 DEF CopyOwns
  <2> QED
    BY <1>1, <2>1, <2>2 DEF OwnerInv
<1>10. ResponseInv'
  <2>1. fm.action = "delete"
    BY <1>1 DEF ResponseInv, InProgress, Critical
  <2>2. \A s \in Slots : files'[s].name # fm.name
    BY <1>1, <1>2, <1>3 DEF TableIsSound
  <2>3. Done'
    BY <1>1, <2>1, <2>2 DEF Done, SlotsOf
  <2> QED
    BY <1>1, <1>4, <2>1, <2>3 DEF ResponseInv, InProgress, Critical
<1> QED
  BY <1>5, <1>6, <1>7, <1>8, <1>9, <1>10

LEMMA FileSystemKeeps ==
    ASSUME FsInv, FileSystemStep
    PROVE  FsInv'
<1>1. changed' = (changed \/ files' # files) /\ UNCHANGED <<arrived, queued, fm>>
  BY DEF FileSystemStep
<1> QED
  BY <1>1, AllocateKeeps, UpdateKeeps, CreateKeeps, NoRoomKeeps, DropKeeps, FindToDeleteKeeps,
     FreeDataKeeps, SetDataKeeps, SetSizeKeeps, ClearNameKeeps
     DEF FileSystemStep, RamFsStep, FsStep

---------------------------------------------------------------------------
(* The file manager.                                                       *)

\* Between commands the file system is at rest.
LEMMA AtRest ==
    ASSUME FsInv, fm.pc # "wait"
    PROVE  op.pc \in Results /\ op.data = Null /\ op.size = 0 /\ ~mutex
<1>1. op.pc \in Results
  BY DEF FsInv, FilesType, Operation, OpInv, InProgress
<1> QED
  BY <1>1 DEF FsInv, OpInv, Results, Critical

\* A step that leaves the file system and its memory alone.
LEMMA OutsideKeeps ==
    ASSUME FsInv, UNCHANGED ramfsVars
    PROVE  /\ fm'.buf = fm.buf => OwnerInv'
           /\ TableIsSound'
           /\ fm.pc # "wait" => OpInv'
<1>1. fm'.buf = fm.buf => OwnerInv'
  BY DEF FsInv, ramfsVars, OwnerInv, SlotOwns, CopyOwns
<1>2. TableIsSound'
  BY DEF FsInv, ramfsVars, TableIsSound
<1>3. fm.pc # "wait" => OpInv'
  BY AtRest DEF FsInv, ramfsVars, OpInv, InProgress, Critical, Results
<1> QED
  BY <1>1, <1>2, <1>3

LEMMA TakeCommandKeeps ==
    ASSUME FsInv, TakeCommand
    PROVE  FsInv'
<1> USE DEF FsInv
<1>1. /\ fm.pc = "idle" /\ fm.buf = Null /\ fm.total = 0 /\ ~changed
      /\ changed' = changed /\ arrived' = arrived /\ queued' \in 0 .. QueueDepth
      /\ UNCHANGED ramfsVars
  BY DEF TakeCommand, FmInv, ResponseInv, FilesType
<1>2. /\ fm' \in FileTask /\ fm'.buf = Null
      /\ fm'.pc \in {"start", "ok", "error"}
      /\ fm'.pc = "start" => fm'.total = 0
      /\ fm'.pc = "ok" => fm'.action = fm.action
  <2>1. CASE Error
    BY <2>1, ErrorType
  <2>2. CASE fm' = [fm EXCEPT !.pc = "ok"]
    BY <1>1, <2>2 DEF FilesType, FileTask
  <2>3. ASSUME NEW name \in Names, NEW action \in {"download", "delete"},
               fm' = [fm EXCEPT !.pc = "start", !.action = action, !.name = name]
        PROVE  fm' \in FileTask /\ fm'.buf = Null /\ fm'.pc = "start" /\ fm'.total = 0
    BY <1>1, <2>3 DEF FilesType, FileTask
  <2> QED
    BY <2>1, <2>2, <2>3 DEF TakeCommand, Dispatch
<1>3. FilesType'
  BY <1>1, <1>2 DEF FilesType, ramfsVars
<1>4. FmInv'
  BY <1>2 DEF FmInv, UnknownLengthReadToItsEnd
<1>5. fm.action = "none"
  BY <1>1 DEF FmInv
<1>6. ResponseInv'
  BY <1>1, <1>2, <1>5, AtRest DEF ResponseInv, Done, ramfsVars, InProgress, Critical, Results
<1> QED
  BY <1>1, <1>2, <1>3, <1>4, <1>6, OutsideKeeps

LEMMA ConnectKeeps ==
    ASSUME FsInv, Connect
    PROVE  FsInv'
<1> USE DEF FsInv
<1>1. /\ fm.pc = "start" /\ fm.action = "download" /\ fm.buf = Null /\ fm.total = 0 /\ ~changed
      /\ UNCHANGED <<arrived, queued, changed, files, mutex, op>>
  BY DEF Connect, FmInv, ResponseInv
<1>2. op.pc \in Results /\ op.data = Null /\ op.size = 0 /\ ~mutex
  BY <1>1, AtRest
<1>3. OpInv'
  BY <1>1, <1>2 DEF OpInv, InProgress, Critical, Results
<1>4. CASE Error /\ UNCHANGED heap
  <2>1. fm' \in FileTask /\ fm'.buf = Null /\ fm'.pc = "error"
    BY <1>4, ErrorType
  <2>2. FilesType'
    BY <1>1, <1>4, <2>1 DEF FilesType
  <2>3. FmInv'
    BY <2>1 DEF FmInv, UnknownLengthReadToItsEnd
  <2>4. ResponseInv'
    BY <1>1, <1>2, <2>1 DEF ResponseInv, InProgress, Critical, Results
  <2> QED
    BY <1>1, <1>3, <1>4, <2>1, <2>2, <2>3, <2>4, OutsideKeeps DEF ramfsVars
<1>5. ASSUME NEW length \in 0 .. MaxSize, NEW v \in Served(fm.name), NEW b \in Candidates,
             NEW cap, cap = IF length > 0 THEN length ELSE FirstSize,
             NEW known \in BOOLEAN,
             heap' = [heap EXCEPT ![b] = [ver |-> v, len |-> cap]],
             fm' = [fm EXCEPT !.pc = "read", !.buf = b, !.cap = cap, !.known = known, !.ver = v]
      PROVE  FsInv'
  <2>1. b \in Blocks /\ heap[b] = Freed /\ cap \in 1 .. MaxSize /\ v \in Versions /\ v # 0
    BY <1>5, CandidatesAreFree DEF FilesType, FileTask
  <2>2. /\ fm' \in FileTask /\ fm'.pc = "read" /\ fm'.buf = b /\ fm'.cap = cap /\ fm'.ver = v
        /\ fm'.total = 0 /\ fm'.action = "download"
    <3>1. fm \in FileTask
      BY DEF FilesType
    <3> HIDE DEF FsInv
    <3>2. /\ fm'.pc = "read" /\ fm'.buf = b /\ fm'.cap = cap /\ fm'.ver = v
          /\ fm'.total = fm.total /\ fm'.action = fm.action
      BY <1>5, <3>1 DEF FileTask
    <3>3. fm' \in FileTask
      <4>1. fm' = [pc |-> "read", action |-> fm.action, name |-> fm.name, buf |-> b, cap |-> cap,
                   total |-> fm.total, known |-> known, ver |-> v]
        BY <1>5, <3>1 DEF FileTask
      <4> QED
        BY <2>1, <3>1, <4>1 DEF FileTask
    <3> QED
      BY <1>1, <3>2, <3>3
  <2>3. /\ heap' \in [Blocks -> [ver : Versions \cup {0}, len : 0 .. MaxSize]]
        /\ heap'[b] # Freed /\ heap'[b].ver = v /\ \A c \in Blocks \ {b} : heap'[c] = heap[c]
    BY <1>5, <2>1 DEF FilesType, Freed
  <2>4. FilesType'
    BY <1>1, <2>2, <2>3 DEF FilesType
  <2>5. FmInv'
    BY <2>1, <2>2 DEF FmInv, UnknownLengthReadToItsEnd
  <2>6. \A s \in Slots : files[s].data # b
    BY <1>1, <1>2, <2>1 DEF OwnerInv, SlotOwns, Results
  <2>7. TableIsSound'
    BY <1>1, <2>1, <2>3, <2>6 DEF TableIsSound
  <2>8. OwnerInv'
    <3>1. \A c \in Blocks, s \in Slots : SlotOwns(s, c)' <=> SlotOwns(s, c)
      BY <1>1 DEF SlotOwns
    <3>2. \A c \in Blocks : ~CopyOwns(c) /\ ~CopyOwns(c)'
      BY <1>1, <1>2 DEF CopyOwns
    <3>3. \A s \in Slots : ~SlotOwns(s, b)
      BY <2>6 DEF SlotOwns
    <3> QED
      BY <1>1, <2>1, <2>2, <2>3, <3>1, <3>2, <3>3 DEF OwnerInv
  <2>9. ResponseInv'
    BY <1>1, <1>2, <2>1, <2>2, <2>3 DEF ResponseInv, InProgress, Critical, Results
  <2> QED
    BY <1>3, <2>4, <2>5, <2>7, <2>8, <2>9
<1>6. \A length \in 0 .. MaxSize : (length > 0) \in BOOLEAN
  OBVIOUS
<1> QED
  BY <1>4, <1>5, <1>6 DEF Connect

\* The buffer is freed and the response is an error.
LEMMA GiveUpKeeps ==
    ASSUME FsInv, fm.pc = "read", Error, heap' = Free(fm.buf),
           UNCHANGED <<arrived, queued, changed, files, mutex, op>>
    PROVE  FsInv'
<1> USE DEF FsInv
<1>1. fm.buf \in Blocks /\ ~changed
  BY DEF FmInv, ResponseInv
<1>2. op.pc \in Results /\ op.data = Null /\ op.size = 0 /\ ~mutex
  BY AtRest
<1>3. fm' \in FileTask /\ fm'.buf = Null /\ fm'.pc = "error"
  BY ErrorType
<1>4. heap'[fm.buf] = Freed /\ \A c \in Blocks \ {fm.buf} : heap'[c] = heap[c]
  BY <1>1 DEF Free
<1>5. FilesType'
  BY <1>3, FreeType DEF FilesType
<1>6. OpInv'
  BY <1>2 DEF OpInv, InProgress, Critical, Results
<1>7. FmInv'
  BY <1>3 DEF FmInv, UnknownLengthReadToItsEnd
<1>8. \A s \in Slots : files[s].data # fm.buf
  BY <1>1, <1>2 DEF OwnerInv, SlotOwns, Results
<1>9. TableIsSound'
  BY <1>4, <1>8 DEF TableIsSound
<1>10. OwnerInv'
  <2>1. \A c \in Blocks, s \in Slots : SlotOwns(s, c)' <=> SlotOwns(s, c)
    BY DEF SlotOwns
  <2>2. \A c \in Blocks : ~CopyOwns(c) /\ ~CopyOwns(c)'
    BY <1>2 DEF CopyOwns
  <2>3. \A s \in Slots : ~SlotOwns(s, fm.buf)
    BY <1>8 DEF SlotOwns
  <2> QED
    BY <1>1, <1>3, <1>4, <2>1, <2>2, <2>3 DEF OwnerInv
<1>11. ResponseInv'
  BY <1>1, <1>2, <1>3 DEF ResponseInv, InProgress, Critical, Results
<1> QED
  BY <1>5, <1>6, <1>7, <1>9, <1>10, <1>11

LEMMA FailReadKeeps ==
    ASSUME FsInv, FailRead
    PROVE  FsInv'
BY GiveUpKeeps DEF FailRead

LEMMA ReadMoreKeeps ==
    ASSUME FsInv, NEW n \in 1 .. MaxSize, ReadMore(n)
    PROVE  FsInv'
<1> USE DEF FsInv
<1>1. /\ fm.pc = "read" /\ n \in 1 .. fm.cap - fm.total /\ (fm.known \/ ~Full(n))
      /\ fm' = [fm EXCEPT !.total = @ + n]
      /\ UNCHANGED <<arrived, queued, changed, ramfsVars>>
  BY DEF ReadMore
<1>2. /\ fm' \in FileTask /\ fm'.pc = "read" /\ fm'.buf = fm.buf /\ fm'.cap = fm.cap /\ fm'.ver = fm.ver
      /\ fm'.total = fm.total + n /\ fm'.action = fm.action /\ fm'.known = fm.known
  BY <1>1 DEF FilesType, FileTask
<1>3. FilesType'
  BY <1>1, <1>2 DEF FilesType, ramfsVars
<1>4. FmInv'
  BY <1>1, <1>2 DEF FmInv, UnknownLengthReadToItsEnd, Full, FilesType, FileTask
<1>5. ResponseInv'
  BY <1>1, <1>2, AtRest DEF ResponseInv, ramfsVars, InProgress, Critical, Results
<1> QED
  BY <1>1, <1>2, <1>3, <1>4, <1>5, OutsideKeeps

LEMMA ReadAndGrowKeeps ==
    ASSUME FsInv, NEW n \in 1 .. MaxSize, ReadAndGrow(n)
    PROVE  FsInv'
<1> USE DEF FsInv
<1>1. /\ fm.pc = "read" /\ n \in 1 .. fm.cap - fm.total /\ Full(n)
      /\ UNCHANGED <<arrived, queued, changed, files, mutex, op>>
  BY DEF ReadAndGrow
<1>2. CASE Error /\ heap' = Free(fm.buf)
  BY <1>1, <1>2, GiveUpKeeps
<1>3. ASSUME NEW b \in Candidates \cup {fm.buf}, NEW cap, cap = Larger(fm.cap), fm.cap < MaxSize,
             fm' = [fm EXCEPT !.total = @ + n, !.buf = b, !.cap = cap],
             heap' = [Free(fm.buf) EXCEPT ![b] = [ver |-> fm.ver, len |-> cap]]
      PROVE  FsInv'
  <2>1. /\ fm.buf \in Blocks /\ heap[fm.buf].ver = fm.ver /\ ~changed /\ fm.action = "download"
        /\ fm.cap \in 1 .. MaxSize /\ fm.total \in 0 .. MaxSize /\ fm.ver \in Versions \cup {0}
    BY <1>1 DEF FmInv, ResponseInv, FilesType, FileTask
  <2>2. op.pc \in Results /\ op.data = Null /\ op.size = 0 /\ ~mutex
    BY <1>1, AtRest
  <2>3. b \in Blocks /\ (b = fm.buf \/ heap[b] = Freed)
    BY <2>1, CandidatesAreFree
  <2>4. cap \in 1 .. MaxSize /\ fm.cap < cap /\ fm.total + n = fm.cap
    BY <1>1, <1>3, <2>1 DEF Larger, LessOf, Full
  <2>5. /\ fm' \in FileTask /\ fm'.pc = "read" /\ fm'.buf = b /\ fm'.cap = cap /\ fm'.ver = fm.ver
        /\ fm'.total = fm.cap /\ fm'.action = "download"
    <3>1. fm \in FileTask
      BY DEF FilesType
    <3> HIDE DEF FsInv
    <3>2. /\ fm'.pc = fm.pc /\ fm'.buf = b /\ fm'.cap = cap /\ fm'.ver = fm.ver
          /\ fm'.total = fm.total + n /\ fm'.action = fm.action
      BY <1>3, <3>1 DEF FileTask
    <3>3. fm' \in FileTask
      <4>1. fm' = [pc |-> fm.pc, action |-> fm.action, name |-> fm.name, buf |-> b, cap |-> cap,
                   total |-> fm.total + n, known |-> fm.known, ver |-> fm.ver]
        BY <1>3, <3>1 DEF FileTask
      <4> QED
        BY <2>1, <2>3, <2>4, <3>1, <4>1 DEF FileTask
    <3> QED
      BY <1>1, <2>1, <2>4, <3>2, <3>3
  <2>6. Free(fm.buf) \in [Blocks -> [ver : Versions \cup {0}, len : 0 .. MaxSize]]
    BY FreeType DEF FilesType
  <2>7. /\ heap' \in [Blocks -> [ver : Versions \cup {0}, len : 0 .. MaxSize]]
        /\ heap'[b] = [ver |-> fm.ver, len |-> cap] /\ heap'[b] # Freed
        /\ \A c \in Blocks \ {b} : heap'[c] = IF c = fm.buf THEN Freed ELSE heap[c]
    BY <1>3, <2>1, <2>3, <2>4, <2>6 DEF Freed, Free
  <2>8. FilesType'
    BY <1>1, <2>5, <2>7 DEF FilesType
  <2>9. OpInv'
    BY <1>1, <2>2 DEF OpInv, InProgress, Critical, Results
  <2>10. FmInv'
    BY <2>3, <2>4, <2>5 DEF FmInv, UnknownLengthReadToItsEnd
  <2>11. \A s \in Slots : files[s].data # b /\ files[s].data # fm.buf
    BY <1>1, <2>1, <2>2, <2>3 DEF OwnerInv, SlotOwns, Results
  <2>12. TableIsSound'
    BY <1>1, <2>3, <2>7, <2>11 DEF TableIsSound
  <2>13. OwnerInv'
    <3>1. \A c \in Blocks, s \in Slots : SlotOwns(s, c)' <=> SlotOwns(s, c)
      BY <1>1 DEF SlotOwns
    <3>2. \A c \in Blocks : ~CopyOwns(c) /\ ~CopyOwns(c)'
      BY <1>1, <2>2 DEF CopyOwns
    <3>3. \A s \in Slots : ~SlotOwns(s, b) /\ ~SlotOwns(s, fm.buf)
      BY <2>11 DEF SlotOwns
    <3>4. ASSUME NEW c \in Blocks
          PROVE  (heap'[c] # Freed) = (fm'.buf = c \/ \E s \in Slots : SlotOwns(s, c))
      BY <2>1, <2>3, <2>5, <2>7, <3>2, <3>3 DEF OwnerInv
    <3> QED
      BY <2>3, <2>5, <3>1, <3>2, <3>3, <3>4 DEF OwnerInv
  <2>14. ResponseInv'
    BY <1>1, <2>1, <2>2, <2>3, <2>5, <2>7 DEF ResponseInv, InProgress, Critical, Results
  <2> QED
    BY <2>8, <2>9, <2>10, <2>12, <2>13, <2>14
<1> QED
  BY <1>2, <1>3 DEF ReadAndGrow

LEMMA EndOfBodyKeeps ==
    ASSUME FsInv, EndOfBody
    PROVE  FsInv'
<1> USE DEF FsInv
<1>1. /\ fm.pc = "read" /\ fm' = [fm EXCEPT !.pc = "wait"]
      /\ op' = [op EXCEPT !.pc = "copy", !.name = fm.name, !.src = fm.buf, !.size = fm.total]
      /\ UNCHANGED <<arrived, queued, changed, files, heap, mutex>>
  BY DEF EndOfBody, Store
<1>2. /\ fm.buf \in Blocks /\ heap[fm.buf].ver = fm.ver /\ ~changed /\ fm.action = "download"
      /\ fm.total \in 0 .. MaxSize /\ fm.name \in Names
  BY <1>1 DEF FmInv, ResponseInv, FilesType, FileTask
<1>3. op.pc \in Results /\ op.data = Null /\ op.size = 0 /\ ~mutex
  BY <1>1, AtRest
<1>4. /\ fm' \in FileTask /\ fm'.pc = "wait" /\ fm'.buf = fm.buf /\ fm'.ver = fm.ver
      /\ fm'.total = fm.total /\ fm'.action = "download" /\ fm'.name = fm.name
  BY <1>1, <1>2 DEF FilesType, FileTask
<1>5. /\ op' \in Operation /\ op'.pc = "copy" /\ op'.data = Null /\ op'.src = fm.buf
      /\ op'.size = fm.total /\ op'.name = fm.name
  <2>1. op \in Operation
    BY DEF FilesType
  <2> HIDE DEF FsInv
  <2>2. op' \in Operation
    <3>1. op' = [pc |-> "copy", name |-> fm.name, src |-> fm.buf, data |-> op.data,
                 size |-> fm.total, slot |-> op.slot]
      BY <1>1, <2>1 DEF Operation
    <3> QED
      BY <1>2, <2>1, <3>1 DEF Operation
  <2> QED
    BY <1>1, <1>3, <2>1, <2>2 DEF Operation
<1>6. FilesType'
  BY <1>1, <1>4, <1>5 DEF FilesType
<1>7. OpInv'
  BY <1>1, <1>2, <1>3, <1>4, <1>5 DEF OpInv, InProgress, Critical, Results
<1>8. FmInv'
  BY <1>4 DEF FmInv, UnknownLengthReadToItsEnd
<1>9. TableIsSound'
  BY <1>1, <1>3 DEF TableIsSound, Results, Critical
<1>10. OwnerInv'
  BY <1>1, <1>3, <1>4, <1>5 DEF OwnerInv, SlotOwns, CopyOwns, Results
<1>11. ResponseInv'
  BY <1>1, <1>2, <1>4, <1>5 DEF ResponseInv, InProgress, Critical
<1> QED
  BY <1>6, <1>7, <1>8, <1>9, <1>10, <1>11

LEMMA StartDeleteKeeps ==
    ASSUME FsInv, StartDelete
    PROVE  FsInv'
<1> USE DEF FsInv
<1>1. /\ fm.pc = "start" /\ fm.action = "delete" /\ fm' = [fm EXCEPT !.pc = "wait"]
      /\ op' = [op EXCEPT !.pc = "delete", !.name = fm.name]
      /\ UNCHANGED <<arrived, queued, changed, files, heap, mutex>>
  BY DEF StartDelete, Delete
<1>2. fm.buf = Null /\ ~changed /\ fm.name \in Names
  BY <1>1 DEF FmInv, ResponseInv, FilesType, FileTask
<1>3. op.pc \in Results /\ op.data = Null /\ op.size = 0 /\ ~mutex
  BY <1>1, AtRest
<1>4. /\ fm' \in FileTask /\ fm'.pc = "wait" /\ fm'.buf = Null /\ fm'.action = "delete"
      /\ fm'.name = fm.name
  BY <1>1, <1>2 DEF FilesType, FileTask
<1>5. op' \in Operation /\ op'.pc = "delete" /\ op'.data = Null /\ op'.size = 0 /\ op'.name = fm.name
  BY <1>1, <1>2, <1>3 DEF FilesType, Operation
<1>6. FilesType'
  BY <1>1, <1>4, <1>5 DEF FilesType
<1>7. OpInv'
  BY <1>1, <1>3, <1>4, <1>5 DEF OpInv, InProgress, Critical, Results
<1>8. FmInv'
  BY <1>4 DEF FmInv, UnknownLengthReadToItsEnd
<1>9. TableIsSound'
  BY <1>1, <1>3 DEF TableIsSound, Results, Critical
<1>10. OwnerInv'
  BY <1>1, <1>2, <1>3, <1>4, <1>5 DEF OwnerInv, SlotOwns, CopyOwns, Results
<1>11. ResponseInv'
  BY <1>1, <1>2, <1>4, <1>5 DEF ResponseInv, InProgress, Critical
<1> QED
  BY <1>6, <1>7, <1>8, <1>9, <1>10, <1>11

LEMMA ReturnedKeeps ==
    ASSUME FsInv, Returned
    PROVE  FsInv'
<1> USE DEF FsInv
<1>1. /\ fm.pc = "wait" /\ op.pc \in Results /\ heap' = Free(fm.buf)
      /\ fm' = [fm EXCEPT !.pc = Outcome, !.buf = Null]
      /\ UNCHANGED <<arrived, queued, changed, files, mutex, op>>
  BY DEF Returned
<1>2. op.data = Null /\ op.size = 0 /\ ~mutex
  BY <1>1 DEF OpInv, Results, Critical
<1>3. Outcome \in {"ok", "error"} /\ (Outcome = "ok" <=> op.pc = "ok")
  BY DEF Outcome
<1>4. /\ fm' \in FileTask /\ fm'.pc = Outcome /\ fm'.buf = Null /\ fm'.ver = fm.ver
      /\ fm'.total = fm.total /\ fm'.action = fm.action /\ fm'.name = fm.name
  BY <1>1, <1>3 DEF FilesType, FileTask
<1>5. \A c \in Blocks : heap'[c] = IF c = fm.buf THEN Freed ELSE heap[c]
  BY <1>1 DEF Free
<1>6. FilesType'
  BY <1>1, <1>4, FreeType DEF FilesType
<1>7. OpInv'
  BY <1>1, <1>2 DEF OpInv, InProgress, Critical, Results
<1>8. FmInv'
  BY <1>3, <1>4 DEF FmInv, UnknownLengthReadToItsEnd
<1>9. \A s \in Slots : files[s].data \in Blocks => files[s].data # fm.buf
  BY <1>1, <1>2 DEF OwnerInv, SlotOwns, Results
<1>10. TableIsSound'
  BY <1>1, <1>5, <1>9 DEF TableIsSound
<1>11. OwnerInv'
  <2>1. \A c \in Blocks, s \in Slots : SlotOwns(s, c)' <=> SlotOwns(s, c)
    BY <1>1 DEF SlotOwns
  <2>2. \A c \in Blocks : ~CopyOwns(c) /\ ~CopyOwns(c)'
    BY <1>1, <1>2 DEF CopyOwns
  <2>3. \A s \in Slots, c \in Blocks : SlotOwns(s, c) => c # fm.buf
    BY <1>9 DEF SlotOwns
  <2>4. ASSUME NEW c \in Blocks
        PROVE  (heap'[c] # Freed) = (\E s \in Slots : SlotOwns(s, c))
    BY <1>5, <2>2, <2>3 DEF OwnerInv
  <2> QED
    BY <1>4, <2>1, <2>2, <2>4, ZenonT(40) DEF OwnerInv
<1>12. ResponseInv'
  <2>1. ASSUME op.pc = "ok"
        PROVE  Done'
    <3>1. Done /\ fm.action \in {"download", "delete"}
      BY <1>1, <2>1 DEF ResponseInv
    <3>2. CASE fm.action = "download"
      <4>1. PICK s \in SlotsOf(fm.name) : heap[files[s].data] = Downloaded
        BY <3>1, <3>2 DEF Done
      <4>2. s \in Slots /\ files[s].name = fm.name /\ fm.name \in Names
        BY <4>1 DEF SlotsOf, FilesType, FileTask
      <4>3. files[s].data \in Blocks /\ files[s].data # fm.buf
        BY <1>1, <1>9, <4>2 DEF TableIsSound, Critical, Results
      <4>4. s \in SlotsOf(fm.name)' /\ heap'[files'[s].data] = Downloaded'
        BY <1>1, <1>4, <1>5, <4>1, <4>2, <4>3 DEF SlotsOf, Downloaded
      <4> QED
        BY <1>4, <3>2, <4>4 DEF Done, SlotsOf
    <3>3. CASE fm.action = "delete"
      BY <1>1, <1>4, <3>1, <3>3 DEF Done, SlotsOf
    <3> QED
      BY <3>1, <3>2, <3>3
  <2>2. op.pc # "ok" => ~changed
    BY <1>1 DEF ResponseInv, Results, Critical
  <2> QED
    BY <1>1, <1>3, <1>4, <2>1, <2>2 DEF ResponseInv, InProgress, Critical, Results
<1> QED
  BY <1>6, <1>7, <1>8, <1>10, <1>11, <1>12

LEMMA RespondKeeps ==
    ASSUME FsInv, Respond
    PROVE  FsInv'
<1> USE DEF FsInv
<1>1. /\ fm.pc \in {"ok", "error"} /\ fm' = Idle /\ changed' = FALSE
      /\ UNCHANGED <<arrived, queued, ramfsVars>>
  BY DEF Respond
<1>2. fm.buf = Null
  BY <1>1 DEF FmInv
<1>3. fm' \in FileTask /\ fm'.pc = "idle" /\ fm'.action = "none" /\ fm'.buf = Null /\ fm'.total = 0
  BY <1>1, IdleType
<1>4. FilesType'
  BY <1>1, <1>3 DEF FilesType, ramfsVars
<1>5. FmInv'
  BY <1>3 DEF FmInv, UnknownLengthReadToItsEnd
<1>6. ResponseInv'
  BY <1>1, <1>3, AtRest DEF ResponseInv, ramfsVars, InProgress, Critical, Results
<1> QED
  BY <1>1, <1>2, <1>3, <1>4, <1>5, <1>6, OutsideKeeps

LEMMA ArriveKeeps ==
    ASSUME FsInv, Arrive
    PROVE  FsInv'
<1> USE DEF FsInv
<1>1. UNCHANGED <<fm, changed, ramfsVars>> /\ arrived' \in 0 .. MaxCommands /\ queued' \in 0 .. QueueDepth
  BY DEF Arrive, FilesType
<1>2. FilesType'
  BY <1>1 DEF FilesType, ramfsVars
<1> QED
  BY <1>1, <1>2 DEF ramfsVars, OpInv, FmInv, UnknownLengthReadToItsEnd, TableIsSound, OwnerInv,
                    SlotOwns, CopyOwns, ResponseInv, Done, Downloaded, SlotsOf

LEMMA FileManagerKeeps ==
    ASSUME FsInv, FileManagerStep
    PROVE  FsInv'
BY TakeCommandKeeps, ConnectKeeps, FailReadKeeps, ReadMoreKeeps, ReadAndGrowKeeps, EndOfBodyKeeps,
   StartDeleteKeeps, FileSystemKeeps, ReturnedKeeps, RespondKeeps
   DEF FileManagerStep

\* The GDB task reads the file system and changes nothing of it.
LEMMA ReaderKeeps ==
    ASSUME FsInv, UNCHANGED <<ramfsVars, queued, fm, changed>>, arrived' \in 0 .. MaxCommands
    PROVE  FsInv'
<1> USE DEF FsInv
<1>1. FilesType'
  BY DEF FilesType, ramfsVars
<1> QED
  BY <1>1 DEF ramfsVars, OpInv, FmInv, UnknownLengthReadToItsEnd, TableIsSound, OwnerInv,
              SlotOwns, CopyOwns, ResponseInv, Done, Downloaded, SlotsOf

---------------------------------------------------------------------------
(* The GDB task.                                                           *)

LEMMA StoppedType ==
    Stopped \in Loading /\ Stopped.pc = "idle"
<1> DEFINE name == CHOOSE n \in Names : TRUE
<1>1. name \in Names
  BY AnyName
<1> HIDE DEF name
<1>2. [pc |-> "idle", op |-> "none", name |-> name, slot |-> 0, got |-> {}, data |-> Null,
       size |-> 0, ver |-> 0, i |-> 0, halted |-> FALSE, image |-> <<>>, ready |-> FALSE,
       reply |-> "ok"] \in Loading
  BY <1>1 DEF Loading
<1> QED
  BY <1>2 DEF Stopped, name

LEMMA UnitType ==
    ASSUME FilesType, NEW i \in Nat
    PROVE  Unit(i) \in Versions \cup {0}
BY DEF Unit, FilesType

LEMMA FailType ==
    ASSUME ld \in Loading, Fail
    PROVE  ld' \in Loading /\ ld'.pc = "reply" /\ fault' \in BOOLEAN
BY DEF Fail, Loading

LEMMA GoOnType ==
    ASSUME ld \in Loading, NEW pc \in {"finish", "enable", "erase", "data", "end", "status"}, GoOn(pc)
    PROVE  ld' \in Loading /\ ld'.pc = pc
BY DEF GoOn, Loading

LEMMA WaitType ==
    ASSUME LoaderType, NEW pc \in {"erase", "data", "status"}, Wait(pc)
    PROVE  /\ ld' \in Loading /\ fault' \in BOOLEAN /\ timedOut' \in BOOLEAN
           /\ ld'.pc = pc \/ (ld'.pc = "reply" /\ timedOut')
<1>1. CASE GoOn(pc) /\ timedOut' = FALSE /\ UNCHANGED fault
  <2>1. ld' \in Loading /\ ld'.pc = pc
    BY <1>1, GoOnType DEF LoaderType
  <2> QED
    BY <1>1, <2>1 DEF LoaderType
<1>2. CASE Fail /\ timedOut' = TRUE
  BY <1>2, FailType DEF LoaderType
<1> QED
  BY <1>1, <1>2 DEF Wait

\* Before the FPGA's programming mode is touched.
LEMMA LoadKeeps ==
    ASSUME FilesType, LoaderInv,
           Find \/ Halt \/ Take("data") \/ Take("size") \/ WriteMemory \/ Finish \/ OpenStream
    PROVE  LoaderInv'
<1> USE DEF LoaderInv
<1>1. CASE Find
  <2>1. CASE SlotsOf(ld.name) = {} /\ Fail
    BY <1>1, <2>1, FailType DEF Find, LoaderType, InIscOnlyAfterTimeout
  <2>2. ASSUME SlotsOf(ld.name) # {}, NEW s, s = First(SlotsOf(ld.name)),
               NEW pc \in {"halt", "take"}, ld' = [ld EXCEPT !.pc = pc, !.slot = s], UNCHANGED fault
        PROVE  LoaderInv'
    <3>1. s \in Slots
      BY <2>2, FirstIsThere DEF SlotsOf
    <3>2. ld' \in Loading /\ ld'.pc = pc /\ ld'.slot = s
      BY <2>2, <3>1 DEF LoaderType, Loading
    <3> QED
      BY <1>1, <2>2, <3>1, <3>2 DEF Find, LoaderType, InIscOnlyAfterTimeout
  <2> QED
    BY <1>1, <2>1, <2>2 DEF Find
<1>2. CASE Halt
  <2>1. PICK halted \in BOOLEAN : ld' = [ld EXCEPT !.pc = "take", !.halted = halted] /\ fault' = ~halted
    BY <1>2 DEF Halt
  <2>2. ld' \in Loading /\ ld'.pc = "take" /\ ld'.slot = ld.slot /\ fault' \in BOOLEAN
    BY <2>1 DEF LoaderType, Loading
  <2> QED
    BY <1>2, <2>2 DEF Halt, LoaderType, InIscOnlyAfterTimeout
<1>3. ASSUME NEW field \in {"data", "size"}, Take(field)
      PROVE  LoaderInv'
  <2>1. ld.pc = "take" /\ ld.slot \in Slots
    BY <1>3 DEF Take
  <2>2. PICK pc \in {"take", "write", "enable"} :
          ld' = [ld EXCEPT !.got = ld.got \cup {field}, ![field] = files[ld.slot][field], !.pc = pc]
    BY <1>3 DEF Take
  <2>3. files[ld.slot].data \in Blocks \cup {Null} /\ files[ld.slot].size \in 0 .. MaxSize
    BY <2>1 DEF FilesType, File
  <2>4. ld' \in Loading /\ ld'.pc = pc /\ ld'.slot = ld.slot
    <3>1. CASE field = "data"
      BY <2>2, <2>3, <3>1, ZenonT(40) DEF LoaderType, Loading
    <3>2. CASE field = "size"
      BY <2>2, <2>3, <3>2, ZenonT(40) DEF LoaderType, Loading
    <3> QED
      BY <3>1, <3>2
  <2> QED
    BY <1>3, <2>1, <2>2, <2>4 DEF Take, LoaderType, InIscOnlyAfterTimeout
<1>4. CASE WriteMemory
  <2>1. CASE Fail
    BY <1>4, <2>1, FailType DEF WriteMemory, LoaderType, InIscOnlyAfterTimeout
  <2>2. CASE /\ ld.i < ld.size
             /\ ld' = [ld EXCEPT !.i = @ + 1, !.image = Append(@, Unit(ld.i + 1))]
             /\ UNCHANGED fault
    <3>1. ld.i + 1 \in 1 .. MaxSize /\ Unit(ld.i + 1) \in Versions \cup {0}
      BY <2>2, UnitType DEF LoaderType, Loading
    <3>2. Append(ld.image, Unit(ld.i + 1)) \in Seq(Versions \cup {0})
      BY <3>1 DEF LoaderType, Loading
    <3>3. ld' \in Loading /\ ld'.pc = ld.pc
      <4> DEFINE w == ld.i + 1
                 im == Append(ld.image, Unit(ld.i + 1))
      <4>1. w \in 0 .. MaxSize /\ im \in Seq(Versions \cup {0}) /\ ld \in Loading
        BY <3>1, <3>2 DEF LoaderType
      <4>2. ld' = [ld EXCEPT !.i = w, !.image = im]
        BY <2>2
      <4> HIDE DEF w, im
      <4> QED
        BY <4>1, <4>2 DEF Loading
    <3> QED
      BY <1>4, <2>2, <3>3 DEF WriteMemory, LoaderType, InIscOnlyAfterTimeout
  <2>3. CASE GoOn("finish") /\ UNCHANGED fault
    BY <1>4, <2>3, GoOnType DEF WriteMemory, LoaderType, InIscOnlyAfterTimeout
  <2> QED
    BY <1>4, <2>1, <2>2, <2>3 DEF WriteMemory
<1>5. CASE Finish
  <2>1. PICK ready \in BOOLEAN :
          ld' = [ld EXCEPT !.pc = "reply", !.ready = ready] /\ fault' = (fault \/ ~ready)
    BY <1>5 DEF Finish
  <2>2. ld' \in Loading /\ ld'.pc = "reply" /\ fault' \in BOOLEAN
    BY <2>1 DEF LoaderType, Loading
  <2> QED
    BY <1>5, <2>2 DEF Finish, LoaderType, InIscOnlyAfterTimeout
<1>6. CASE OpenStream
  <2>1. CASE Fail
    BY <1>6, <2>1, FailType DEF OpenStream, LoaderType, InIscOnlyAfterTimeout
  <2>2. CASE GoOn("enable") /\ UNCHANGED fault
    BY <1>6, <2>2, GoOnType DEF OpenStream, LoaderType, InIscOnlyAfterTimeout
  <2> QED
    BY <1>6, <2>1, <2>2 DEF OpenStream
<1> QED
  BY <1>1, <1>2, <1>3, <1>4, <1>5, <1>6

\* From ISC_ENABLE to the reply.
LEMMA ConfigureKeeps ==
    ASSUME FilesType, LoaderInv,
           Enable \/ Erase \/ Program \/ Stream \/ EndProgram \/ CheckStatus \/ Reply
    PROVE  LoaderInv'
<1> USE DEF LoaderInv
<1>0. /\ ld \in Loading /\ fpga \in [isc : BOOLEAN, loaded : Seq(Versions \cup {0})]
      /\ raced \in BOOLEAN /\ fault \in BOOLEAN /\ timedOut \in BOOLEAN
  BY DEF LoaderType
<1>1. CASE Enable
  <2>1. fpga' \in [isc : BOOLEAN, loaded : Seq(Versions \cup {0})]
    BY <1>0, <1>1 DEF Enable, IscEnable
  <2> QED
    BY <1>0, <1>1, <2>1, WaitType DEF Enable, LoaderType, InIscOnlyAfterTimeout
<1>2. CASE Erase
  <2>1. fpga' \in [isc : BOOLEAN, loaded : Seq(Versions \cup {0})]
    <3>1. [fpga EXCEPT !.loaded = <<>>] \in [isc : BOOLEAN, loaded : Seq(Versions \cup {0})]
      <4>1. <<>> \in Seq(Versions \cup {0})
        OBVIOUS
      <4> QED
        BY <1>0, <4>1
    <3> QED
      BY <1>0, <1>2, <3>1 DEF Erase, IscErase
  <2> QED
    BY <1>0, <1>2, <2>1, WaitType DEF Erase, LoaderType, InIscOnlyAfterTimeout
<1>3. ASSUME NEW u \in Versions \cup {0}, ProgramData(u)
      PROVE  fpga' \in [isc : BOOLEAN, loaded : Seq(Versions \cup {0})]
  <2>1. Append(fpga.loaded, u) \in Seq(Versions \cup {0})
    BY <1>0
  <2>2. [fpga EXCEPT !.loaded = Append(@, u)] \in [isc : BOOLEAN, loaded : Seq(Versions \cup {0})]
    BY <1>0, <2>1
  <2> QED
    BY <1>0, <1>3, <2>2 DEF ProgramData
<1>4. ASSUME ld.i < MaxSize, ld' = [ld EXCEPT !.i = @ + 1]
      PROVE  ld' \in Loading /\ ld'.pc = ld.pc
  <2>1. ld.i + 1 \in 0 .. MaxSize
    BY <1>0, <1>4 DEF Loading
  <2> QED
    BY <1>0, <1>4, <2>1 DEF Loading
<1>5. CASE Program
  <2>1. CASE ld.i < ld.size /\ ProgramData(Unit(ld.i + 1)) /\ ld' = [ld EXCEPT !.i = @ + 1]
    <3>1. ld.i < MaxSize /\ ld.i + 1 \in Nat
      BY <1>0, <2>1 DEF Loading
    <3>2. fpga' \in [isc : BOOLEAN, loaded : Seq(Versions \cup {0})]
      BY <1>3, <2>1, <3>1, UnitType
    <3> QED
      BY <1>0, <1>4, <1>5, <2>1, <3>1, <3>2 DEF Program, LoaderType, InIscOnlyAfterTimeout
  <2>2. CASE GoOn("end") /\ UNCHANGED fpga
    BY <1>0, <1>5, <2>2, GoOnType DEF Program, LoaderType, InIscOnlyAfterTimeout
  <2> QED
    BY <1>5, <2>1, <2>2 DEF Program
<1>6. CASE Stream
  <2>1. CASE ld.i < MaxSize /\ ProgramData(ld.ver) /\ ld' = [ld EXCEPT !.i = @ + 1] /\ UNCHANGED fault
    <3>1. ld.ver \in Versions \cup {0}
      BY <1>0 DEF Loading
    <3> QED
      BY <1>0, <1>3, <1>4, <1>6, <2>1, <3>1 DEF Stream, LoaderType, InIscOnlyAfterTimeout
  <2>2. CASE GoOn("end") /\ UNCHANGED <<fpga, fault>>
    BY <1>0, <1>6, <2>2, GoOnType DEF Stream, LoaderType, InIscOnlyAfterTimeout
  <2>3. CASE ld' = [ld EXCEPT !.pc = StreamError, !.reply = "error"] /\ fault' = TRUE /\ UNCHANGED fpga
    <3>1. ld' \in Loading /\ ld'.pc = "end"
      BY <1>0, <2>3 DEF Loading, StreamError
    <3> QED
      BY <1>0, <1>6, <2>3, <3>1 DEF Stream, LoaderType, InIscOnlyAfterTimeout
  <2> QED
    BY <1>6, <2>1, <2>2, <2>3 DEF Stream
<1>7. CASE EndProgram
  <2>1. CASE Fail /\ timedOut' = TRUE /\ UNCHANGED fpga
    BY <1>0, <1>7, <2>1, FailType DEF EndProgram, LoaderType, InIscOnlyAfterTimeout
  <2>2. CASE IscDisable /\ Wait("status")
    <3>1. fpga' \in [isc : BOOLEAN, loaded : Seq(Versions \cup {0})] /\ ~fpga'.isc
      BY <1>0, <2>2 DEF IscDisable
    <3> QED
      BY <1>0, <1>7, <2>2, <3>1, WaitType DEF EndProgram, LoaderType, InIscOnlyAfterTimeout
  <2> QED
    BY <1>7, <2>1, <2>2 DEF EndProgram
<1>8. CASE CheckStatus
  <2>1. PICK reply \in {"ok", "error"} : ld' = [ld EXCEPT !.pc = "reply", !.reply = reply]
    BY <1>0, <1>8 DEF CheckStatus, Loading
  <2>2. ld' \in Loading /\ ld'.pc = "reply"
    BY <1>0, <2>1 DEF Loading
  <2> QED
    BY <1>0, <1>8, <2>2 DEF CheckStatus, LoaderType, InIscOnlyAfterTimeout
<1>9. CASE Reply
  BY <1>0, <1>9, StoppedType DEF Reply, LoaderType, InIscOnlyAfterTimeout
<1> QED
  BY <1>1, <1>2, <1>5, <1>6, <1>7, <1>8, <1>9

LEMMA StartMonitorKeeps ==
    ASSUME LoaderInv, StartMonitor
    PROVE  LoaderInv'
<1>0. ld \in Loading /\ UNCHANGED <<fpga, raced, fault, timedOut>> /\ ld.pc = "idle"
  BY DEF LoaderInv, LoaderType, StartMonitor
<1>1. ld' \in Loading /\ ld'.pc \in {"find", "open"}
  <2>1. ASSUME NEW op_ \in {"load", "program"}, NEW name \in Names,
               ld' = [ld EXCEPT !.pc = "find", !.op = op_, !.name = name]
        PROVE  ld' \in Loading /\ ld'.pc = "find"
    BY <1>0, <2>1 DEF Loading
  <2>2. ASSUME NEW v \in Versions, ld' = [ld EXCEPT !.pc = "open", !.op = "stream", !.ver = v]
        PROVE  ld' \in Loading /\ ld'.pc = "open"
    BY <1>0, <2>2 DEF Loading
  <2>3. (CHOOSE v \in Versions : TRUE) \in Versions
    OBVIOUS
  <2> QED
    BY <2>1, <2>2, <2>3 DEF StartMonitor
<1> QED
  BY <1>0, <1>1 DEF LoaderInv, LoaderType, InIscOnlyAfterTimeout

---------------------------------------------------------------------------
(* Invariance.                                                             *)

LEMMA InitEstablishes == Init => IInv
<1> SUFFICES ASSUME Init PROVE IInv
  OBVIOUS
<1>1. /\ files = [s \in Slots |-> [name |-> NoName, data |-> Null, size |-> 0]]
      /\ heap = [b \in Blocks |-> Freed] /\ mutex = FALSE /\ op = NoOperation("ok")
      /\ arrived = 0 /\ queued = 0 /\ fm = Idle /\ changed = FALSE /\ ld = Stopped
      /\ fpga = [isc |-> FALSE, loaded |-> <<>>] /\ raced = FALSE /\ fault = FALSE /\ timedOut = FALSE
  BY DEF Init, RamFsInit, FmInit, Ecp5Init
<1>2. op \in Operation /\ op.pc = "ok" /\ op.data = Null /\ op.size = 0
  <2>1. op \in Operation
    BY <1>1, NoOperationType DEF Results
  <2> QED
    BY <1>1, <2>1 DEF NoOperation
<1>3. fm \in FileTask /\ fm.pc = "idle" /\ fm.action = "none" /\ fm.buf = Null /\ fm.total = 0
  BY <1>1, IdleType
<1>4. ld \in Loading /\ ld.pc = "idle"
  BY <1>1, StoppedType
<1>5. FilesType
  <2>1. files \in [Slots -> File] /\ \A s \in Slots : files[s].size <= MaxSize
    BY <1>1 DEF File
  <2>2. Freed \in [ver : Versions \cup {0}, len : 0 .. MaxSize]
    BY DEF Freed
  <2>3. heap \in [Blocks -> [ver : Versions \cup {0}, len : 0 .. MaxSize]]
    BY <1>1, <2>2
  <2>4. mutex \in BOOLEAN /\ changed \in BOOLEAN
    BY <1>1
  <2>5. arrived \in 0 .. MaxCommands /\ queued \in 0 .. QueueDepth
    BY <1>1
  <2> QED
    BY <1>2, <1>3, <2>1, <2>3, <2>4, <2>5 DEF FilesType
<1>6. OpInv
  BY <1>1, <1>2 DEF OpInv, InProgress, Critical, Results
<1>7. FmInv
  BY <1>3 DEF FmInv, UnknownLengthReadToItsEnd
<1>8. TableIsSound
  BY <1>1 DEF TableIsSound
<1>9. OwnerInv
  BY <1>1, <1>2, <1>3 DEF OwnerInv, SlotOwns, CopyOwns
<1>10. ResponseInv
  BY <1>1, <1>2, <1>3 DEF ResponseInv, InProgress, Critical
<1>11. LoaderInv
  <2>1. <<>> \in Seq(Versions \cup {0})
    OBVIOUS
  <2>2. fpga \in [isc : BOOLEAN, loaded : Seq(Versions \cup {0})] /\ ~fpga.isc
    BY <1>1, <2>1
  <2> QED
    BY <1>1, <1>4, <2>2 DEF LoaderInv, LoaderType, InIscOnlyAfterTimeout
<1> QED
  BY <1>5, <1>6, <1>7, <1>8, <1>9, <1>10, <1>11 DEF IInv, FsInv

LEMMA NextKeeps == IInv /\ [Next]_vars => IInv'
<1> SUFFICES ASSUME IInv, [Next]_vars PROVE IInv'
  OBVIOUS
<1>0. FsInv /\ LoaderInv /\ FilesType
  BY DEF IInv, FsInv
<1>1. CASE Arrive /\ UNCHANGED loaderVars
  <2>1. LoaderInv'
    BY <1>0, <1>1 DEF LoaderInv, LoaderType, InIscOnlyAfterTimeout, loaderVars
  <2> QED
    BY <1>0, <1>1, <2>1, ArriveKeeps DEF IInv
<1>2. CASE FileTaskStep
  <2>1. raced' \in BOOLEAN
    BY <1>0, <1>2 DEF FileTaskStep, Touching
  <2>2. LoaderInv'
    BY <1>0, <1>2, <2>1 DEF FileTaskStep, LoaderInv, LoaderType, InIscOnlyAfterTimeout
  <2> QED
    BY <1>0, <1>2, <2>2, FileManagerKeeps DEF IInv, FileTaskStep
<1>3. CASE StartMonitor
  <2>1. UNCHANGED <<ramfsVars, queued, fm, changed>> /\ arrived' \in 0 .. MaxCommands
    <3>1. arrived < MaxCommands /\ arrived' = arrived + 1
      BY <1>3 DEF StartMonitor
    <3>2. UNCHANGED <<ramfsVars, queued, fm, changed>>
      BY <1>3 DEF StartMonitor
    <3> QED
      BY <1>0, <3>1, <3>2 DEF FilesType
  <2> QED
    BY <1>0, <1>3, <2>1, StartMonitorKeeps, ReaderKeeps DEF IInv
<1>4. CASE LoaderStep
  <2>1. UNCHANGED <<ramfsVars, queued, fm, changed>> /\ arrived' \in 0 .. MaxCommands
    BY <1>0, <1>4 DEF LoaderStep, FilesType, fmVars
  <2>2. LoaderInv'
    BY <1>0, <1>4, LoadKeeps, ConfigureKeeps DEF LoaderStep
  <2> QED
    BY <1>0, <2>1, <2>2, ReaderKeeps DEF IInv
<1>5. CASE UNCHANGED vars
  <2>1. UNCHANGED <<ramfsVars, queued, fm, changed>> /\ arrived' \in 0 .. MaxCommands /\ UNCHANGED loaderVars
    BY <1>0, <1>5 DEF vars, fmVars, FilesType
  <2>2. LoaderInv'
    BY <1>0, <2>1 DEF LoaderInv, LoaderType, InIscOnlyAfterTimeout, loaderVars
  <2> QED
    BY <1>0, <2>1, <2>2, ReaderKeeps DEF IInv
<1> QED
  BY <1>1, <1>2, <1>3, <1>4, <1>5 DEF Next

LEMMA Invariance == Spec => []IInv
BY InitEstablishes, NextKeeps, PTL DEF Spec

---------------------------------------------------------------------------
(* Theorems.                                                               *)

LEMMA OneOwner == IInv => BlocksOwned
<1> SUFFICES ASSUME IInv, NEW b \in Blocks
             PROVE  /\ (heap[b] # Freed) = (Owners(b) # {})
                    /\ \A x, y \in Owners(b) : x = y
  BY DEF BlocksOwned
<1>0. OwnerInv /\ Slots \subseteq Nat \ {0}
  BY DEF IInv, FsInv, Slots
<1> DEFINE S == {s \in Slots : SlotOwns(s, b)}
           T == IF fm.buf = b THEN {0} ELSE {}
           C == IF CopyOwns(b) THEN {-1} ELSE {}
<1>1. Owners(b) = S \cup T \cup C
  BY DEF Owners, SlotOwns, CopyOwns
<1>2. (heap[b] # Freed) = (S # {} \/ T # {} \/ C # {})
  BY <1>0 DEF OwnerInv
<1>3. \A x, y \in S \cup T \cup C : x = y
  BY <1>0 DEF OwnerInv
<1> HIDE DEF S, T, C
<1> QED
  BY <1>1, <1>2, <1>3

\* The file system is sound at every step of the file manager, whatever the
\* allocator returns and however many files, names and units there are: every
\* allocated block has exactly one owner that will free it, names are unique, and a
\* slot that is not being written has a block of its size.  The types of both
\* tasks are part of it.
THEOREM FilesStaySound == Spec => []FilesAreSound
<1>1. IInv => FilesAreSound
  BY OneOwner DEF IInv, FsInv, LoaderInv, FilesAreSound, TypeOK, FilesType, LoaderType
<1> QED
  BY Invariance, <1>1, PTL

\* What the file manager publishes happened: no file changed when it says error,
\* and the file is stored whole, or gone, when it says ok.
THEOREM ResponsesStayTrue == Spec => []ResponsesAreTrue
<1>1. IInv => ResponsesAreTrue
  BY DEF IInv, FsInv, ResponseInv, Done, Downloaded, ResponsesAreTrue
<1> QED
  BY Invariance, <1>1, PTL

\* A download of unknown length always has room for one more unit, so only the
\* server's end of the body ends it, for every first and largest size.
THEOREM NoBodyIsCut == Spec => []UnknownLengthReadToItsEnd
<1>1. IInv => UnknownLengthReadToItsEnd
  BY DEF IInv, FsInv, FmInv
<1> QED
  BY Invariance, <1>1, PTL

\* Only a wait that was given up leaves the FPGA in programming mode.
THEOREM IscEndsUnlessTimedOut == Spec => []InIscOnlyAfterTimeout
<1>1. IInv => InIscOnlyAfterTimeout
  BY DEF IInv, LoaderInv
<1> QED
  BY Invariance, <1>1, PTL

---------------------------------------------------------------------------
(* What the GDB task reads without the mutex.  Three more parts of the     *)
(* invariant: a file holds what was downloaded under its name; where a     *)
(* command is, whatever the file manager does; and what it has read is     *)
(* still the file, unless its slot was written.                            *)

\* The content that a download stores.
VersionInv ==
    fm.pc \in {"read", "wait"} /\ fm.action = "download" => fm.ver \in Served(fm.name)

\* A slot that has not been written yet is a whole file.
Written(s) == op.pc \in Critical \ {"free"} /\ op.slot = s

WholeInv ==
    \A s \in Slots : files[s].name # NoName /\ ~Written(s) =>
        /\ files[s].data \in Blocks
        /\ heap[files[s].data].len = files[s].size
        /\ heap[files[s].data].ver \in Served(files[s].name)

Same(v, n) == [k \in 1 .. n |-> v]

\* Where a monitor command is.
PathInv ==
    /\ ld.pc = "idle" => ~fault /\ ld = Stopped
    /\ ld.pc \in {"halt", "write", "finish"} => ld.op = "load"
    /\ ld.pc \in {"find", "take"} => ld.op \in {"load", "program"}
    /\ ld.pc \in {"open"} => ld.op = "stream"
    /\ ld.pc \in {"enable", "erase", "data", "end", "status"} => ld.op \in {"program", "stream"}
    /\ ld.pc = "reply" => ld.op # "none"
    /\ ld.op = "stream" => ld.slot = 0
    /\ ld.op \in {"load", "program"} /\ ld.pc \notin {"find", "reply"} => ld.slot \in Slots
    /\ ld.pc = "reply" /\ ~fault /\ ld.op \in {"load", "program"} => ld.slot \in Slots
    /\ ld.pc \in {"find", "open", "halt", "take", "enable", "erase"} => ld.i = 0 /\ ld.image = <<>>
    /\ ld.pc \in {"find", "open", "halt"} => ld.got = {}
    /\ ld.pc = "take" => ld.got # {"data", "size"}
    /\ ld.pc \in {"write", "finish", "enable", "erase", "data", "end", "status"}
         /\ ld.op # "stream" => ld.got = {"data", "size"}

\* What has failed in it, and what its reply means.
FaultInv ==
    /\ ld.pc \in {"find", "open", "halt"} => ~fault
    /\ ld.pc # "reply" /\ ld.op \in {"program", "stream"} => (fault <=> ld.reply = "error")
    /\ ld.pc = "reply" /\ ld.op \in {"program", "stream"} => (fault => ld.reply = "error")
    /\ ld.pc # "reply" /\ ld.op = "load" => ld.reply = "ok"
    /\ ld.op = "load" /\ ~fault =>
         /\ ld.pc \in {"take", "write", "finish", "reply"} => ld.halted
         /\ ld.pc = "reply" => ld.reply = "ok" /\ ld.ready
    /\ ld.pc \in {"erase", "data"} => fpga.isc
    /\ ld.pc = "status" => ~fpga.isc
    /\ ld.pc = "reply" /\ ld.op \in {"program", "stream"} =>
         /\ ld.reply = "ok" => FpgaDone
         /\ ld.reply = "error" /\ ~fault => fpga.loaded \notin Bitstreams
    /\ ld.op = "stream" /\ (ld.pc \in {"data", "end", "status"} \/ (ld.pc = "reply" /\ ~fault)) =>
         fpga.loaded = Same(ld.ver, ld.i)

\* What a command that loads a file has made of it.
Copied == IF ld.op = "load" THEN ld.image ELSE fpga.loaded

CopyInv ==
    ~raced /\ ld.slot # 0 =>
        /\ files[ld.slot].name = ld.name /\ ld.name \in Names /\ ~Written(ld.slot)
        /\ "data" \in ld.got => ld.data = files[ld.slot].data
        /\ "size" \in ld.got => ld.size = files[ld.slot].size
        /\ ld.pc \in {"write", "finish", "data", "end", "status"} =>
             ld.i <= ld.size /\ Copied = Same(heap[files[ld.slot].data].ver, ld.i)
        /\ ld.pc \in {"finish", "end", "status"} => ld.i = ld.size
        /\ ld.pc = "reply" /\ ~fault =>
             Copied = Same(heap[files[ld.slot].data].ver, files[ld.slot].size)


Touched(s) == op.pc \in Critical /\ op.slot = s

\* The block of a file that is not being written belongs to nobody else.
LEMMA BlockOfFile ==
    ASSUME FsInv, NEW s \in Slots, files[s].name # NoName, ~Written(s)
    PROVE  /\ files[s].data \in Blocks /\ heap[files[s].data] # Freed
           /\ files[s].data # fm.buf /\ ~CopyOwns(files[s].data)
           /\ \A t \in Slots \ {s} : ~SlotOwns(t, files[s].data)
<1>1. files[s].data \in Blocks
  BY DEF FsInv, Written, TableIsSound, OpInv, Critical
<1>2. SlotOwns(s, files[s].data)
  BY DEF SlotOwns, Written, Critical
<1> QED
  BY <1>1, <1>2 DEF FsInv, OwnerInv

\* The file system writes no slot but the one its operation is at.
LEMMA OtherSlotsStayed ==
    ASSUME FsInv, RamFsStep, NEW s \in Slots, files[s].name # NoName, ~Touched(s)
    PROVE  /\ files'[s] = files[s]
           /\ heap'[files[s].data] = heap[files[s].data]
           /\ ~Written(s)'
<1>0. ~Written(s)
  BY DEF Touched, Written
<1>1. /\ files[s].data \in Blocks /\ heap[files[s].data] # Freed
      /\ ~CopyOwns(files[s].data) /\ \A t \in Slots \ {s} : ~SlotOwns(t, files[s].data)
  BY <1>0, BlockOfFile
<1>2. op.slot \in Slots /\ files \in [Slots -> File] /\ op \in Operation
      /\ op.data \in Blocks \cup {Null}
      /\ heap \in [Blocks -> [ver : Versions \cup {0}, len : 0 .. MaxSize]]
  BY DEF FsInv, FilesType, Operation
<1>3. CASE Allocate
  <2>1. ASSUME NEW b \in Candidates,
               heap' = [heap EXCEPT ![b] = [ver |-> heap[op.src].ver, len |-> op.size]],
               op' = [op EXCEPT !.pc = "store", !.data = b]
        PROVE  op'.pc = "store" /\ heap'[files[s].data] = heap[files[s].data]
    <3>1. b # files[s].data
      BY <1>1, CandidatesAreFree
    <3> QED
      BY <1>1, <1>2, <2>1, <3>1 DEF Operation
  <2>2. Return("no_mem") => op'.pc = "no_mem"
    BY DEF Return, NoOperation
  <2>3. UNCHANGED files /\ op'.pc \notin Critical /\ heap'[files[s].data] = heap[files[s].data]
    <3>1. CASE Return("no_mem") /\ UNCHANGED heap
      BY <1>3, <2>2, <3>1 DEF Allocate, Critical
    <3>2. CASE ~(Return("no_mem") /\ UNCHANGED heap)
      <4>1. PICK b \in Candidates :
              /\ heap' = [heap EXCEPT ![b] = [ver |-> heap[op.src].ver, len |-> op.size]]
              /\ op' = [op EXCEPT !.pc = "store", !.data = b]
        BY <1>3, <3>2 DEF Allocate
      <4>2. op'.pc = "store" /\ heap'[files[s].data] = heap[files[s].data]
        BY <2>1, <4>1
      <4> QED
        BY <1>3, <4>2 DEF Allocate, Critical
    <3> QED
      BY <3>1, <3>2
  <2> QED
    BY <2>3 DEF Written
<1>4. CASE Update
  BY <1>2, <1>4 DEF Update, Written, Operation
<1>5. CASE Create
  <2>1. PICK t \in Slots : files[t].name = NoName /\ files' = [files EXCEPT ![t].name = op.name]
                           /\ op' = [op EXCEPT !.pc = "data", !.slot = t]
    <3>1. First(SlotsOf(NoName)) \in SlotsOf(NoName)
      BY <1>5, FirstIsThere DEF Create, SlotsOf
    <3> QED
      BY <1>5, <3>1 DEF Create, SlotsOf
  <2>2. s # t /\ UNCHANGED heap
    BY <1>5, <2>1 DEF Create
  <2> QED
    BY <1>2, <2>1, <2>2 DEF Written, Operation
<1>6. CASE NoRoom
  BY <1>2, <1>6 DEF NoRoom, Written, Critical, Operation
<1>7. CASE Drop
  <2>1. UNCHANGED files /\ op'.pc \notin Critical
    BY <1>7 DEF Drop, Return, NoOperation, Critical
  <2>2. op.data # files[s].data
    BY <1>1, <1>7 DEF Drop, CopyOwns
  <2>3. heap'[files[s].data] = heap[files[s].data]
    BY <1>1, <1>7, <2>2 DEF Drop, Free
  <2> QED
    BY <2>1, <2>3 DEF Written
<1>8. CASE FindToDelete
  <2>1. Return("not_found") => op'.pc = "not_found"
    BY DEF Return, NoOperation
  <2>2. \A t : op' = [op EXCEPT !.pc = "free", !.slot = t] => op'.pc = "free"
    BY <1>2 DEF Operation
  <2>3. UNCHANGED <<files, heap>> /\ op'.pc \notin Critical \ {"free"}
    BY <1>8, <2>1, <2>2 DEF FindToDelete, Critical
  <2> QED
    BY <2>3 DEF Written
<1>9. CASE FreeData
  <2>1. op.slot # s /\ UNCHANGED files /\ op'.slot = op.slot
    BY <1>2, <1>9 DEF FreeData, Touched, Critical, Operation
  <2>2. files[op.slot].data # files[s].data
    BY <1>1, <1>2, <1>9, <2>1 DEF FreeData, SlotOwns
  <2>3. heap'[files[s].data] = heap[files[s].data]
    BY <1>1, <1>9, <2>2 DEF FreeData, Free
  <2> QED
    BY <2>1, <2>3 DEF Written
<1>10. CASE SetData
  <2>1. op.slot # s /\ UNCHANGED heap /\ op'.slot = op.slot
    BY <1>2, <1>10 DEF SetData, Touched, Critical, Operation
  <2>2. files'[s] = files[s]
    BY <1>2, <1>10, <2>1 DEF SetData
  <2> QED
    BY <2>1, <2>2 DEF Written
<1>11. CASE SetSize
  <2>1. op.slot # s /\ UNCHANGED heap
    BY <1>2, <1>11 DEF SetSize, Touched, Critical
  <2>2. files'[s] = files[s]
    BY <1>2, <1>11, <2>1 DEF SetSize
  <2>3. ~Written(s)'
    BY <1>2, <1>11, <2>1 DEF SetSize, Written, Return, NoOperation, Critical, Operation
  <2> QED
    BY <2>1, <2>2, <2>3
<1>12. CASE ClearName
  <2>1. op.slot # s /\ UNCHANGED heap
    BY <1>2, <1>12 DEF ClearName, Touched, Critical
  <2>2. files'[s] = files[s]
    BY <1>2, <1>12, <2>1 DEF ClearName
  <2>3. ~Written(s)'
    BY <1>12 DEF ClearName, Written, Return, NoOperation, Critical
  <2> QED
    BY <2>1, <2>2, <2>3
<1> QED
  BY <1>3, <1>4, <1>5, <1>6, <1>7, <1>8, <1>9, <1>10, <1>11, <1>12 DEF RamFsStep

\* Nor does the rest of the file manager write to a slot or its block.
LEMMA FilesStayed ==
    ASSUME FsInv, FileManagerStep, NEW s \in Slots, files[s].name # NoName, ~Touched(s)
    PROVE  /\ files'[s] = files[s]
           /\ heap'[files[s].data] = heap[files[s].data]
           /\ ~Written(s)'
<1>1. CASE FileSystemStep
  BY <1>1, OtherSlotsStayed DEF FileSystemStep
<1>2. ASSUME ~FileSystemStep
      PROVE  /\ UNCHANGED files
             /\ heap'[files[s].data] = heap[files[s].data]
             /\ op' = op \/ op'.pc \notin Critical
  <2>0. ~Written(s)
    BY DEF Touched, Written
  <2>1. files[s].data \in Blocks /\ heap[files[s].data] # Freed /\ files[s].data # fm.buf
    BY <2>0, BlockOfFile
  <2>2. op \in Operation /\ heap \in [Blocks -> [ver : Versions \cup {0}, len : 0 .. MaxSize]]
    BY DEF FsInv, FilesType
  <2>3. CASE TakeCommand \/ Respond
    BY <2>3 DEF TakeCommand, Respond, ramfsVars
  <2>4. CASE Connect
    <3>1. \A b \in Candidates : b # files[s].data
      BY <2>1, CandidatesAreFree
    <3>2. \A v : \A b \in Candidates : [heap EXCEPT ![b] = v][files[s].data] = heap[files[s].data]
      BY <2>1, <2>2, <3>1
    <3> QED
      BY <2>4, <3>2 DEF Connect
  <2>5. CASE FailRead \/ Returned
    BY <2>1, <2>5 DEF FailRead, Returned, Free
  <2>6. ASSUME NEW n \in 1 .. MaxSize, ReadMore(n)
        PROVE  UNCHANGED <<files, heap, op>>
    BY <2>6 DEF ReadMore, ramfsVars
  <2>7. ASSUME NEW n \in 1 .. MaxSize, ReadAndGrow(n)
        PROVE  UNCHANGED <<files, op>> /\ heap'[files[s].data] = heap[files[s].data]
    <3>1. Free(fm.buf)[files[s].data] = heap[files[s].data]
      BY <2>1 DEF Free
    <3>2. \A b \in Candidates \cup {fm.buf} : b # files[s].data
      BY <2>1, CandidatesAreFree
    <3>3. Free(fm.buf) = [c \in Blocks |-> Free(fm.buf)[c]]
      BY DEF Free
    <3>4. \A v : \A b \in Candidates \cup {fm.buf} :
            [Free(fm.buf) EXCEPT ![b] = v][files[s].data] = heap[files[s].data]
      BY <2>1, <3>1, <3>2, <3>3
    <3> QED
      BY <2>7, <3>1, <3>4 DEF ReadAndGrow
  <2>8. CASE EndOfBody \/ StartDelete
    <3>1. Store(fm.name, fm.buf, fm.total) => op'.pc = "copy"
      BY <2>2 DEF Store, Operation
    <3>2. Delete(fm.name) => op'.pc = "delete"
      BY <2>2 DEF Delete, Operation
    <3> QED
      BY <2>8, <3>1, <3>2 DEF EndOfBody, StartDelete, Critical
  <2> QED
    BY <1>2, <2>3, <2>4, <2>5, <2>6, <2>7, <2>8 DEF FileManagerStep
<1> QED
  BY <1>1, <1>2 DEF Written, Touched

\* A download keeps what it downloads.
LEMMA VersionKeeps ==
    ASSUME FsInv, VersionInv, FileManagerStep
    PROVE  VersionInv'
<1>0. fm \in FileTask
  BY DEF FsInv, FilesType
<1>1. ASSUME fm'.pc \in {"read", "wait"}, fm'.action = "download"
      PROVE  \/ /\ fm.pc \in {"read", "wait"} /\ fm.action = "download"
                /\ fm'.ver = fm.ver /\ fm'.name = fm.name
             \/ fm'.ver \in Served(fm'.name)
  <2>1. CASE TakeCommand
    <3>1. Error => fm'.pc = "error"
      BY ErrorType
    <3> QED
      BY <1>0, <1>1, <2>1, <3>1, ZenonT(40) DEF TakeCommand, Dispatch, FileTask
  <2>2. CASE Connect
    <3>1. ~Error
      BY <1>1, ErrorType
    <3>2. ASSUME NEW length \in 0 .. MaxSize, NEW v \in Served(fm.name), NEW b \in Candidates,
                 fm' = [fm EXCEPT !.pc = "read", !.buf = b,
                                  !.cap = IF length > 0 THEN length ELSE FirstSize,
                                  !.known = length > 0, !.ver = v]
          PROVE  fm'.ver \in Served(fm'.name)
      BY <1>0, <3>2 DEF FileTask
    <3> QED
      BY <2>2, <3>1, <3>2 DEF Connect
  <2>3. CASE FailRead
    BY <1>1, <2>3, ErrorType DEF FailRead
  <2>4. ASSUME NEW n \in 1 .. MaxSize, ReadMore(n)
        PROVE  fm.pc = "read" /\ fm'.ver = fm.ver /\ fm'.name = fm.name /\ fm'.action = fm.action
    BY <1>0, <2>4 DEF ReadMore, FileTask
  <2>5. ASSUME NEW n \in 1 .. MaxSize, ReadAndGrow(n)
        PROVE  fm.pc = "read" /\ fm'.ver = fm.ver /\ fm'.name = fm.name /\ fm'.action = fm.action
    <3>1. ~Error
      BY <1>1, ErrorType
    <3> QED
      BY <1>0, <2>5, <3>1, ZenonT(40) DEF ReadAndGrow, FileTask
  <2>6. CASE EndOfBody
    BY <1>0, <1>1, <2>6 DEF EndOfBody, FileTask
  <2>7. CASE StartDelete
    BY <1>0, <1>1, <2>7 DEF StartDelete, FileTask
  <2>8. CASE FileSystemStep
    BY <1>1, <2>8 DEF FileSystemStep
  <2>9. CASE Returned
    BY <1>0, <1>1, <2>9 DEF Returned, Outcome, FileTask
  <2>10. CASE Respond
    BY <1>1, <2>10, IdleType DEF Respond
  <2> QED
    BY <1>1, <2>1, <2>2, <2>3, <2>4, <2>5, <2>6, <2>7, <2>8, <2>9, <2>10 DEF FileManagerStep
<1> QED
  BY <1>1 DEF VersionInv

\* A slot that is named and not being written was that before, or a store has
\* come to its end.
LEMMA NewlyWhole ==
    ASSUME FsInv, FileManagerStep, NEW s \in Slots,
           Touched(s), files'[s].name # NoName, ~Written(s)'
    PROVE  /\ op.pc = "size" /\ op.data \in Blocks /\ files'[s].name = fm.name
           /\ files'[s].data = op.data /\ files'[s].size = op.size /\ heap' = heap
           /\ fm.pc = "wait" /\ fm.action = "download" /\ heap[op.data] = Downloaded
<1>0. /\ op.pc \in Critical /\ op.slot = s /\ fm.pc = "wait" /\ op.name = fm.name
      /\ files[s].name = op.name /\ op \in Operation /\ files \in [Slots -> File]
      /\ op.data \in Blocks \cup {Null}
  BY DEF Touched, FsInv, OpInv, InProgress, FilesType, Operation
<1>1. FileSystemStep
  BY <1>0 DEF FileManagerStep, TakeCommand, Connect, FailRead, ReadMore, ReadAndGrow, EndOfBody,
              StartDelete, Returned, Respond, Results, Critical
<1>2. FreeData \/ SetData \/ SetSize \/ ClearName
  BY <1>0, <1>1 DEF FileSystemStep, RamFsStep, Allocate, Update, Create, NoRoom, Drop, FindToDelete,
                    Critical
<1>3. CASE FreeData
  BY <1>0, <1>3 DEF FreeData, Written, Critical, Operation
<1>4. CASE SetData
  BY <1>0, <1>4 DEF SetData, Written, Critical, Operation
<1>5. CASE SetSize
  <2>1. op.data # Null
    BY <1>0, <1>5 DEF SetSize, Written, Critical, Operation
  <2>2. /\ op.pc = "size" /\ heap' = heap /\ files' = [files EXCEPT ![s].size = op.size]
        /\ files[s].data = op.data
    BY <1>0, <1>5 DEF SetSize, FsInv, OpInv
  <2>3. fm.action = "download" /\ heap[op.data] = Downloaded
    BY <1>0, <2>1 DEF FsInv, ResponseInv, InProgress, Critical
  <2> QED
    BY <1>0, <2>1, <2>2, <2>3 DEF File
<1>6. CASE ClearName
  BY <1>0, <1>6 DEF ClearName, File
<1> QED
  BY <1>2, <1>3, <1>4, <1>5, <1>6

\* An empty slot that no operation is at stays empty, or is taken by a store.
LEMMA EmptySlotStayed ==
    ASSUME FsInv, FileManagerStep, NEW s \in Slots, files[s].name = NoName, ~Touched(s)
    PROVE  files'[s] = files[s] \/ Written(s)'
<1>0. /\ files \in [Slots -> File] /\ op \in Operation
  BY DEF FsInv, FilesType
<1>1. CASE ~FileSystemStep
  BY <1>1 DEF FileManagerStep, TakeCommand, Connect, FailRead, ReadMore, ReadAndGrow, EndOfBody,
              StartDelete, Returned, Respond, ramfsVars
<1>2. CASE FileSystemStep
  <2>1. CASE Create
    BY <1>0, <2>1 DEF Create, Written, Critical, Operation
  <2>2. CASE SetData \/ SetSize \/ ClearName
    BY <1>0, <2>2 DEF SetData, SetSize, ClearName, Touched, Critical
  <2>3. CASE Allocate \/ Update \/ NoRoom \/ Drop \/ FindToDelete \/ FreeData
    BY <2>3 DEF Allocate, Update, NoRoom, Drop, FindToDelete, FreeData
  <2> QED
    BY <1>2, <2>1, <2>2, <2>3 DEF FileSystemStep, RamFsStep
<1> QED
  BY <1>1, <1>2

LEMMA WholeKeeps ==
    ASSUME FsInv, VersionInv, WholeInv, FileManagerStep
    PROVE  WholeInv'
<1> SUFFICES ASSUME NEW s \in Slots, files'[s].name # NoName, ~Written(s)'
             PROVE  /\ files'[s].data \in Blocks
                    /\ heap'[files'[s].data].len = files'[s].size
                    /\ heap'[files'[s].data].ver \in Served(files'[s].name)
  BY DEF WholeInv, Written
<1>1. CASE Touched(s)
  <2>1. op.size = heap[op.data].len
    BY <1>1, NewlyWhole DEF FsInv, OpInv
  <2> QED
    BY <1>1, <2>1, NewlyWhole DEF VersionInv, Downloaded
<1>2. CASE ~Touched(s) /\ files[s].name # NoName
  <2>1. ~Written(s)
    BY <1>2 DEF Touched, Written
  <2> QED
    BY <1>2, <2>1, FilesStayed DEF WholeInv
<1>3. CASE files[s].name = NoName /\ ~Touched(s)
  <2>1. files'[s] = files[s] \/ Written(s)'
    BY <1>3, EmptySlotStayed
  <2> QED
    BY <1>3, <2>1
<1> QED
  BY <1>1, <1>2, <1>3

---------------------------------------------------------------------------
(* The GDB task and what it has read.                                      *)

LEMMA SameNone == ASSUME NEW v PROVE Same(v, 0) = <<>>
BY DEF Same

LEMMA SameLonger ==
    ASSUME NEW v, NEW n \in Nat
    PROVE  Append(Same(v, n), v) = Same(v, n + 1)
BY DEF Same

LEMMA SameBegins ==
    ASSUME NEW v, NEW n \in Nat, NEW i \in 0 .. n
    PROVE  SubSeq(Same(v, n), 1, i) = Same(v, i)
BY DEF Same

ReadInv == PathInv /\ FaultInv /\ CopyInv

\* While its slot is not touched, what it has read stays the file.
LEMMA FileTaskKeepsRead ==
    ASSUME FsInv, LoaderType, ReadInv, FileTaskStep
    PROVE  ReadInv'
<1>0. UNCHANGED <<ld, fpga, fault, timedOut>> /\ raced' = (raced \/ Touching) /\ FileManagerStep
  BY DEF FileTaskStep
<1>1. PathInv' /\ FaultInv'
  BY <1>0 DEF ReadInv, PathInv, FaultInv, FpgaDone
<1>2. CopyInv'
  <2>1. SUFFICES ASSUME ~raced', ld.slot # 0 PROVE CopyInv'
    BY <1>0 DEF CopyInv
  <2>2. ~raced /\ ~Touched(ld.slot)
    BY <1>0, <2>1 DEF Touching, Touched
  <2>3. ld.slot \in Slots
    BY <2>1 DEF LoaderType, Loading
  <2>4. files[ld.slot].name = ld.name /\ ld.name \in Names
    BY <2>1, <2>2 DEF ReadInv, CopyInv
  <2>5. /\ files'[ld.slot] = files[ld.slot]
        /\ heap'[files[ld.slot].data] = heap[files[ld.slot].data]
        /\ ~Written(ld.slot)'
    <3>1. PICK s \in Slots : s = ld.slot
      BY <2>3
    <3>2. /\ files'[s] = files[s] /\ heap'[files[s].data] = heap[files[s].data] /\ ~Written(s)'
      BY <1>0, <2>2, <2>4, <3>1, FilesStayed
    <3> QED
      BY <1>0, <3>1, <3>2 DEF Written
  <2> QED
    BY <1>0, <2>1, <2>2, <2>4, <2>5 DEF ReadInv, CopyInv, Copied
<1> QED
  BY <1>1, <1>2 DEF ReadInv

LEMMA OthersKeepRead ==
    ASSUME FsInv, ReadInv, UNCHANGED <<ramfsVars, loaderVars>>
    PROVE  ReadInv'
<1>1. PathInv' /\ FaultInv'
  BY DEF loaderVars, ReadInv, PathInv, FaultInv, FpgaDone
<1>2. CopyInv'
  BY DEF ramfsVars, loaderVars, ReadInv, CopyInv, Copied, Written
<1> QED
  BY <1>1, <1>2 DEF ReadInv

LEMMA StartMonitorKeepsRead ==
    ASSUME FsInv, LoaderType, ReadInv, StartMonitor
    PROVE  ReadInv'
<1>0. /\ ld \in Loading /\ ld.slot = 0 /\ ld.i = 0 /\ ld.image = <<>> /\ ld.got = {} /\ ld.reply = "ok"
      /\ ~fault /\ UNCHANGED <<fpga, raced, fault>>
  <2>1. ld.pc = "idle" /\ UNCHANGED <<fpga, raced, fault>>
    BY DEF StartMonitor
  <2>2. ld = Stopped /\ ~fault /\ ld \in Loading
    BY <2>1 DEF ReadInv, PathInv, LoaderType
  <2>3. Stopped.slot = 0 /\ Stopped.i = 0 /\ Stopped.image = <<>> /\ Stopped.got = {} /\ Stopped.reply = "ok"
    BY DEF Stopped
  <2> QED
    BY <2>1, <2>2, <2>3
<1>1. ASSUME NEW op_ \in {"load", "program"}, NEW name \in Names,
             ld' = [ld EXCEPT !.pc = "find", !.op = op_, !.name = name]
      PROVE  ReadInv'
  <2>1. /\ ld'.pc = "find" /\ ld'.op = op_ /\ ld'.slot = 0 /\ ld'.i = 0 /\ ld'.image = <<>>
        /\ ld'.got = {} /\ ld'.reply = "ok"
    BY <1>0, <1>1 DEF Loading
  <2> QED
    BY <1>0, <2>1 DEF ReadInv, PathInv, FaultInv, CopyInv
<1>2. ASSUME NEW v \in Versions, ld' = [ld EXCEPT !.pc = "open", !.op = "stream", !.ver = v]
      PROVE  ReadInv'
  <2>1. /\ ld'.pc = "open" /\ ld'.op = "stream" /\ ld'.slot = 0 /\ ld'.i = 0 /\ ld'.image = <<>>
        /\ ld'.got = {} /\ ld'.reply = "ok"
    BY <1>0, <1>2 DEF Loading
  <2> QED
    BY <1>0, <2>1 DEF ReadInv, PathInv, FaultInv, CopyInv
<1>3. (CHOOSE v \in Versions : TRUE) \in Versions
  OBVIOUS
<1> QED
  BY <1>1, <1>2, <1>3 DEF StartMonitor

\* A reply of a command that failed says so, and nothing else matters.
LEMMA FailKeepsRead ==
    ASSUME LoaderType, ReadInv, ld.pc \notin {"idle", "reply"}, ld.op # "none", Fail, UNCHANGED raced
    PROVE  /\ PathInv' /\ FaultInv'
           /\ UNCHANGED ramfsVars => CopyInv'
<1>1. /\ fault' = TRUE /\ ld'.pc = "reply" /\ ld'.reply = "error" /\ ld'.op = ld.op
      /\ ld'.slot = ld.slot /\ ld'.name = ld.name /\ ld'.got = ld.got
      /\ ld'.data = ld.data /\ ld'.size = ld.size
  BY DEF LoaderType, Loading, Fail
<1>2. PathInv'
  BY <1>1 DEF ReadInv, PathInv
<1>3. FaultInv'
  BY <1>1 DEF FaultInv
<1>4. UNCHANGED ramfsVars => CopyInv'
  BY <1>1 DEF ReadInv, CopyInv, ramfsVars, Written
<1> QED
  BY <1>2, <1>3, <1>4

LEMMA FindKeepsRead ==
    ASSUME FsInv, LoaderType, ReadInv, Find, UNCHANGED ramfsVars
    PROVE  ReadInv'
<1>0. /\ ld.pc = "find" /\ ~mutex /\ UNCHANGED <<fpga, raced>> /\ ld.op \in {"load", "program"}
      /\ ld.i = 0 /\ ld.image = <<>> /\ ld.got = {} /\ ~fault /\ ld.reply = "ok" /\ ld.name \in Names
  BY DEF Find, ReadInv, PathInv, FaultInv, LoaderType, Loading
<1>1. CASE Fail
  BY <1>0, <1>1, FailKeepsRead DEF ReadInv
<1>2. ASSUME SlotsOf(ld.name) # {}, NEW s, s = First(SlotsOf(ld.name)), UNCHANGED fault,
             ld' = [ld EXCEPT !.pc = IF ld.op = "load" THEN "halt" ELSE "take", !.slot = s]
      PROVE  ReadInv'
  <2>1. s \in Slots /\ files[s].name = ld.name
    BY <1>2, FirstIsThere DEF SlotsOf
  <2>2. /\ ld'.pc = IF ld.op = "load" THEN "halt" ELSE "take"
        /\ ld'.op = ld.op /\ ld'.slot = s /\ ld'.i = 0 /\ ld'.image = <<>> /\ ld'.got = {}
        /\ ld'.reply = "ok" /\ ld'.name = ld.name
    BY <1>0, <1>2 DEF LoaderType, Loading
  <2>3. PathInv'
    BY <1>0, <2>1, <2>2 DEF PathInv
  <2>4. FaultInv'
    BY <1>0, <1>2, <2>2 DEF FaultInv
  <2>5. ~Written(s) /\ UNCHANGED <<files, heap, op>>
    BY <1>0 DEF FsInv, OpInv, Written, ramfsVars
  <2>6. CopyInv'
    BY <1>0, <2>1, <2>2, <2>5 DEF CopyInv, Written
  <2> QED
    BY <2>3, <2>4, <2>6 DEF ReadInv
<1> QED
  BY <1>1, <1>2 DEF Find

LEMMA HaltKeepsRead ==
    ASSUME LoaderType, ReadInv, Halt, UNCHANGED ramfsVars
    PROVE  ReadInv'
<1>1. PICK halted \in BOOLEAN : ld' = [ld EXCEPT !.pc = "take", !.halted = halted] /\ fault' = ~halted
  BY DEF Halt
<1>2. /\ ld.pc = "halt" /\ ld.op = "load" /\ UNCHANGED <<fpga, raced>> /\ ld.reply = "ok"
      /\ ld.i = 0 /\ ld.image = <<>> /\ ld.got = {} /\ ld.slot \in Slots
  BY DEF Halt, ReadInv, PathInv, FaultInv
<1>3. /\ ld'.pc = "take" /\ ld'.op = "load" /\ ld'.slot = ld.slot /\ ld'.i = 0 /\ ld'.image = <<>>
      /\ ld'.got = {} /\ ld'.reply = "ok" /\ ld'.name = ld.name /\ ld'.halted = halted
  BY <1>1, <1>2 DEF LoaderType, Loading
<1>4. PathInv'
  BY <1>2, <1>3 DEF PathInv
<1>5. FaultInv'
  BY <1>1, <1>2, <1>3 DEF FaultInv
<1>6. CopyInv'
  BY <1>2, <1>3 DEF ReadInv, CopyInv, Written, ramfsVars
<1> QED
  BY <1>4, <1>5, <1>6 DEF ReadInv

LEMMA TakeKeepsRead ==
    ASSUME FsInv, WholeInv, LoaderType, ReadInv, NEW field \in {"data", "size"}, Take(field),
           UNCHANGED ramfsVars
    PROVE  ReadInv'
<1>0. /\ ld.pc = "take" /\ ld.op \in {"load", "program"} /\ ld.slot \in Slots /\ ld.slot # 0
      /\ ld.i = 0 /\ ld.image = <<>> /\ field \notin ld.got /\ ld.got \in SUBSET {"data", "size"}
      /\ UNCHANGED <<fpga, raced, fault>>
  BY DEF Take, ReadInv, PathInv, LoaderType, Loading, Slots
<1>1. PICK pc \in {"take", "write", "enable"} :
        /\ pc = IF ld.got \cup {field} = {"data", "size"}
                THEN IF ld.op = "load" THEN "write" ELSE "enable" ELSE "take"
        /\ ld' = [ld EXCEPT !.got = ld.got \cup {field}, ![field] = files[ld.slot][field], !.pc = pc]
  BY DEF Take
<1>2. /\ ld'.pc = pc /\ ld'.op = ld.op /\ ld'.slot = ld.slot /\ ld'.i = 0 /\ ld'.image = <<>>
      /\ ld'.got = ld.got \cup {field} /\ ld'.name = ld.name /\ ld'.reply = ld.reply
      /\ ld'.halted = ld.halted
      /\ ld'.data = IF field = "data" THEN files[ld.slot].data ELSE ld.data
      /\ ld'.size = IF field = "size" THEN files[ld.slot].size ELSE ld.size
  <2>1. CASE field = "data"
    BY <1>0, <1>1, <2>1 DEF LoaderType, Loading
  <2>2. CASE field = "size"
    BY <1>0, <1>1, <2>2 DEF LoaderType, Loading
  <2> QED
    BY <2>1, <2>2
<1>3. PathInv'
  BY <1>0, <1>1, <1>2 DEF PathInv
<1>4. FaultInv'
  BY <1>0, <1>1, <1>2 DEF ReadInv, FaultInv
<1>5. CopyInv'
  <2>1. SUFFICES ASSUME ~raced PROVE CopyInv'
    BY <1>0 DEF CopyInv
  <2>2. /\ files[ld.slot].name = ld.name /\ ld.name \in Names /\ ~Written(ld.slot)
        /\ "data" \in ld.got => ld.data = files[ld.slot].data
        /\ "size" \in ld.got => ld.size = files[ld.slot].size
    BY <1>0, <2>1 DEF ReadInv, CopyInv
  <2>3. UNCHANGED <<files, heap, op>>
    BY DEF ramfsVars
  <2>4. /\ "data" \in ld'.got => ld'.data = files[ld.slot].data
        /\ "size" \in ld'.got => ld'.size = files[ld.slot].size
    BY <1>2, <2>2
  <2>5. pc = "write" => ld.op = "load" /\ 0 <= ld'.size
    <3>1. files[ld.slot].size \in Nat
      BY <1>0 DEF FsInv, FilesType, File
    <3> QED
      BY <1>1, <1>2, <2>4, <3>1
  <2> QED
    BY <1>0, <1>2, <2>2, <2>3, <2>4, <2>5, SameNone DEF CopyInv, Copied, Written
<1> QED
  BY <1>3, <1>4, <1>5 DEF ReadInv

\* The file that was found, while it is not touched.
LEMMA FoundFile ==
    ASSUME FsInv, WholeInv, LoaderType, CopyInv, ld.slot # 0, ~raced
    PROVE  /\ ld.slot \in Slots /\ files[ld.slot].name = ld.name /\ ld.name \in Names
           /\ files[ld.slot].data \in Blocks /\ files[ld.slot].size \in Nat
           /\ heap[files[ld.slot].data].len = files[ld.slot].size
           /\ heap[files[ld.slot].data].ver \in Served(ld.name)
           /\ ld.got = {"data", "size"} => \A i \in 1 .. ld.size : Unit(i) = heap[files[ld.slot].data].ver
<1>1. ld.slot \in Slots /\ files \in [Slots -> File]
  BY DEF LoaderType, Loading, FsInv, FilesType
<1>2. files[ld.slot].name = ld.name /\ ld.name \in Names /\ ~Written(ld.slot)
  BY DEF CopyInv
<1>3. /\ files[ld.slot].data \in Blocks /\ heap[files[ld.slot].data].len = files[ld.slot].size
      /\ heap[files[ld.slot].data].ver \in Served(ld.name)
  BY <1>1, <1>2 DEF WholeInv
<1>4. files[ld.slot].size \in Nat
  BY <1>1 DEF File
<1>5. ld.got = {"data", "size"} => ld.data = files[ld.slot].data /\ ld.size = files[ld.slot].size
  BY DEF CopyInv
<1> QED
  BY <1>1, <1>2, <1>3, <1>4, <1>5 DEF Unit

LEMMA WriteMemoryKeepsRead ==
    ASSUME FsInv, WholeInv, LoaderType, ReadInv, WriteMemory, UNCHANGED ramfsVars
    PROVE  ReadInv'
<1>0. /\ ld.pc = "write" /\ ld.op = "load" /\ ld.slot \in Slots /\ ld.slot # 0
      /\ ld.got = {"data", "size"} /\ ld.i \in Nat /\ ld.reply = "ok"
      /\ UNCHANGED <<fpga, raced>>
  BY DEF WriteMemory, ReadInv, PathInv, FaultInv, LoaderType, Loading, Slots
<1>1. CASE Fail
  BY <1>0, <1>1, FailKeepsRead DEF ReadInv
<1>2. CASE /\ ld.i < ld.size
           /\ ld' = [ld EXCEPT !.i = @ + 1, !.image = Append(@, Unit(ld.i + 1))]
           /\ UNCHANGED fault
  <2>1. /\ ld'.pc = "write" /\ ld'.op = "load" /\ ld'.slot = ld.slot /\ ld'.got = ld.got
        /\ ld'.i = ld.i + 1 /\ ld'.image = Append(ld.image, Unit(ld.i + 1)) /\ ld'.name = ld.name
        /\ ld'.reply = "ok" /\ ld'.halted = ld.halted /\ ld'.data = ld.data /\ ld'.size = ld.size
    BY <1>0, <1>2 DEF LoaderType, Loading
  <2>2. PathInv'
    BY <1>0, <2>1 DEF PathInv
  <2>3. FaultInv'
    BY <1>0, <1>2, <2>1 DEF ReadInv, FaultInv
  <2>4. CopyInv'
    <3>1. SUFFICES ASSUME ~raced PROVE CopyInv'
      BY <1>0 DEF CopyInv
    <3>2. ld.size \in Nat /\ ld.i + 1 \in 1 .. ld.size
      BY <1>0, <1>2 DEF LoaderType, Loading
    <3>3. PICK v : v = heap[files[ld.slot].data].ver
      OBVIOUS
    <3>4. Unit(ld.i + 1) = v
      BY <1>0, <3>1, <3>2, <3>3, FoundFile DEF ReadInv
    <3>5. ld.image = Same(v, ld.i)
      BY <1>0, <3>1, <3>3 DEF ReadInv, CopyInv, Copied
    <3>6. ld'.image = Same(v, ld.i + 1)
      <4>1. Append(Same(v, ld.i), v) = Same(v, ld.i + 1)
        BY <1>0, SameLonger
      <4> QED
        BY <2>1, <3>4, <3>5, <4>1
    <3> QED
      BY <1>0, <2>1, <3>1, <3>2, <3>3, <3>6 DEF ReadInv, CopyInv, Copied, Written, ramfsVars
  <2> QED
    BY <2>2, <2>3, <2>4 DEF ReadInv
<1>3. CASE ld.i = ld.size /\ GoOn("finish") /\ UNCHANGED fault
  <2>1. /\ ld'.pc = "finish" /\ ld'.op = "load" /\ ld'.slot = ld.slot /\ ld'.got = ld.got
        /\ ld'.i = ld.i /\ ld'.image = ld.image /\ ld'.name = ld.name
        /\ ld'.reply = "ok" /\ ld'.halted = ld.halted /\ ld'.data = ld.data /\ ld'.size = ld.size
    BY <1>0, <1>3 DEF LoaderType, Loading, GoOn
  <2>2. PathInv'
    BY <1>0, <2>1 DEF PathInv
  <2>3. FaultInv'
    BY <1>0, <1>3, <2>1 DEF ReadInv, FaultInv
  <2>4. CopyInv'
    BY <1>0, <1>3, <2>1 DEF ReadInv, CopyInv, Copied, Written, ramfsVars
  <2> QED
    BY <2>2, <2>3, <2>4 DEF ReadInv
<1> QED
  BY <1>1, <1>2, <1>3 DEF WriteMemory

LEMMA FinishKeepsRead ==
    ASSUME LoaderType, ReadInv, Finish, UNCHANGED ramfsVars
    PROVE  ReadInv'
<1>0. /\ ld.pc = "finish" /\ ld.op = "load" /\ ld.slot \in Slots /\ ld.reply = "ok"
      /\ ld.got = {"data", "size"} /\ UNCHANGED <<fpga, raced>> /\ fault \in BOOLEAN
  BY DEF Finish, ReadInv, PathInv, FaultInv, LoaderType
<1>1. PICK ready \in BOOLEAN :
        ld' = [ld EXCEPT !.pc = "reply", !.ready = ready] /\ fault' = (fault \/ ~ready)
  BY DEF Finish
<1>2. /\ ld'.pc = "reply" /\ ld'.op = "load" /\ ld'.slot = ld.slot /\ ld'.got = ld.got
      /\ ld'.i = ld.i /\ ld'.image = ld.image /\ ld'.name = ld.name /\ ld'.ready = ready
      /\ ld'.reply = "ok" /\ ld'.halted = ld.halted /\ ld'.data = ld.data /\ ld'.size = ld.size
  BY <1>0, <1>1 DEF LoaderType, Loading
<1>3. ~fault' => ~fault /\ ready
  BY <1>1
<1>4. PathInv'
  BY <1>0, <1>2 DEF PathInv
<1>5. FaultInv'
  BY <1>0, <1>2, <1>3 DEF ReadInv, FaultInv
<1>6. CopyInv'
  BY <1>0, <1>2, <1>3 DEF ReadInv, CopyInv, Copied, Written, ramfsVars
<1> QED
  BY <1>4, <1>5, <1>6 DEF ReadInv

LEMMA OpenStreamKeepsRead ==
    ASSUME LoaderType, ReadInv, OpenStream, UNCHANGED ramfsVars
    PROVE  ReadInv'
<1>0. /\ ld.pc = "open" /\ ld.op = "stream" /\ ld.slot = 0 /\ ld.i = 0 /\ ld.image = <<>> /\ ~fault
      /\ ld.reply # "error" /\ UNCHANGED <<fpga, raced>>
  BY DEF OpenStream, ReadInv, PathInv, FaultInv
<1>1. CASE Fail
  BY <1>0, <1>1, FailKeepsRead DEF ReadInv
<1>2. CASE GoOn("enable") /\ UNCHANGED fault
  <2>1. /\ ld'.pc = "enable" /\ ld'.op = "stream" /\ ld'.slot = 0 /\ ld'.i = 0 /\ ld'.image = <<>>
        /\ ld'.reply # "error"
    BY <1>0, <1>2 DEF LoaderType, Loading, GoOn
  <2> QED
    BY <1>0, <1>2, <2>1 DEF ReadInv, PathInv, FaultInv, CopyInv
<1> QED
  BY <1>1, <1>2 DEF OpenStream

\* What stays of a command when only its place and reply change.
LEMMA GoOnKeeps ==
    ASSUME LoaderType, NEW pc, GoOn(pc)
    PROVE  /\ ld'.pc = pc /\ ld'.op = ld.op /\ ld'.slot = ld.slot /\ ld'.got = ld.got
           /\ ld'.i = ld.i /\ ld'.image = ld.image /\ ld'.name = ld.name /\ ld'.ver = ld.ver
           /\ ld'.reply = ld.reply /\ ld'.halted = ld.halted /\ ld'.data = ld.data /\ ld'.size = ld.size
BY DEF LoaderType, Loading, GoOn

LEMMA EnableKeepsRead ==
    ASSUME LoaderType, ReadInv, Enable, UNCHANGED ramfsVars
    PROVE  ReadInv'
<1>0. /\ ld.pc = "enable" /\ ld.op \in {"program", "stream"} /\ fpga' = [fpga EXCEPT !.isc = TRUE]
      /\ fpga'.isc /\ UNCHANGED raced /\ (fault <=> ld.reply = "error")
  BY DEF Enable, IscEnable, ReadInv, PathInv, FaultInv, LoaderType
<1>1. CASE Fail
  BY <1>0, <1>1, FailKeepsRead DEF ReadInv
<1>2. CASE GoOn("erase") /\ UNCHANGED fault
  <2>1. PathInv'
    BY <1>0, <1>2, GoOnKeeps DEF ReadInv, PathInv
  <2>2. FaultInv'
    BY <1>0, <1>2, GoOnKeeps DEF ReadInv, FaultInv
  <2>3. CopyInv'
    BY <1>0, <1>2, GoOnKeeps DEF ReadInv, CopyInv, Written, ramfsVars
  <2> QED
    BY <2>1, <2>2, <2>3 DEF ReadInv
<1> QED
  BY <1>1, <1>2 DEF Enable, Wait

LEMMA EraseKeepsRead ==
    ASSUME FsInv, WholeInv, LoaderType, ReadInv, Erase, UNCHANGED ramfsVars
    PROVE  ReadInv'
<1>0. /\ ld.pc = "erase" /\ ld.op \in {"program", "stream"} /\ fpga.isc /\ ld.i = 0
      /\ UNCHANGED raced /\ (fault <=> ld.reply = "error")
  BY DEF Erase, ReadInv, PathInv, FaultInv
<1>1. fpga'.isc /\ fpga'.loaded = <<>>
  BY <1>0 DEF Erase, IscErase, LoaderType
<1>2. CASE Fail
  BY <1>0, <1>2, FailKeepsRead DEF ReadInv
<1>3. CASE GoOn("data") /\ UNCHANGED fault
  <2>1. PathInv'
    BY <1>0, <1>3, GoOnKeeps DEF ReadInv, PathInv
  <2>2. FaultInv'
    BY <1>0, <1>1, <1>3, GoOnKeeps, SameNone DEF FaultInv
  <2>3. CopyInv'
    <3>1. SUFFICES ASSUME ~raced, ld.slot # 0 PROVE CopyInv'
      BY <1>0, <1>3, GoOnKeeps DEF CopyInv
    <3>2. ld.got = {"data", "size"}
      BY <1>0, <3>1 DEF ReadInv, PathInv
    <3>3. 0 <= ld.size
      BY DEF LoaderType, Loading
    <3> QED
      BY <1>0, <1>1, <1>3, <3>1, <3>2, <3>3, GoOnKeeps, SameNone
         DEF ReadInv, CopyInv, Copied, Written, ramfsVars
  <2> QED
    BY <2>1, <2>2, <2>3 DEF ReadInv
<1> QED
  BY <1>2, <1>3 DEF Erase, Wait

LEMMA ProgramKeepsRead ==
    ASSUME FsInv, WholeInv, LoaderType, ReadInv, Program, UNCHANGED ramfsVars
    PROVE  ReadInv'
<1>0. /\ ld.pc = "data" /\ ld.op = "program" /\ fpga.isc /\ ld.slot \in Slots /\ ld.slot # 0
      /\ ld.got = {"data", "size"} /\ ld.i \in Nat /\ ld.size \in Nat
      /\ UNCHANGED <<raced, fault>> /\ (fault <=> ld.reply = "error")
  BY DEF Program, ReadInv, PathInv, FaultInv, LoaderType, Loading, Slots
<1>1. CASE ld.i < ld.size /\ ProgramData(Unit(ld.i + 1)) /\ ld' = [ld EXCEPT !.i = @ + 1]
  <2>1. /\ ld'.pc = "data" /\ ld'.op = "program" /\ ld'.slot = ld.slot /\ ld'.got = ld.got
        /\ ld'.i = ld.i + 1 /\ ld'.name = ld.name /\ ld'.reply = ld.reply
        /\ ld'.data = ld.data /\ ld'.size = ld.size
    BY <1>0, <1>1 DEF LoaderType, Loading
  <2>2. fpga'.isc /\ fpga'.loaded = Append(fpga.loaded, Unit(ld.i + 1))
    BY <1>0, <1>1 DEF ProgramData, LoaderType
  <2>3. PathInv'
    BY <1>0, <2>1 DEF PathInv
  <2>4. FaultInv'
    BY <1>0, <2>1, <2>2 DEF FaultInv
  <2>5. CopyInv'
    <3>1. SUFFICES ASSUME ~raced PROVE CopyInv'
      BY <1>0 DEF CopyInv
    <3>2. ld.i + 1 \in 1 .. ld.size
      BY <1>0, <1>1
    <3>3. PICK v : v = heap[files[ld.slot].data].ver
      OBVIOUS
    <3>4. Unit(ld.i + 1) = v
      BY <1>0, <3>1, <3>2, <3>3, FoundFile DEF ReadInv
    <3>5. fpga.loaded = Same(v, ld.i)
      BY <1>0, <3>1, <3>3 DEF ReadInv, CopyInv, Copied
    <3>6. Append(Same(v, ld.i), v) = Same(v, ld.i + 1)
      BY <1>0, SameLonger
    <3>7. fpga'.loaded = Same(v, ld.i + 1)
      BY <2>2, <3>4, <3>5, <3>6
    <3> QED
      BY <1>0, <2>1, <3>1, <3>2, <3>3, <3>7 DEF ReadInv, CopyInv, Copied, Written, ramfsVars
  <2> QED
    BY <2>3, <2>4, <2>5 DEF ReadInv
<1>2. CASE ld.i = ld.size /\ GoOn("end") /\ UNCHANGED fpga
  <2>1. PathInv'
    BY <1>0, <1>2, GoOnKeeps DEF PathInv
  <2>2. FaultInv'
    BY <1>0, <1>2, GoOnKeeps DEF FaultInv
  <2>3. CopyInv'
    BY <1>0, <1>2, GoOnKeeps DEF ReadInv, CopyInv, Copied, Written, ramfsVars
  <2> QED
    BY <2>1, <2>2, <2>3 DEF ReadInv
<1> QED
  BY <1>1, <1>2 DEF Program

\* A stream has no slot.
LEMMA StreamKeepsRead ==
    ASSUME LoaderType, ReadInv, Stream
    PROVE  ReadInv'
<1>0. /\ ld.pc = "data" /\ ld.op = "stream" /\ fpga.isc /\ ld.slot = 0 /\ ld.i \in Nat
      /\ (fault <=> ld.reply = "error") /\ fpga.loaded = Same(ld.ver, ld.i)
  BY DEF Stream, ReadInv, PathInv, FaultInv, LoaderType, Loading
<1>1. CASE ProgramData(ld.ver) /\ ld' = [ld EXCEPT !.i = @ + 1] /\ UNCHANGED fault
  <2>1. /\ ld'.pc = "data" /\ ld'.op = "stream" /\ ld'.slot = 0 /\ ld'.i = ld.i + 1
        /\ ld'.reply = ld.reply /\ ld'.ver = ld.ver
    BY <1>0, <1>1 DEF LoaderType, Loading
  <2>2. fpga'.isc /\ fpga'.loaded = Append(fpga.loaded, ld.ver)
    BY <1>0, <1>1 DEF ProgramData, LoaderType
  <2>3. fpga'.loaded = Same(ld.ver, ld.i + 1)
    <3>1. Append(Same(ld.ver, ld.i), ld.ver) = Same(ld.ver, ld.i + 1)
      BY <1>0, SameLonger
    <3> QED
      BY <1>0, <2>2, <3>1
  <2> QED
    BY <1>0, <1>1, <2>1, <2>2, <2>3 DEF ReadInv, PathInv, FaultInv, CopyInv
<1>2. CASE GoOn("end") /\ UNCHANGED <<fpga, fault>>
  BY <1>0, <1>2, GoOnKeeps DEF ReadInv, PathInv, FaultInv, CopyInv
<1>3. CASE ld' = [ld EXCEPT !.pc = StreamError, !.reply = "error"] /\ fault' = TRUE /\ UNCHANGED fpga
  <2>1. /\ ld'.pc = "end" /\ ld'.op = "stream" /\ ld'.slot = 0 /\ ld'.i = ld.i
        /\ ld'.reply = "error" /\ ld'.ver = ld.ver
    BY <1>0, <1>3 DEF LoaderType, Loading, StreamError
  <2> QED
    BY <1>0, <1>3, <2>1 DEF ReadInv, PathInv, FaultInv, CopyInv
<1> QED
  BY <1>1, <1>2, <1>3 DEF Stream

LEMMA EndProgramKeepsRead ==
    ASSUME LoaderType, ReadInv, EndProgram, UNCHANGED ramfsVars
    PROVE  ReadInv'
<1>0. /\ ld.pc = "end" /\ ld.op \in {"program", "stream"} /\ UNCHANGED raced
      /\ (fault <=> ld.reply = "error")
  BY DEF EndProgram, ReadInv, PathInv, FaultInv
<1>1. CASE Fail
  BY <1>0, <1>1, FailKeepsRead DEF ReadInv
<1>2. CASE IscDisable /\ GoOn("status") /\ UNCHANGED fault
  <2>1. ~fpga'.isc /\ fpga'.loaded = fpga.loaded
    BY <1>2 DEF IscDisable, LoaderType
  <2>2. PathInv'
    BY <1>0, <1>2, GoOnKeeps DEF ReadInv, PathInv
  <2>3. FaultInv'
    BY <1>0, <1>2, <2>1, GoOnKeeps DEF ReadInv, FaultInv
  <2>4. CopyInv'
    BY <1>0, <1>2, <2>1, GoOnKeeps DEF ReadInv, CopyInv, Copied, Written, ramfsVars
  <2> QED
    BY <2>2, <2>3, <2>4 DEF ReadInv
<1> QED
  BY <1>1, <1>2 DEF EndProgram, Wait

LEMMA CheckStatusKeepsRead ==
    ASSUME LoaderType, ReadInv, CheckStatus, UNCHANGED ramfsVars
    PROVE  ReadInv'
<1>0. /\ ld.pc = "status" /\ ld.op \in {"program", "stream"} /\ ~fpga.isc
      /\ UNCHANGED <<fpga, raced, fault>> /\ (fault <=> ld.reply = "error")
      /\ ld.reply \in {"ok", "error"}
  BY DEF CheckStatus, ReadInv, PathInv, FaultInv, LoaderType, Loading
<1>1. /\ ld'.pc = "reply" /\ ld'.op = ld.op /\ ld'.slot = ld.slot /\ ld'.got = ld.got
      /\ ld'.i = ld.i /\ ld'.name = ld.name /\ ld'.ver = ld.ver
      /\ ld'.data = ld.data /\ ld'.size = ld.size
      /\ ld'.reply = IF FpgaDone THEN ld.reply ELSE "error"
  BY <1>0 DEF CheckStatus, LoaderType, Loading
<1>2. PathInv'
  BY <1>0, <1>1 DEF ReadInv, PathInv
<1>3. FaultInv'
  BY <1>0, <1>1 DEF ReadInv, FaultInv, FpgaDone
<1>4. CopyInv'
  <2>1. SUFFICES ASSUME ~raced, ld.slot # 0 PROVE CopyInv'
    BY <1>0, <1>1 DEF CopyInv
  <2>2. ld.got = {"data", "size"}
    BY <1>0, <2>1 DEF ReadInv, PathInv
  <2> QED
    BY <1>0, <1>1, <2>1, <2>2 DEF ReadInv, CopyInv, Copied, Written, ramfsVars
<1> QED
  BY <1>2, <1>3, <1>4 DEF ReadInv

LEMMA ReplyKeepsRead ==
    ASSUME Reply
    PROVE  ReadInv'
<1>1. /\ Stopped.pc = "idle" /\ Stopped.op = "none" /\ Stopped.slot = 0
  BY DEF Stopped
<1>2. ld' = Stopped /\ ~fault'
  BY DEF Reply
<1>3. ld'.pc = "idle" /\ ld'.op = "none" /\ ld'.slot = 0
  BY <1>1, <1>2
<1> QED
  BY <1>2, <1>3 DEF ReadInv, PathInv, FaultInv, CopyInv

LEMMA LoaderStepKeepsRead ==
    ASSUME FsInv, WholeInv, LoaderType, ReadInv, LoaderStep
    PROVE  ReadInv'
<1>1. UNCHANGED ramfsVars
  BY DEF LoaderStep
<1> QED
  BY <1>1, FindKeepsRead, HaltKeepsRead, TakeKeepsRead, WriteMemoryKeepsRead, FinishKeepsRead,
     OpenStreamKeepsRead, EnableKeepsRead, EraseKeepsRead, ProgramKeepsRead, StreamKeepsRead,
     EndProgramKeepsRead, CheckStatusKeepsRead, ReplyKeepsRead
     DEF LoaderStep

\* The whole invariant.
RInv == IInv /\ VersionInv /\ WholeInv /\ ReadInv

LEMMA ReadInvariance == Spec => []RInv
<1>1. Init => VersionInv /\ WholeInv /\ ReadInv
  <2> SUFFICES ASSUME Init PROVE VersionInv /\ WholeInv /\ ReadInv
    OBVIOUS
  <2>1. fm = Idle /\ ld = Stopped /\ fault = FALSE /\ \A s \in Slots : files[s].name = NoName
    BY DEF Init, FmInit, RamFsInit
  <2>2. fm.pc = "idle"
    BY <2>1, IdleType
  <2>3. ld.pc = "idle" /\ ld.op = "none" /\ ld.slot = 0
    BY <2>1 DEF Stopped
  <2> QED
    BY <2>1, <2>2, <2>3 DEF VersionInv, WholeInv, ReadInv, PathInv, FaultInv, CopyInv
<1>2. IInv /\ VersionInv /\ WholeInv /\ ReadInv /\ [Next]_vars => VersionInv' /\ WholeInv' /\ ReadInv'
  <2> SUFFICES ASSUME IInv, VersionInv, WholeInv, ReadInv, [Next]_vars
               PROVE  VersionInv' /\ WholeInv' /\ ReadInv'
    OBVIOUS
  <2>0. FsInv /\ LoaderType
    BY DEF IInv, LoaderInv
  <2>1. CASE FileTaskStep
    BY <2>0, <2>1, VersionKeeps, WholeKeeps, FileTaskKeepsRead DEF FileTaskStep
  <2>2. ASSUME UNCHANGED <<ramfsVars, fm>>
        PROVE  VersionInv' /\ WholeInv'
    BY <2>2 DEF ramfsVars, VersionInv, WholeInv, Written
  <2>3. CASE Arrive /\ UNCHANGED loaderVars
    BY <2>0, <2>2, <2>3, OthersKeepRead DEF Arrive
  <2>4. CASE StartMonitor
    BY <2>0, <2>2, <2>4, StartMonitorKeepsRead DEF StartMonitor
  <2>5. CASE LoaderStep
    BY <2>0, <2>2, <2>5, LoaderStepKeepsRead DEF LoaderStep, fmVars
  <2>6. CASE UNCHANGED vars
    BY <2>0, <2>2, <2>6, OthersKeepRead DEF vars, fmVars
  <2> QED
    BY <2>1, <2>3, <2>4, <2>5, <2>6 DEF Next
<1>3. IInv /\ VersionInv /\ WholeInv /\ ReadInv => RInv
  BY DEF RInv
<1> QED
  <2>1. Spec => Init /\ [][Next]_vars
    BY DEF Spec
  <2> QED
    BY <1>1, <1>2, <1>3, <2>1, Invariance, PTL

\* The body of the file that was found, unit by unit.
LEMMA BodyIsSame ==
    ASSUME RInv, ld.slot # 0, ~raced
    PROVE  /\ Body(ld.slot) = Same(heap[files[ld.slot].data].ver, files[ld.slot].size)
           /\ files[ld.slot].size \in Nat
           /\ heap[files[ld.slot].data].ver \in Served(ld.name)
BY FoundFile DEF RInv, IInv, LoaderInv, ReadInv, Body, Same

\* riscv_load and fpga_program read a file without a lock.  What they have copied
\* is nevertheless the file, and a version that was served under its name, unless
\* its slot was written in the meantime: for every interleaving of the file
\* manager's steps, every allocator, and any number of files.
THEOREM UnracedCopyStaysTheFile == Spec => []UnracedCopyIsTheFile
<1>1. RInv => UnracedCopyIsTheFile
  <2> SUFFICES ASSUME RInv, ~raced, ld.slot # 0,
                      ld.pc \in {"write", "finish", "data", "end", "status"}
               PROVE  /\ Copied = SubSeq(Body(ld.slot), 1, ld.i)
                      /\ \A k \in 1 .. ld.i : Copied[k] \in Served(ld.name)
    BY DEF UnracedCopyIsTheFile, Copied
  <2>1. PICK v : v = heap[files[ld.slot].data].ver
    OBVIOUS
  <2>2. ld.op # "stream" /\ ld.got = {"data", "size"}
    BY DEF RInv, ReadInv, PathInv
  <2>3. ld.i <= ld.size /\ ld.size = files[ld.slot].size /\ Copied = Same(v, ld.i)
    BY <2>1, <2>2 DEF RInv, ReadInv, CopyInv
  <2>4. ld.i \in Nat
    BY DEF RInv, IInv, LoaderInv, LoaderType, Loading
  <2>5. Body(ld.slot) = Same(v, files[ld.slot].size) /\ files[ld.slot].size \in Nat /\ v \in Served(ld.name)
    BY <2>1, BodyIsSame
  <2>6. SubSeq(Same(v, files[ld.slot].size), 1, ld.i) = Same(v, ld.i)
    <3>1. PICK n \in Nat : n = files[ld.slot].size
      BY <2>5
    <3>2. ld.i \in 0 .. n
      BY <2>3, <2>4, <3>1
    <3>3. SubSeq(Same(v, n), 1, ld.i) = Same(v, ld.i)
      BY <3>2, SameBegins
    <3> QED
      BY <3>1, <3>3
  <2>7. \A k \in 1 .. ld.i : Same(v, ld.i)[k] = v
    BY DEF Same
  <2> QED
    BY <2>3, <2>5, <2>6, <2>7
<1> QED
  BY ReadInvariance, <1>1, PTL

\* Loaded and Programmed are true: the target is halted, ready and holds the file,
\* the FPGA shows a complete configuration, which is the file unless that was
\* written meanwhile.
THEOREM OkStaysTrue == Spec => []OkMeansDone
<1>1. RInv => OkMeansDone
  <2> SUFFICES ASSUME RInv, ld.pc = "reply", ld.reply = "ok"
               PROVE  /\ ld.op = "load" /\ ~fault =>
                           /\ ld.halted /\ ld.ready
                           /\ ~raced => ld.image = Body(ld.slot)
                      /\ ld.op \in {"program", "stream"} =>
                           /\ FpgaDone
                           /\ ld.op = "program" /\ ~raced => fpga.loaded = Body(ld.slot)
    BY DEF OkMeansDone
  <2>1. PathInv /\ FaultInv /\ CopyInv
    BY DEF RInv, ReadInv
  <2>2. ld.op \in {"load", "program"} /\ ~fault => ld.slot # 0
    BY <2>1 DEF PathInv, Slots
  <2>3. ld.op \in {"program", "stream"} => FpgaDone /\ ~fault
    BY <2>1 DEF FaultInv
  <2>4. ld.op \in {"load", "program"} /\ ~fault /\ ~raced => Copied = Body(ld.slot)
    BY <2>1, <2>2, BodyIsSame DEF CopyInv
  <2> QED
    BY <2>1, <2>3, <2>4 DEF FaultInv, Copied
<1> QED
  BY ReadInvariance, <1>1, PTL

\* An attempt in which nothing fails and nothing races fails only for a file that
\* is no configuration, whatever earlier attempts left in the FPGA.
THEOREM SoundAttemptsSucceed == Spec => []SoundAttemptSucceeds
<1>1. RInv => SoundAttemptSucceeds
  <2> SUFFICES ASSUME RInv, ld.pc = "reply", ld.reply = "error", ~fault, ~raced
               PROVE  CASE ld.op = "program" -> Body(ld.slot) \notin Bitstreams
                        [] ld.op = "stream"  -> [i \in 1 .. ld.i |-> ld.ver] \notin Bitstreams
                        [] OTHER -> FALSE
    BY DEF SoundAttemptSucceeds
  <2>1. PathInv /\ FaultInv /\ CopyInv /\ ld.op \in {"none", "load", "program", "stream"}
    BY DEF RInv, ReadInv, IInv, LoaderInv, LoaderType, Loading
  <2>2. ld.op \in {"program", "stream"} /\ fpga.loaded \notin Bitstreams
    BY <2>1 DEF PathInv, FaultInv
  <2>3. CASE ld.op = "program"
    <3>1. ld.slot # 0
      BY <2>1, <2>3 DEF PathInv, Slots
    <3>2. fpga.loaded = Body(ld.slot)
      BY <2>1, <2>3, <3>1, BodyIsSame DEF CopyInv, Copied
    <3> QED
      BY <2>2, <2>3, <3>2
  <2>4. CASE ld.op = "stream"
    BY <2>1, <2>2, <2>4 DEF FaultInv, Same
  <2> QED
    BY <2>2, <2>3, <2>4
<1> QED
  BY ReadInvariance, <1>1, PTL

---------------------------------------------------------------------------
(* The file topic: what is stored under a name, and what changes it.       *)

AtWork(n) == op.pc \in Critical /\ op.name = n

\* A name has one slot at most.
LEMMA OnlySlot ==
    ASSUME FsInv, NEW s \in Slots, files[s].name # NoName
    PROVE  SlotsOf(files[s].name) = {s} /\ First(SlotsOf(files[s].name)) = s
<1>1. SlotsOf(files[s].name) = {s}
  BY DEF FsInv, TableIsSound, SlotsOf
<1>2. \A t \in {s} : s <= t
  BY DEF Slots
<1> QED
  BY <1>1, <1>2 DEF First

\* Only the four writes to a slot happen while an operation has the mutex.
LEMMA CriticalSteps ==
    ASSUME FsInv, FileManagerStep, op.pc \in Critical
    PROVE  FileSystemStep /\ (FreeData \/ SetData \/ SetSize \/ ClearName)
<1>1. fm.pc = "wait" /\ op.pc \notin Results
  BY DEF FsInv, OpInv, InProgress, Critical, Results
<1>2. FileSystemStep
  BY <1>1 DEF FileManagerStep, TakeCommand, Connect, FailRead, ReadMore, ReadAndGrow, EndOfBody,
              StartDelete, Returned, Respond
<1>3. ~Allocate /\ ~Update /\ ~Create /\ ~NoRoom /\ ~Drop /\ ~FindToDelete
  BY Zenon, <1>1 DEF Allocate, Update, Create, NoRoom, Drop, FindToDelete, Critical
<1> QED
  BY <1>2, <1>3 DEF FileSystemStep, RamFsStep

\* The slots of a name that is not at work stay its slots, with the file in them.
LEMMA OtherNamesStayed ==
    ASSUME FsInv, FsInv', FileManagerStep, NEW n \in Names, ~AtWork(n), ~AtWork(n)',
           NEW s \in Slots
    PROVE  /\ files'[s].name = n <=> files[s].name = n
           /\ files[s].name = n => files'[s] = files[s] /\ heap'[files[s].data] = heap[files[s].data]
<1>1. CASE ~Touched(s) /\ files[s].name # NoName
  BY <1>1, FilesStayed
<1>2. CASE ~Touched(s) /\ files[s].name = NoName
  <2>1. Written(s)' => files'[s].name # n
    BY DEF FsInv, OpInv, Written, AtWork
  <2> QED
    BY <1>2, <2>1, EmptySlotStayed
<1>3. CASE Touched(s)
  <2>1. op.pc \in Critical /\ op.slot = s /\ files[s].name = op.name /\ op.name # n
    BY <1>3 DEF Touched, FsInv, OpInv, AtWork
  <2>2. files'[s].name \in {files[s].name, NoName}
    <3>1. files \in [Slots -> File]
      BY DEF FsInv, FilesType
    <3> QED
      <4>1. FreeData \/ SetData \/ SetSize \/ ClearName
        BY <2>1, CriticalSteps
      <4>2. files' = files \/ \E v : \/ files' = [files EXCEPT ![s].data = v]
                                   \/ files' = [files EXCEPT ![s].size = v]
                                   \/ files' = [files EXCEPT ![s].name = NoName]
        BY <2>1, <4>1 DEF FreeData, SetData, SetSize, ClearName
      <4> QED
        BY <3>1, <4>2 DEF File
  <2> QED
    BY <2>1, <2>2
<1> QED
  BY <1>1, <1>2, <1>3

LEMMA OthersStored ==
    ASSUME FsInv, FsInv', FileManagerStep, NEW n \in Names, ~AtWork(n), ~AtWork(n)'
    PROVE  Stored'[n] = Stored[n]
<1>1. SlotsOf(n)' = SlotsOf(n)
  BY OtherNamesStayed DEF SlotsOf
<1>2. CASE SlotsOf(n) = {}
  <2>1. BlockOf(n) = Null /\ BlockOf(n)' = Null
    BY <1>1, <1>2 DEF BlockOf, AtWork
  <2> QED
    BY <2>1 DEF Stored
<1>3. CASE SlotsOf(n) # {}
  <2> DEFINE s == First(SlotsOf(n))
  <2>1. s \in SlotsOf(n)
    BY <1>3, FirstIsThere DEF SlotsOf
  <2>2. s \in Slots /\ files[s].name = n
    BY <2>1 DEF SlotsOf
  <2>3. First(SlotsOf(n))' = s
    BY <1>1 DEF First
  <2>4. BlockOf(n) = files[s].data /\ BlockOf(n)' = files'[s].data
    BY <1>1, <1>3, <2>3 DEF BlockOf, AtWork
  <2> HIDE DEF s
  <2>5. files'[s] = files[s] /\ heap'[files[s].data] = heap[files[s].data]
    BY <2>2, OtherNamesStayed
  <2> QED
    BY <2>4, <2>5 DEF Stored
<1> QED
  BY <1>2, <1>3

\* The writes to a slot do not change what its name stands for.
LEMMA WorkedOnStored ==
    ASSUME FsInv, FsInv', FileManagerStep, NEW n \in Names, AtWork(n)
    PROVE  Stored'[n] = Stored[n]
<1> USE DEF AtWork
<1>0. /\ op.pc \in Critical /\ op.name = n /\ op.slot \in Slots /\ files[op.slot].name = n
      /\ op.data \in Blocks \cup {Null} /\ op \in Operation /\ files \in [Slots -> File]
  BY DEF FsInv, FilesType, Operation, OpInv
<1>1. BlockOf(n) = op.data
  BY <1>0 DEF BlockOf
<1>2. FreeData \/ SetData \/ SetSize \/ ClearName
  BY <1>0, CriticalSteps
<1>3. CASE FreeData
  <2>1. op'.pc \in Critical /\ op'.name = n /\ op'.data = op.data
    BY <1>0, <1>3 DEF FreeData, Operation, Critical
  <2>2. files[op.slot].data \in Blocks /\ op.data # files[op.slot].data
    BY <1>0, <1>3 DEF FreeData, FsInv, OpInv, OwnerInv, SlotOwns, CopyOwns
  <2>3. op.data \in Blocks => heap'[op.data] = heap[op.data]
    BY <1>3, <2>2 DEF FreeData, Free
  <2>4. BlockOf(n)' = op.data
    BY <2>1 DEF BlockOf
  <2> QED
    BY <1>0, <1>1, <2>3, <2>4 DEF Stored
<1>4. CASE SetData \/ (SetSize /\ op.data = Null)
  <2>1. op'.pc \in Critical /\ op'.name = n /\ op'.data = op.data /\ heap' = heap
    BY <1>0, <1>4 DEF SetData, SetSize, Operation, Critical
  <2>2. BlockOf(n)' = op.data
    BY <2>1 DEF BlockOf
  <2> QED
    BY <1>0, <1>1, <2>1, <2>2 DEF Stored
<1>5. CASE SetSize /\ op.data # Null
  <2>1. op'.pc = "ok" /\ heap' = heap /\ files'[op.slot].name = n /\ files'[op.slot].data = op.data
    BY <1>0, <1>5 DEF SetSize, Return, NoOperation, File, FsInv, OpInv
  <2>2. SlotsOf(n)' = {op.slot} /\ First(SlotsOf(n))' = op.slot
    <3>1. n # NoName
      OBVIOUS
    <3>2. (SlotsOf(files[op.slot].name) = {op.slot} /\ First(SlotsOf(files[op.slot].name)) = op.slot)
      BY <1>0, <3>1, OnlySlot
    <3>3. \A t \in Slots : files'[t].name = files[t].name
      BY <1>0, <1>5 DEF SetSize, File
    <3>4. SlotsOf(n)' = SlotsOf(n)
      BY <3>3 DEF SlotsOf
    <3> QED
      BY <1>0, <3>2, <3>4 DEF First
  <2>3. BlockOf(n)' = op.data
    BY <2>1, <2>2 DEF BlockOf, Critical
  <2> QED
    BY <1>1, <2>1, <2>3 DEF Stored
<1>6. CASE ClearName
  <2>1. op.data = Null /\ op'.pc = "ok" /\ files' = [files EXCEPT ![op.slot].name = NoName]
    BY <1>6 DEF ClearName, Return, NoOperation, FsInv, OpInv
  <2>2. SlotsOf(n)' = {}
    <3>1. SlotsOf(n) = {op.slot}
      BY <1>0, OnlySlot
    <3>2. /\ files'[op.slot].name = NoName
          /\ \A t \in Slots \ {op.slot} : files'[t] = files[t]
      BY <1>0, <2>1 DEF File
    <3> QED
      BY <3>1, <3>2 DEF SlotsOf
  <2>3. BlockOf(n)' = Null
    BY <2>1, <2>2 DEF BlockOf, Critical
  <2> QED
    BY <1>1, <2>1, <2>3 DEF Stored
<1> QED
  BY <1>2, <1>3, <1>4, <1>5, <1>6

\* Nothing but the start of a write changes what is stored.
LEMMA StoredStays ==
    ASSUME FsInv, FileManagerStep, op'.pc \in Critical => op.pc \in Critical
    PROVE  Stored' = Stored
<1>1. FsInv'
  BY FileManagerKeeps
<1>2. ASSUME NEW n \in Names PROVE Stored'[n] = Stored[n]
  <2>1. CASE AtWork(n)
    BY <1>1, <2>1, WorkedOnStored
  <2>2. CASE ~AtWork(n)
    <3>1. ~AtWork(n)'
      <4>1. SUFFICES ASSUME op.pc \in Critical, op'.pc \in Critical PROVE op'.name = op.name
        BY <2>2 DEF AtWork
      <4>2. op \in Operation
        BY DEF FsInv, FilesType
      <4>3. ASSUME NEW r \in Results PROVE ~Return(r)
        BY <4>1, <4>3 DEF Return, NoOperation, Critical, Results
      <4> QED
        BY <4>1, <4>2, <4>3, CriticalSteps
        DEF FreeData, SetData, SetSize, ClearName, Operation, Results
    <3> QED
      BY <1>1, <2>2, <3>1, OthersStored
  <2> QED
    BY <2>1, <2>2
<1>3. Stored = [n \in Names |-> Stored[n]] /\ Stored' = [n \in Names |-> Stored'[n]]
  BY DEF Stored
<1> QED
  BY <1>2, <1>3, Zenon

\* A call of ramfs_store or ramfs_delete begins with no block of its own.
LEMMA Begins ==
    ASSUME op \in Operation, EndOfBody \/ StartDelete
    PROVE  op'.pc \in {"copy", "delete"} /\ op'.data = op.data
<1>1. CASE EndOfBody
  <2>1. op' = [op EXCEPT !.pc = "copy", !.name = fm.name, !.src = fm.buf, !.size = fm.total]
    BY <1>1, Zenon DEF EndOfBody, Store
  <2> QED
    BY <2>1 DEF Operation
<1>2. CASE StartDelete
  <2>1. op' = [op EXCEPT !.pc = "delete", !.name = fm.name]
    BY <1>2, Zenon DEF StartDelete, Delete
  <2> QED
    BY <2>1 DEF Operation
<1> QED
  BY <1>1, <1>2

\* malloc(0) gives nothing: what is stored is not empty.
SizeInv == op.data \in Blocks => op.size > 0

LEMMA SizeKeeps ==
    ASSUME FsInv, SizeInv, FileManagerStep
    PROVE  SizeInv'
<1>1. op \in Operation
  BY DEF FsInv, FilesType
<1>2. ASSUME NEW r \in Results, Return(r) PROVE op'.data = Null
  BY <1>2 DEF Return, NoOperation
<1>3. CASE EndOfBody \/ StartDelete
  <2>1. op.data = Null
    BY <1>3, AtRest DEF EndOfBody, StartDelete
  <2>2. op'.data = Null
    BY <1>1, <1>3, <2>1, Begins
  <2> QED
    BY <2>2 DEF SizeInv
<1>4. CASE FileSystemStep
  <2>1. CASE Allocate
    <3>1. ASSUME NEW b, op.size > 0, op' = [op EXCEPT !.pc = "store", !.data = b] PROVE op'.size > 0
      BY <1>1, <3>1 DEF Operation
    <3> QED
      BY <1>2, <2>1, <3>1 DEF Allocate, Results, SizeInv
  <2>2. CASE Update \/ Create \/ NoRoom \/ FreeData \/ SetData
    <3>1. \E pc, slot : op' = [op EXCEPT !.pc = pc, !.slot = slot] \/ op' = [op EXCEPT !.pc = pc]
      BY <2>2 DEF Update, Create, NoRoom, FreeData, SetData
    <3>2. op'.data = op.data /\ op'.size = op.size
      BY <1>1, <3>1 DEF Operation
    <3> QED
      BY <3>2 DEF SizeInv
  <2>3. CASE FindToDelete \/ SetSize
    <3>1. \/ \E pc, slot : op' = [op EXCEPT !.pc = pc, !.slot = slot] \/ op' = [op EXCEPT !.pc = pc]
          \/ \E r \in Results : Return(r)
      BY <2>3 DEF FindToDelete, SetSize, Results
    <3>2. (op'.data = op.data /\ op'.size = op.size) \/ op'.data = Null
      BY <1>1, <1>2, <3>1 DEF Operation
    <3> QED
      BY <3>2 DEF SizeInv
  <2>4. CASE Drop \/ ClearName
    BY <1>2, <2>4 DEF Drop, ClearName, Results, SizeInv
  <2> QED
    BY <1>4, <2>1, <2>2, <2>3, <2>4 DEF FileSystemStep, RamFsStep
<1>5. CASE TakeCommand \/ Connect \/ FailRead \/ Returned \/ Respond
           \/ \E n \in 1 .. MaxSize : ReadMore(n) \/ ReadAndGrow(n)
  <2>1. op' = op
    BY <1>5 DEF TakeCommand, Connect, FailRead, Returned, Respond, ReadMore, ReadAndGrow, ramfsVars
  <2> QED
    BY <2>1 DEF SizeInv
<1> QED
  BY <1>3, <1>4, <1>5 DEF FileManagerStep

\* An operation takes effect when it has the mutex and its slot: the file of its
\* name becomes the whole download, or a file that was there is gone.
LEMMA TakesEffect ==
    ASSUME FsInv, VersionInv, SizeInv, FileManagerStep, op.pc \notin Critical, op'.pc \in Critical
    PROVE  Topic!Change
<1> DEFINE new == IF op.data = Null THEN Freed ELSE heap[op.data]
<1>0. PICK n \in Names : n = fm.name
  BY DEF FsInv, FilesType, FileTask
<1>1. FileSystemStep /\ (Update \/ Create \/ FindToDelete)
  <2>1. op \in Operation
    BY DEF FsInv, FilesType
  <2>2. ASSUME NEW r \in Results PROVE ~Return(r)
    BY <2>2 DEF Return, NoOperation, Critical, Results
  <2>3. FileSystemStep
    <3>1. ~(EndOfBody \/ StartDelete)
      BY <2>1, Begins DEF Critical
    <3>2. CASE TakeCommand \/ Connect \/ FailRead \/ Returned \/ Respond
               \/ \E k \in 1 .. MaxSize : ReadMore(k) \/ ReadAndGrow(k)
      <4>1. op' = op
        BY <3>2 DEF TakeCommand, Connect, FailRead, Returned, Respond, ReadMore, ReadAndGrow, ramfsVars
      <4> QED
        BY <4>1
    <3> QED
      BY <3>1, <3>2 DEF FileManagerStep
  <2>4. ~FreeData /\ ~SetData /\ ~SetSize /\ ~ClearName /\ ~Drop
    BY <2>2 DEF FreeData, SetData, SetSize, ClearName, Drop, Critical, Results
  <2>5. ~Allocate
    <3>1. \A b : [op EXCEPT !.pc = "store", !.data = b].pc = "store"
      BY <2>1 DEF Operation
    <3> QED
      BY <2>2, <3>1 DEF Allocate, Critical, Results
  <2>6. ~NoRoom
    BY <2>1 DEF NoRoom, Operation, Critical
  <2> QED
    BY <2>3, <2>4, <2>5, <2>6 DEF FileSystemStep, RamFsStep
<1>2. /\ op.pc \in {"store", "delete"} /\ fm.pc = "wait" /\ op.name = n /\ fm' = fm
      /\ heap' = heap /\ op.data \in Blocks \cup {Null} /\ op \in Operation
  BY <1>0, <1>1 DEF FileSystemStep, Update, Create, FindToDelete, FsInv, FilesType, OpInv, InProgress,
              FileTask, Operation, Critical, Results
<1>3. Stage = "taken" /\ Stage' = "done"
  BY <1>2 DEF Stage, Critical
<1>4. FsInv'
  BY FileManagerKeeps
<1>5. op'.name = n /\ op'.data = op.data
  <2>1. ~Return("not_found")
    BY DEF Return, NoOperation, Critical
  <2>2. \E pc, slot : op' = [op EXCEPT !.pc = pc, !.slot = slot]
    BY <1>1, <2>1 DEF Update, Create, FindToDelete
  <2>3. op'.name = op.name /\ op'.data = op.data
    BY <1>2, <2>2 DEF Operation
  <2> QED
    BY <1>2, <2>3
<1>6. Stored'[n] = new
  <2>1. BlockOf(n)' = op.data
    BY <1>5 DEF BlockOf
  <2> QED
    BY <1>2, <2>1 DEF Stored
<1>7. ASSUME NEW m \in Names \ {n} PROVE Stored'[m] = Stored[m]
  <2>1. ~AtWork(m) /\ ~AtWork(m)'
    BY <1>5 DEF AtWork
  <2> QED
    BY <1>4, <2>1, OthersStored
<1>8. Stored' = [Stored EXCEPT ![n] = new]
  <2>1. Stored = [m \in Names |-> Stored[m]] /\ Stored' = [m \in Names |-> Stored'[m]]
    BY DEF Stored
  <2> HIDE DEF new
  <2>2. ASSUME NEW m \in Names PROVE Stored'[m] = [Stored EXCEPT ![n] = new][m]
    <3>1. CASE m = n
      BY <1>2, <1>6, <2>1, <3>1
    <3>2. CASE m # n
      BY <1>7, <2>1, <3>2
    <3> QED
      BY <3>1, <3>2
  <2>3. [Stored EXCEPT ![n] = new] = [m \in Names |-> [Stored EXCEPT ![n] = new][m]]
    BY <2>1
  <2> QED
    BY <2>1, <2>2, <2>3, Zenon
<1>9. CASE op.pc = "store"
  <2>1. op.data \in Blocks /\ fm.action = "download" /\ heap[op.data] = Downloaded
    BY <1>9 DEF FsInv, OpInv, ResponseInv, InProgress
  <2>2. heap[op.data].len \in 1 .. MaxSize
    <3>1. heap[op.data] # Freed /\ heap[op.data] \in [ver : Versions \cup {0}, len : 0 .. MaxSize]
      BY <1>9, <2>1 DEF FsInv, FilesType, OwnerInv, CopyOwns
    <3>2. op.size > 0
      BY <2>1 DEF SizeInv
    <3> QED
      BY <2>1, <3>1, <3>2 DEF FsInv, OpInv
  <2>3. fm.ver \in Served(n)
    BY <1>0, <1>2, <2>1 DEF VersionInv
  <2>4. new \in [ver : Served(n), len : 1 .. MaxSize]
    BY <2>1, <2>2, <2>3 DEF Downloaded
  <2> HIDE DEF new
  <2> QED
    BY <1>0, <1>3, <1>8, <2>1, <2>4 DEF Topic!Change, Topic!Download
<1>10. CASE op.pc = "delete"
  <2>1. op.data = Null /\ fm.action = "delete" /\ SlotsOf(n) # {}
    BY <1>1, <1>2, <1>10 DEF FsInv, OpInv, ResponseInv, InProgress, Results, Update, Create, FindToDelete,
       Return, NoOperation, Critical
  <2>2. PICK s \in Slots : files[s].name = n
    BY <2>1 DEF SlotsOf
  <2>3. BlockOf(n) = files[s].data
    BY <1>2, <2>1, <2>2, OnlySlot DEF BlockOf
  <2>4. files[s].data \in Blocks /\ heap[files[s].data] # Freed
    BY <1>2, <2>2, BlockOfFile DEF Written
  <2>5. Stored[n] # Freed
    BY <1>2, <2>3, <2>4 DEF Stored
  <2> QED
    BY <1>0, <1>3, <1>8, <2>1, <2>5 DEF Topic!Change, Topic!Delete
<1> QED
  BY <1>2, <1>9, <1>10

\* A step of the file task is a step of the topic, or none that a user sees.
LEMMA TopicStep ==
    ASSUME FsInv, VersionInv, SizeInv, FileManagerStep
    PROVE  [Topic!Next]_(Topic!vars)
<1> USE DEF Critical, Results
<1>0. fm \in FileTask /\ op \in Operation /\ fm.name \in Names
  BY DEF FsInv, FilesType, FileTask
<1>1. CASE op.pc \notin Critical /\ op'.pc \in Critical
  BY <1>1, TakesEffect DEF Topic!Next
<1>2. CASE op'.pc \in Critical => op.pc \in Critical
  <2>1. Stored' = Stored
    BY <1>2, StoredStays
  <2>e. Error => fm'.pc = "error" /\ Stage' = "error"
    BY ErrorType DEF Stage
  <2>r. ASSUME Error, Stage \in {"none", "taken"} PROVE Topic!Next
    BY <2>1, <2>e, <2>r DEF Topic!Next, Topic!Refuse
  <2>s. ASSUME Stage' = Stage, fm'.action = fm.action, fm'.name = fm.name PROVE UNCHANGED Topic!vars
    BY <2>1, <2>s DEF Topic!vars
  <2>2. CASE TakeCommand
    <3>1. Stage = "none"
      BY <2>2 DEF TakeCommand, Stage
    <3>2. CASE fm' = [fm EXCEPT !.pc = "ok"]
      <4>1. Stage' = "ok"
        BY <1>0, <3>2 DEF Stage, FileTask
      <4> QED
        BY <2>1, <3>1, <4>1 DEF Topic!Next, Topic!List
    <3>3. ASSUME NEW name \in Names, NEW action \in {"download", "delete"},
                 fm' = [fm EXCEPT !.pc = "start", !.action = action, !.name = name]
          PROVE  Topic!Next
      <4>1. Stage' = "taken" /\ fm'.action = action /\ fm'.name = name
        BY <1>0, <3>3 DEF Stage, FileTask
      <4> QED
        BY <2>1, <3>1, <4>1 DEF Topic!Next, Topic!Take, Topic!Commands
    <3>4. Dispatch
      BY <2>2 DEF TakeCommand
    <3>5. CASE Error
      BY <2>r, <3>1, <3>5
    <3> QED
      BY <3>2, <3>3, <3>4, <3>5, Zenon DEF Dispatch
  <2>3. CASE Connect
    <3>0. fm.pc = "start"
      BY <2>3, Zenon DEF Connect
    <3>1. Stage = "taken"
      BY <3>0 DEF Stage
    <3>2. Error \/ (fm'.pc = "read" /\ fm'.action = fm.action /\ fm'.name = fm.name)
      <4>1. ASSUME NEW b, NEW cap, NEW known, NEW v,
                   fm' = [fm EXCEPT !.pc = "read", !.buf = b, !.cap = cap, !.known = known, !.ver = v]
            PROVE  fm'.pc = "read" /\ fm'.action = fm.action /\ fm'.name = fm.name
        BY <1>0, <4>1 DEF FileTask
      <4>2. Error \/ \E b, cap, known, v :
              fm' = [fm EXCEPT !.pc = "read", !.buf = b, !.cap = cap, !.known = known, !.ver = v]
        <5>1. ASSUME NEW v, NEW b, NEW length, NEW cap,
                     fm' = [fm EXCEPT !.pc = "read", !.buf = b, !.cap = cap,
                                      !.known = length > 0, !.ver = v]
              PROVE  <4>2
          BY <5>1
        <5> QED
          BY <2>3, <5>1, Zenon DEF Connect
      <4> QED
        BY <4>1, <4>2, Zenon
    <3>3. fm'.pc = "read" => Stage' = "taken"
      BY DEF Stage
    <3> QED
      BY <2>r, <2>s, <3>1, <3>2, <3>3
  <2>4. CASE FailRead
    BY <2>4, <2>r DEF FailRead, Stage
  <2>5. ASSUME NEW n \in 1 .. MaxSize, ReadMore(n) \/ ReadAndGrow(n)
        PROVE  [Topic!Next]_(Topic!vars)
    <3>0. fm.pc = "read"
      BY <2>5, Zenon DEF ReadMore, ReadAndGrow
    <3>1. Stage = "taken"
      BY <3>0 DEF Stage
    <3>2. Error \/ (fm'.pc = "read" /\ fm'.action = fm.action /\ fm'.name = fm.name)
      BY <1>0, <2>5, <3>0, ZenonT(40) DEF ReadMore, ReadAndGrow, FileTask
    <3>3. fm'.pc = "read" => Stage' = "taken"
      BY DEF Stage
    <3> QED
      BY <2>r, <2>s, <3>1, <3>2, <3>3
  <2>6. CASE EndOfBody \/ StartDelete
    <3>1. Stage = "taken" /\ fm'.pc = "wait" /\ fm'.action = fm.action /\ fm'.name = fm.name
      BY <1>0, <2>6 DEF EndOfBody, StartDelete, Stage, FileTask
    <3>2. op'.pc \in {"copy", "delete"}
      BY <1>0, <2>6, Begins
    <3>3. Stage' = "taken"
      BY <3>1, <3>2 DEF Stage
    <3> QED
      BY <2>s, <3>1, <3>3
  <2>7. CASE FileSystemStep
    <3>0. op.pc \in InProgress
      <4>1. CASE Allocate \/ Update \/ Create \/ NoRoom \/ Drop \/ FindToDelete
        BY <4>1, Zenon DEF Allocate, Update, Create, NoRoom, Drop, FindToDelete, InProgress
      <4>2. CASE FreeData \/ SetData \/ SetSize \/ ClearName
        BY <4>2, Zenon DEF FreeData, SetData, SetSize, ClearName, InProgress
      <4> QED
        BY <2>7, <4>1, <4>2 DEF FileSystemStep, RamFsStep
    <3>1. fm' = fm /\ fm.pc = "wait"
      BY <2>7, <3>0 DEF FileSystemStep, FsInv, OpInv
    <3>n. ASSUME NEW r \in Results, Return(r) PROVE op'.pc = r
      BY <3>n DEF Return, NoOperation
    <3>2. CASE op.pc \in Critical
      <4>1. op'.pc \in Critical \cup {"ok"}
        <5>1. \/ \E pc \in Critical : op' = [op EXCEPT !.pc = pc]
              \/ Return("ok")
          BY <3>2, CriticalSteps DEF FreeData, SetData, SetSize, ClearName
        <5> QED
          BY <1>0, <3>n, <5>1 DEF Operation
      <4> QED
        BY <2>s, <3>1, <3>2, <4>1 DEF Stage
    <3>3. CASE op.pc \notin Critical
      <4>1. op'.pc \in {"store", "drop", "no_mem", "not_found"}
        <5>1. ~FreeData /\ ~SetData /\ ~SetSize /\ ~ClearName
          BY <3>3 DEF FreeData, SetData, SetSize, ClearName
        <5>2. ~Update /\ ~Create
          <6>1. \A pc, slot : [op EXCEPT !.pc = pc, !.slot = slot].pc = pc
            BY <1>0 DEF Operation
          <6>2. (Update \/ Create) => op'.pc \in {"free", "data"}
            BY <6>1 DEF Update, Create
          <6> QED
            BY <1>2, <3>3, <6>2
        <5>3. CASE Allocate \/ NoRoom \/ Drop
          <6>1. \/ \E b : op' = [op EXCEPT !.pc = "store", !.data = b]
                \/ op' = [op EXCEPT !.pc = "drop"] \/ Return("no_mem")
            BY <5>3 DEF Allocate, NoRoom, Drop
          <6> QED
            BY <1>0, <3>n, <6>1 DEF Operation
        <5>4. CASE FindToDelete
          <6>1. (\E slot : op' = [op EXCEPT !.pc = "free", !.slot = slot]) \/ Return("not_found")
            BY <5>4 DEF FindToDelete
          <6>2. Return("not_found")
            BY <1>0, <1>2, <3>3, <6>1 DEF Operation
          <6> QED
            BY <3>n, <6>2
        <5> QED
          BY <2>7, <5>1, <5>2, <5>3, <5>4 DEF FileSystemStep, RamFsStep
      <4> QED
        BY <2>s, <3>1, <3>3, <4>1 DEF Stage, InProgress
    <3> QED
      BY <3>2, <3>3
  <2>8. CASE Returned
    <3>1. fm.pc = "wait" /\ op.pc \in Results /\ fm'.pc = Outcome
      BY <1>0, <2>8 DEF Returned, FileTask
    <3>2. CASE op.pc = "ok"
      BY <2>1, <3>1, <3>2 DEF Stage, Outcome, Topic!Next, Topic!Confirm
    <3>3. CASE op.pc # "ok"
      BY <2>1, <3>1, <3>3 DEF Stage, Outcome, Topic!Next, Topic!Refuse
    <3> QED
      BY <3>2, <3>3
  <2>9. CASE Respond
    BY <2>1, <2>9, IdleType DEF Respond, Stage, Topic!Next, Topic!Respond
  <2> QED
    BY <2>2, <2>3, <2>4, <2>5, <2>6, <2>7, <2>8, <2>9 DEF FileManagerStep
<1> QED
  BY <1>1, <1>2

\* For any number of names, slots and blocks, any allocator and any failure, the
\* file manager is the file topic: a file changes by its own command only, at once,
\* and is confirmed exactly when it has changed.
THEOREM FilesAreATopic == Spec => ImplementsFileTopic
<1>1. Init => Topic!Init /\ SizeInv
  <2> SUFFICES ASSUME Init PROVE Topic!Init /\ SizeInv
    OBVIOUS
  <2>1. fm = Idle /\ op.pc \notin Critical /\ op.data = Null /\ \A s \in Slots : files[s].name = NoName
    BY DEF Init, FmInit, RamFsInit, NoOperation, Critical
  <2>2. Stage = "none"
    BY <2>1, IdleType DEF Stage
  <2>3. ASSUME NEW n \in Names PROVE BlockOf(n) = Null
    BY <2>1 DEF BlockOf, SlotsOf
  <2> QED
    BY <2>1, <2>2, <2>3 DEF Topic!Init, Stored, SizeInv
<1>2. RInv /\ SizeInv /\ [Next]_vars => SizeInv' /\ [Topic!Next]_(Topic!vars)
  <2> SUFFICES ASSUME RInv, SizeInv, [Next]_vars PROVE SizeInv' /\ [Topic!Next]_(Topic!vars)
    OBVIOUS
  <2>1. FsInv /\ VersionInv
    BY DEF RInv, IInv
  <2>2. CASE FileTaskStep
    BY <2>1, <2>2, TopicStep, SizeKeeps DEF FileTaskStep
  <2>3. CASE Arrive \/ StartMonitor \/ LoaderStep \/ UNCHANGED vars
    <3>1. UNCHANGED <<ramfsVars, fm>>
      BY <2>3, Zenon DEF Arrive, StartMonitor, LoaderStep, vars, fmVars
    <3> QED
      BY <3>1 DEF ramfsVars, SizeInv, Topic!vars, Stored, BlockOf, SlotsOf, First, Stage
  <2> QED
    BY <2>2, <2>3 DEF Next
<1> QED
  BY <1>1, <1>2, ReadInvariance, PTL DEF Spec, ImplementsFileTopic, Topic!Spec
=============================================================================
