-------------------------------- MODULE RamFs --------------------------------
(***************************************************************************)
(* The RAM file system of ramfs.c: a table of slots, each with a name and  *)
(* a block of the heap, under a mutex.  Only the file manager stores and   *)
(* deletes, so one operation at a time is in progress; its writes to a     *)
(* slot are steps of their own, because the GDB server reads through the   *)
(* pointer of ramfs_find without the mutex.  A block is the version of the *)
(* download it holds and its length in units.                              *)
(***************************************************************************)
EXTENDS Integers

CONSTANTS
    Names,
    NoName,       \* name[0] = 0
    MaxFiles,
    Blocks,       \* of the heap
    Malloc(_),    \* what malloc may return when these are free
    Null,
    Versions      \* contents of downloads

ASSUME RamFsAssumption ==
    /\ Names # {} /\ NoName \notin Names /\ Null \notin Blocks
    /\ MaxFiles \in Nat \ {0}
    /\ \A free \in SUBSET Blocks : Malloc(free) \subseteq free
    /\ Versions # {} /\ Versions \subseteq Nat \ {0}

VARIABLES
    files,        \* s_files
    heap,
    mutex,        \* s_mutex is taken by the operation in progress
    op            \* the operation in progress, or what the last one returned

ramfsVars == <<files, heap, mutex, op>>

Slots == 1 .. MaxFiles
Freed == [ver |-> 0, len |-> 0]

Free(data)    == [b \in Blocks |-> IF b = data THEN Freed ELSE heap[b]]
Candidates    == Malloc({b \in Blocks : heap[b] = Freed})
SlotsOf(name) == {s \in Slots : files[s].name = name}
First(S)      == CHOOSE s \in S : \A t \in S : s <= t

File      == [name : Names \cup {NoName}, data : Blocks \cup {Null}, size : Nat]
Results   == {"ok", "no_mem", "not_found"}
Critical  == {"free", "data", "size", "name"}
Operation == [pc : {"copy", "store", "drop", "delete"} \cup Critical \cup Results,
              name : Names, src : Blocks \cup {Null}, data : Blocks \cup {Null},
              size : Nat, slot : Slots]

\* Nothing in progress; the last operation returned result.
NoOperation(result) ==
    [pc |-> result, name |-> CHOOSE n \in Names : TRUE, src |-> Null, data |-> Null,
     size |-> 0, slot |-> 1]

RamFsInit ==
    /\ files = [s \in Slots |-> [name |-> NoName, data |-> Null, size |-> 0]]
    /\ heap = [b \in Blocks |-> Freed]
    /\ mutex = FALSE
    /\ op = NoOperation("ok")

\* Calls of ramfs_store and ramfs_delete.
Store(name, src, size) ==
    op' = [op EXCEPT !.pc = "copy", !.name = name, !.src = src, !.size = size]

Delete(name) ==
    op' = [op EXCEPT !.pc = "delete", !.name = name]

Return(result) == op' = NoOperation(result)

---------------------------------------------------------------------------
(* The steps of the operation in progress.                                 *)

\* Mutant: the caller's buffer is kept and not copied.
AllocateNothing ==
    /\ op.pc = "copy"
    /\ op' = [op EXCEPT !.pc = "store", !.data = op.src]
    /\ UNCHANGED <<files, heap, mutex>>

Allocate ==
    /\ op.pc = "copy"
    /\ \/ Return("no_mem") /\ UNCHANGED heap
       \/ \E b \in Candidates :
            /\ op.size > 0
            /\ heap' = [heap EXCEPT ![b] = [ver |-> heap[op.src].ver, len |-> op.size]]
            /\ op' = [op EXCEPT !.pc = "store", !.data = b]
    /\ UNCHANGED <<files, mutex>>

\* The slot of the name is taken before an empty one.
Update ==
    /\ op.pc = "store" /\ ~mutex /\ SlotsOf(op.name) # {}
    /\ mutex' = TRUE
    /\ op' = [op EXCEPT !.pc = "free", !.slot = First(SlotsOf(op.name))]
    /\ UNCHANGED <<files, heap>>

Create ==
    /\ op.pc = "store" /\ ~mutex /\ SlotsOf(op.name) = {} /\ SlotsOf(NoName) # {}
    /\ LET s == First(SlotsOf(NoName)) IN
         /\ files' = [files EXCEPT ![s].name = op.name]
         /\ op' = [op EXCEPT !.pc = "data", !.slot = s]
    /\ mutex' = TRUE
    /\ UNCHANGED heap

NoRoom ==
    /\ op.pc = "store" /\ ~mutex /\ SlotsOf(op.name) = {} /\ SlotsOf(NoName) = {}
    /\ op' = [op EXCEPT !.pc = "drop"]
    /\ UNCHANGED <<files, heap, mutex>>

\* Mutant: the copy of a file without a slot is not freed.
DropLeaks ==
    op.pc = "drop" /\ Return("no_mem") /\ UNCHANGED <<files, heap, mutex>>

Drop ==
    /\ op.pc = "drop"
    /\ heap' = Free(op.data)
    /\ Return("no_mem")
    /\ UNCHANGED <<files, mutex>>

FindToDelete ==
    /\ op.pc = "delete" /\ ~mutex
    /\ \/ /\ SlotsOf(op.name) # {}
          /\ mutex' = TRUE
          /\ op' = [op EXCEPT !.pc = "free", !.slot = First(SlotsOf(op.name))]
       \/ /\ SlotsOf(op.name) = {}
          /\ Return("not_found")
          /\ UNCHANGED mutex
    /\ UNCHANGED <<files, heap>>

FreeData ==
    /\ op.pc = "free"
    /\ heap' = Free(files[op.slot].data)
    /\ op' = [op EXCEPT !.pc = "data"]
    /\ UNCHANGED <<files, mutex>>

\* A delete leaves NULL and 0, a store its copy and the size.
SetData ==
    /\ op.pc = "data"
    /\ files' = [files EXCEPT ![op.slot].data = op.data]
    /\ op' = [op EXCEPT !.pc = "size"]
    /\ UNCHANGED <<heap, mutex>>

SetSize ==
    /\ op.pc = "size"
    /\ files' = [files EXCEPT ![op.slot].size = op.size]
    /\ IF op.data = Null THEN op' = [op EXCEPT !.pc = "name"] /\ UNCHANGED mutex
                         ELSE Return("ok") /\ mutex' = FALSE
    /\ UNCHANGED heap

\* Mutant: ramfs_delete returns with the mutex taken.
ClearNameLocked ==
    /\ op.pc = "name"
    /\ files' = [files EXCEPT ![op.slot].name = NoName]
    /\ Return("ok")
    /\ UNCHANGED <<heap, mutex>>

ClearName ==
    /\ op.pc = "name"
    /\ files' = [files EXCEPT ![op.slot].name = NoName]
    /\ mutex' = FALSE
    /\ Return("ok")
    /\ UNCHANGED heap

RamFsStep ==
    \/ Allocate \/ Update \/ Create \/ NoRoom \/ Drop
    \/ FindToDelete \/ FreeData \/ SetData \/ SetSize \/ ClearName
=============================================================================
