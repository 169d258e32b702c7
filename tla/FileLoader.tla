----------------------------- MODULE FileLoader -----------------------------
(***************************************************************************)
(* The monitor commands that use files, run by the GDB task next to the    *)
(* file manager: riscv_load writes a file to the target's memory,          *)
(* fpga_program and fpga_stream configure the FPGA.  A file is found under *)
(* the mutex and read without it, so a store or delete of its slot may     *)
(* come in between; raced says that one did.  How memory writes travel is  *)
(* DmMemory's subject.                                                     *)
(***************************************************************************)
EXTENDS FileManager, Ecp5

VARIABLES
    ld,           \* the command: pc, op, the file, what was read of its slot, what it
                  \* has done to the target, reply
    raced,        \* the slot was written after it was found
    fault,        \* a transfer, a wait or the file search of this command failed
    timedOut      \* the last programming was given up in a wait

loaderVars == <<ld, fpga, raced, fault, timedOut>>
vars       == <<ramfsVars, fmVars, loaderVars>>

Stopped == [pc |-> "idle", op |-> "none", name |-> CHOOSE n \in Names : TRUE, slot |-> 0,
            got |-> {}, data |-> Null, size |-> 0, ver |-> 0, i |-> 0, halted |-> FALSE,
            image |-> <<>>, ready |-> FALSE, reply |-> "ok"]

Loading == [pc : {"idle", "find", "open", "halt", "take", "write", "finish",
                  "enable", "erase", "data", "end", "status", "reply"},
            op : {"none", "load", "program", "stream"}, name : Names, slot : Slots \cup {0},
            got : SUBSET {"data", "size"}, data : Blocks \cup {Null}, size : 0 .. MaxSize,
            ver : Versions \cup {0}, i : 0 .. MaxSize, halted : BOOLEAN,
            image : Seq(Versions \cup {0}), ready : BOOLEAN, reply : {"ok", "error"}]

TypeOK ==
    /\ files \in [Slots -> File] /\ \A s \in Slots : files[s].size <= MaxSize
    /\ heap \in [Blocks -> [ver : Versions \cup {0}, len : 0 .. MaxSize]]
    /\ mutex \in BOOLEAN /\ op \in Operation
    /\ arrived \in 0 .. MaxCommands /\ queued \in 0 .. QueueDepth /\ fm \in FileTask /\ changed \in BOOLEAN
    /\ ld \in Loading
    /\ fpga \in [isc : BOOLEAN, loaded : Seq(Versions \cup {0})]
    /\ raced \in BOOLEAN /\ fault \in BOOLEAN /\ timedOut \in BOOLEAN

Init ==
    /\ RamFsInit /\ FmInit /\ Ecp5Init
    /\ ld = Stopped
    /\ raced = FALSE /\ fault = FALSE /\ timedOut = FALSE

GoOn(pc)  == ld' = [ld EXCEPT !.pc = pc]
Fail      == ld' = [ld EXCEPT !.pc = "reply", !.reply = "error"] /\ fault' = TRUE

\* Unit i of the block that was read from the slot; 0 when it is not allocated.
Unit(i) == IF ld.data \in Blocks /\ i <= heap[ld.data].len THEN heap[ld.data].ver ELSE 0

---------------------------------------------------------------------------
(* The GDB task.                                                           *)

StartMonitor ==
    /\ ld.pc = "idle" /\ arrived < MaxCommands /\ arrived' = arrived + 1
    /\ \/ \E op_ \in {"load", "program"}, name \in Names :
            ld' = [ld EXCEPT !.pc = "find", !.op = op_, !.name = name]
       \/ ld' = [ld EXCEPT !.pc = "open", !.op = "stream", !.ver = CHOOSE v \in Versions : TRUE]
    /\ UNCHANGED <<queued, fm, changed, ramfsVars, fpga, raced, fault, timedOut>>

Find ==
    /\ ld.pc = "find" /\ ~mutex
    /\ \/ SlotsOf(ld.name) = {} /\ Fail
       \/ /\ SlotsOf(ld.name) # {}
          /\ ld' = [ld EXCEPT !.pc = IF ld.op = "load" THEN "halt" ELSE "take",
                              !.slot = First(SlotsOf(ld.name))]
          /\ UNCHANGED fault
    /\ UNCHANGED <<fpga, raced, timedOut>>

\* The result of target_halt is not looked at.
Halt ==
    /\ ld.pc = "halt"
    /\ \E halted \in BOOLEAN :
         /\ ld' = [ld EXCEPT !.pc = "take", !.halted = halted]
         /\ fault' = ~halted
    /\ UNCHANGED <<fpga, raced, timedOut>>

\* The arguments f->data and f->size, in either order.
Take(field) ==
    /\ ld.pc = "take" /\ field \notin ld.got
    /\ LET got == ld.got \cup {field} IN
       ld' = [ld EXCEPT !.got = got,
                        ![field] = files[ld.slot][field],
                        !.pc = IF got = {"data", "size"}
                               THEN IF ld.op = "load" THEN "write" ELSE "enable"
                               ELSE "take"]
    /\ UNCHANGED <<fpga, raced, fault, timedOut>>

\* dm_write_memory, which fails on a target that runs.
WriteMemory ==
    /\ ld.pc = "write"
    /\ \/ Fail
       \/ /\ ld.i < ld.size /\ ld.halted
          /\ ld' = [ld EXCEPT !.i = @ + 1, !.image = Append(@, Unit(ld.i + 1))]
          /\ UNCHANGED fault
       \/ ld.i = ld.size /\ GoOn("finish") /\ UNCHANGED fault
    /\ UNCHANGED <<fpga, raced, timedOut>>

\* dm_fence_i and the write of dpc; their results are not looked at either.
Finish ==
    /\ ld.pc = "finish"
    /\ \E ready \in BOOLEAN :
         /\ ld' = [ld EXCEPT !.pc = "reply", !.ready = ready]
         /\ fault' = (fault \/ ~ready)
    /\ UNCHANGED <<fpga, raced, timedOut>>

OpenStream ==
    /\ ld.pc = "open"
    /\ \/ Fail
       \/ GoOn("enable") /\ UNCHANGED fault
    /\ UNCHANGED <<fpga, raced, timedOut>>

\* wait_not_busy ends before its time is up, or gives up.
Wait(pc) ==
    \/ GoOn(pc) /\ timedOut' = FALSE /\ UNCHANGED fault
    \/ Fail /\ timedOut' = TRUE

Enable ==
    /\ ld.pc = "enable" /\ IscEnable /\ Wait("erase")
    /\ UNCHANGED raced

Erase ==
    /\ ld.pc = "erase" /\ IscErase /\ Wait("data")
    /\ UNCHANGED raced

Program ==
    /\ ld.pc = "data" /\ ld.op = "program"
    /\ \/ /\ ld.i < ld.size
          /\ ProgramData(Unit(ld.i + 1))
          /\ ld' = [ld EXCEPT !.i = @ + 1]
       \/ ld.i = ld.size /\ GoOn("end") /\ UNCHANGED fpga
    /\ UNCHANGED <<raced, fault, timedOut>>

\* Mutant: a failed read leaves without ecp5_program_end.
StreamErrorLeaves == "reply"

StreamError == "end"

\* A read of one unit, of nothing, or one that fails.  Bound: MaxSize units.
Stream ==
    /\ ld.pc = "data" /\ ld.op = "stream"
    /\ \/ /\ ld.i < MaxSize
          /\ ProgramData(ld.ver)
          /\ ld' = [ld EXCEPT !.i = @ + 1]
          /\ UNCHANGED fault
       \/ GoOn("end") /\ UNCHANGED <<fpga, fault>>
       \/ ld' = [ld EXCEPT !.pc = StreamError, !.reply = "error"] /\ fault' = TRUE
          /\ UNCHANGED fpga
    /\ UNCHANGED <<raced, timedOut>>

\* ecp5_program_end up to the status.
EndProgram ==
    /\ ld.pc = "end"
    /\ \/ Fail /\ timedOut' = TRUE /\ UNCHANGED fpga
       \/ IscDisable /\ Wait("status")
    /\ UNCHANGED raced

\* Mutant: FAIL and DONE are read and not looked at.
CheckStatusUnread ==
    /\ ld.pc = "status" /\ GoOn("reply")
    /\ UNCHANGED <<fpga, raced, fault, timedOut>>

CheckStatus ==
    /\ ld.pc = "status"
    /\ ld' = [ld EXCEPT !.pc = "reply", !.reply = IF FpgaDone THEN @ ELSE "error"]
    /\ UNCHANGED <<fpga, raced, fault, timedOut>>

Reply ==
    /\ ld.pc = "reply"
    /\ ld' = Stopped /\ raced' = FALSE /\ fault' = FALSE
    /\ UNCHANGED <<fpga, timedOut>>

LoaderStep ==
    /\ \/ Find \/ Halt \/ Take("data") \/ Take("size") \/ WriteMemory \/ Finish \/ OpenStream
       \/ Enable \/ Erase \/ Program \/ Stream \/ EndProgram \/ CheckStatus \/ Reply
    /\ UNCHANGED <<ramfsVars, fmVars>>
---------------------------------------------------------------------------

\* A store or delete is at work on the slot that the GDB task found.
Touching == op.pc \in Critical /\ op.slot = ld.slot

FileTaskStep ==
    /\ FileManagerStep
    /\ raced' = (raced \/ Touching)
    /\ UNCHANGED <<ld, fpga, fault, timedOut>>

Next ==
    \/ Arrive /\ UNCHANGED loaderVars
    \/ FileTaskStep
    \/ StartMonitor
    \/ LoaderStep

Spec == Init /\ [][Next]_vars

\* The tasks are scheduled, HTTP reads and waits for the FPGA end in time.
FairSpec ==
    /\ Spec
    /\ WF_vars(FileTaskStep)
    /\ WF_vars(LoaderStep)
---------------------------------------------------------------------------
(* Properties.                                                             *)

\* Who will free a block: a slot, handle_download (0), ramfs_store's copy (-1).
Owners(b) ==
    {s \in Slots : files[s].data = b /\ ~(op.pc = "data" /\ op.slot = s)}
        \cup (IF fm.buf = b THEN {0} ELSE {})
        \cup (IF op.data = b /\ op.pc \in {"store", "drop", "free", "data"} THEN {-1} ELSE {})

\* No block leaks, is freed twice or belongs to two: at every step of a store,
\* a delete or a download, failed ones too, a block is allocated exactly when it
\* has an owner, and then it has one.
BlocksOwned ==
    \A b \in Blocks :
        /\ (heap[b] # Freed) = (Owners(b) # {})
        /\ \A x, y \in Owners(b) : x = y

\* Names are unique, and a slot that no operation is at work on is empty
\* or has a block of exactly its size.
TableIsSound ==
    \A s \in Slots :
        /\ \A t \in Slots : files[s].name = files[t].name => s = t \/ files[s].name = NoName
        /\ ~(op.pc \in Critical /\ op.slot = s) =>
             IF files[s].name = NoName
             THEN files[s].data = Null /\ files[s].size = 0
             ELSE files[s].data \in Blocks /\ heap[files[s].data].len = files[s].size

\* The file system at every step of the file manager: its table, its memory and
\* the state of both tasks are well formed, and the two agree on who owns what.
FilesAreSound == TypeOK /\ BlocksOwned /\ TableIsSound

\* A response of the file manager says what happened: after an error no file
\* has changed in any step of the command, and after ok the file is stored with the
\* download's content and length, or gone.
ResponsesAreTrue ==
    /\ fm.pc = "error" => ~changed
    /\ fm.pc = "ok" =>
         CASE fm.action = "download" ->
                \E s \in SlotsOf(fm.name) :
                    heap[files[s].data] = [ver |-> fm.ver, len |-> fm.total]
           [] fm.action = "delete" -> SlotsOf(fm.name) = {}
           [] OTHER -> ~changed

\* The block under a name; of the name at work, what it comes to: the operation
\* takes effect when it has the mutex and the slot, and cannot fail any more.
BlockOf(name) ==
    IF op.pc \in Critical /\ op.name = name THEN op.data
    ELSE IF SlotsOf(name) = {} THEN Null
    ELSE files[First(SlotsOf(name))].data

Stored == [n \in Names |-> IF BlockOf(n) = Null THEN Freed ELSE heap[BlockOf(n)]]

Stage ==
    CASE fm.pc = "idle"                                     -> "none"
      [] fm.pc \in {"ok", "error"}                          -> fm.pc
      [] fm.pc = "wait" /\ op.pc \in Critical \cup {"ok"}   -> "done"
      [] OTHER                                              -> "taken"

\* The file task, its slots and its memory are the file topic that a user sees: no
\* step of a store or delete shows half of it under the mutex, no other file changes
\* with it, and no failure between two steps leaves a file that was not asked for.
Topic == INSTANCE FileTopic
    WITH stored <- Stored, stage <- Stage, command <- [action |-> fm.action, name |-> fm.name],
         Files <- [n \in Names |-> [ver : Served(n), len : 1 .. MaxSize]], Absent <- Freed
ImplementsFileTopic == Topic!Spec

\* A body of unknown length is stored when the server has ended it, never
\* because the buffer was full.
UnknownLengthReadToItsEnd ==
    fm.pc = "read" /\ ~fm.known => fm.total < fm.cap

Body(s) == [i \in 1 .. files[s].size |-> heap[files[s].data].ver]

\* riscv_load and fpga_program read a file with no lock on it: what they copied
\* is the file, and what was downloaded under its name, at each moment of the
\* copy, unless its slot was written after it was found.
UnracedCopyIsTheFile ==
    LET copied == IF ld.op = "load" THEN ld.image ELSE fpga.loaded IN
    ~raced /\ ld.slot # 0 /\ ld.pc \in {"write", "finish", "data", "end", "status"} =>
        /\ copied = SubSeq(Body(ld.slot), 1, ld.i)
        /\ \A k \in 1 .. ld.i : copied[k] \in Served(ld.name)

\* Loaded and Programmed are said only of a target that is ready to run the file,
\* and of an FPGA that left programming mode with a complete configuration.
OkMeansDone ==
    ld.pc = "reply" /\ ld.reply = "ok" =>
        /\ ld.op = "load" /\ ~fault =>
             /\ ld.halted /\ ld.ready
             /\ ~raced => ld.image = Body(ld.slot)
        /\ ld.op \in {"program", "stream"} =>
             /\ FpgaDone
             /\ ld.op = "program" /\ ~raced => fpga.loaded = Body(ld.slot)

\* Whatever earlier attempts left behind, programming a complete configuration
\* works when nothing fails in it.
SoundAttemptSucceeds ==
    ld.pc = "reply" /\ ld.reply = "error" /\ ~fault /\ ~raced =>
        CASE ld.op = "program" -> Body(ld.slot) \notin Bitstreams
          [] ld.op = "stream"  -> [i \in 1 .. ld.i |-> ld.ver] \notin Bitstreams
          [] OTHER -> FALSE

\* The FPGA is left in programming mode only by an attempt that gave up a wait;
\* a failed transfer still ends it.
InIscOnlyAfterTimeout ==
    fpga.isc => timedOut \/ ld.pc \in {"erase", "data", "end"}

\* Every command of the file topic that was taken is answered, and every
\* monitor command gets its reply: the mutex is given back on every path.
EveryCommandEnds ==
    /\ fm.pc # "idle" ~> fm.pc = "idle"
    /\ ld.pc # "idle" ~> ld.pc = "idle"
=============================================================================
