----------------------------- MODULE FileManager -----------------------------
(***************************************************************************)
(* file_manager.c: commands of the file topic in a short queue, and the    *)
(* task that carries them out one by one.  A download is read over HTTP    *)
(* into a buffer that grows while the length is not known.                 *)
(***************************************************************************)
EXTENDS RamFs

CONSTANTS
    Served(_),    \* the versions that are downloaded under a name
    QueueDepth,
    FirstSize,    \* the buffer of a download of unknown length
    MaxSize,      \* CONFIG_FILE_MANAGER_MAX_FILE_SIZE
    MaxCommands   \* bound: commands of the file topic and of the monitor

ASSUME FileManagerAssumption ==
    /\ \A n \in Names : Served(n) \subseteq Versions
    /\ QueueDepth \in Nat \ {0} /\ MaxCommands \in Nat
    /\ FirstSize \in Nat \ {0} /\ MaxSize \in Nat /\ FirstSize <= MaxSize

VARIABLES
    arrived,      \* commands so far
    queued,       \* commands in s_cmd_queue
    fm,           \* the task: pc, and what handle_download keeps
    changed       \* the command has changed a file

fmVars == <<arrived, queued, fm, changed>>

LessOf(m, n) == IF m < n THEN m ELSE n

Idle == [pc |-> "idle", action |-> "none", name |-> CHOOSE n \in Names : TRUE, buf |-> Null, cap |-> 0,
         total |-> 0, known |-> FALSE, ver |-> 0]

\* The response, error or ok, is the pc that the task comes to.
FileTask == [pc : {"idle", "start", "read", "wait", "ok", "error"},
             action : {"none", "download", "delete"}, name : Names,
             buf : Blocks \cup {Null}, cap : 0 .. MaxSize, total : 0 .. MaxSize,
             known : BOOLEAN, ver : Versions \cup {0}]

FmInit == arrived = 0 /\ queued = 0 /\ fm = Idle /\ changed = FALSE

Error == fm' = [Idle EXCEPT !.pc = "error"]

\* file_cmd_handler: a command is dropped when it is too long or the queue is full.
Arrive ==
    /\ queued < QueueDepth /\ arrived < MaxCommands
    /\ queued' = queued + 1 /\ arrived' = arrived + 1
    /\ UNCHANGED <<fm, changed, ramfsVars>>

\* What the command asks for does not matter before it is taken.
Dispatch ==
    \/ Error
    \/ fm' = [fm EXCEPT !.pc = "ok"]                     \* list
    \/ \E name \in Names, action \in {"download", "delete"} :
         fm' = [fm EXCEPT !.pc = "start", !.action = action, !.name = name]

TakeCommand ==
    /\ fm.pc = "idle" /\ queued > 0
    /\ queued' = queued - 1 /\ Dispatch
    /\ UNCHANGED <<arrived, changed, ramfsVars>>

\* esp_http_client_open and fetch_headers; length is 0 or less when it is not known.
Connect ==
    /\ fm.pc = "start" /\ fm.action = "download"
    /\ \/ Error /\ UNCHANGED heap
       \/ \E length \in 0 .. MaxSize, v \in Served(fm.name), b \in Candidates :
            LET cap == IF length > 0 THEN length ELSE FirstSize IN
            /\ heap' = [heap EXCEPT ![b] = [ver |-> v, len |-> cap]]
            /\ fm' = [fm EXCEPT !.pc = "read", !.buf = b, !.cap = cap,
                                !.known = length > 0, !.ver = v]
    /\ UNCHANGED <<arrived, queued, changed, files, mutex, op>>

FailRead ==
    /\ fm.pc = "read"
    /\ heap' = Free(fm.buf)
    /\ Error
    /\ UNCHANGED <<arrived, queued, changed, files, mutex, op>>

Larger(cap) == LessOf(cap * 2, MaxSize)

\* Mutant: the buffer grows when a read finds no room in it.
FullLate(n) == fm.total + n > fm.cap

Full(n) == fm.total + n >= fm.cap

\* A read of n units that leaves room, or is all there is to come.
ReadMore(n) ==
    /\ fm.pc = "read" /\ n \in 1 .. fm.cap - fm.total
    /\ fm.known \/ ~Full(n)
    /\ fm' = [fm EXCEPT !.total = @ + n]
    /\ UNCHANGED <<arrived, queued, changed, ramfsVars>>

\* A read that fills a buffer of unknown length; realloc may move the block, or
\* fail, and a full buffer of the largest size is refused.
ReadAndGrow(n) ==
    /\ fm.pc = "read" /\ n \in 1 .. fm.cap - fm.total
    /\ ~fm.known /\ Full(n)
    /\ \/ Error /\ heap' = Free(fm.buf)
       \/ \E b \in Candidates \cup {fm.buf} :
            /\ fm.cap < MaxSize
            /\ fm' = [fm EXCEPT !.total = @ + n, !.buf = b, !.cap = Larger(@)]
            /\ heap' = [Free(fm.buf) EXCEPT ![b] = [ver |-> fm.ver, len |-> Larger(fm.cap)]]
    /\ UNCHANGED <<arrived, queued, changed, files, mutex, op>>

\* A read of nothing ends the body, whatever its length should have been.
EndOfBody ==
    /\ fm.pc = "read"
    /\ fm' = [fm EXCEPT !.pc = "wait"]
    /\ Store(fm.name, fm.buf, fm.total)
    /\ UNCHANGED <<arrived, queued, changed, files, heap, mutex>>

StartDelete ==
    /\ fm.pc = "start" /\ fm.action = "delete"
    /\ Delete(fm.name)
    /\ fm' = [fm EXCEPT !.pc = "wait"]
    /\ UNCHANGED <<arrived, queued, changed, files, heap, mutex>>

FileSystemStep ==
    /\ RamFsStep
    /\ changed' = (changed \/ files' # files)
    /\ UNCHANGED <<arrived, queued, fm>>

\* Mutant: the result of ramfs_store is not looked at.
OutcomeUnchecked == "ok"

Outcome == IF op.pc = "ok" THEN "ok" ELSE "error"

Returned ==
    /\ fm.pc = "wait" /\ op.pc \in Results
    /\ heap' = Free(fm.buf)
    /\ fm' = [fm EXCEPT !.pc = Outcome, !.buf = Null]
    /\ UNCHANGED <<arrived, queued, changed, files, mutex, op>>

\* publish_response, and the next round.
Respond ==
    /\ fm.pc \in {"ok", "error"}
    /\ fm' = Idle /\ changed' = FALSE
    /\ UNCHANGED <<arrived, queued, ramfsVars>>

FileManagerStep ==
    \/ TakeCommand \/ Connect \/ FailRead
    \/ \E n \in 1 .. MaxSize : ReadMore(n) \/ ReadAndGrow(n)
    \/ EndOfBody \/ StartDelete \/ FileSystemStep \/ Returned \/ Respond
=============================================================================
