------------------------------- MODULE RspLink -------------------------------
(***************************************************************************)
(* The way of a GDB packet to its handler and of the answer back: GDB, the *)
(* MQTT connection, the two queues of mqtt_transport.c and the packet      *)
(* reader of gdb_server_task.  Bytes are dropped at a full queue, messages *)
(* are lost, repeated or cut in two, and a publish may fail; GDB sends a   *)
(* packet again when it is refused or not acknowledged in time.            *)
(* Targets and handlers belong to GdbServer; here a handler only takes     *)
(* time and leaves an answer.  Packets are one letter: c gets no answer    *)
(* until ^C stops the target, the others get theirs from the handler.      *)
(***************************************************************************)
EXTENDS Integers, SequencesExt

CONSTANTS
    Ops,          \* the letters that GDB sends, ASCII
    RxDepth,      \* bytes in the RX queue
    BatchMax,     \* bytes that one mqtt_transport_recv takes
    PktMax,       \* bytes of a packet that are kept
    TxDepth,      \* messages in the TX queue
    Strays,       \* bytes of other topics that may come in
    MaxCommands,  \* bound: commands of one session
    MaxFaults,    \* bound: drops, losses, repetitions, failures, early retries
    MaxCount      \* bound: what asked, sent and ran count up to

Continue == 99

ASSUME LinkAssumption ==
    /\ Ops \subseteq 97 .. 122 /\ Strays \subseteq 0 .. 255
    /\ RxDepth \in Nat \ {0} /\ BatchMax \in Nat \ {0} /\ PktMax \in Nat \ {0}
    /\ TxDepth \in Nat \ {0} /\ MaxCommands \in Nat
    /\ MaxFaults \in Nat /\ MaxCount \in Nat

VARIABLES
    gdb,            \* mode; op and number of its command; ^C is on its way;
                    \* how often each command was given
    net,            \* messages on their way to the device
    incoming,       \* what is left of the message in mqtt_event_handler
    rx,             \* s_rx_queue
    batch,          \* what is left of rx_buf
    state, pkt, cksum,
    handling,       \* the command being handled, ^C, or nothing
    s_pending_ack,
    tx,             \* s_tx_queue
    toGdb,          \* what GDB has not read
    sent, ran,      \* how often each letter was sent, and handled
    faults,
    spurious        \* a message came twice or from elsewhere, or GDB did not wait

reader == <<state, pkt, cksum>>
world  == <<sent, ran, faults, spurious>>
vars   == <<gdb, net, incoming, rx, batch, reader, handling, s_pending_ack, tx, toGdb, world>>

Dollar == 36
Hash   == 35
Intr   == 3

\* hex_val; the digits of a checksum; and the byte two digits stand for, where
\* the -1 of a character that is none spreads over the byte.
HexVal(b) ==
    CASE b \in 48 .. 57  -> b - 48
      [] b \in 97 .. 102 -> b - 87
      [] b \in 65 .. 70  -> b - 55
      [] OTHER           -> -1

HexChar(d) == IF d < 10 THEN d + 48 ELSE d + 87

Expected(hi, lo) ==
    IF lo < 0 THEN 255 ELSE IF hi < 0 THEN 240 + lo ELSE hi * 16 + lo

Checksum(p) == FoldSeq(LAMBDA b, sum : (b + sum) % 256, 0, p)

Frame(op) ==
    <<Dollar, op, Hash, HexChar(op \div 16), HexChar(op % 16)>>

Counted(count, op) == [count EXCEPT ![op] = IF @ < MaxCount THEN @ + 1 ELSE @]

\* A packet that GDB never sent counts as 0.
Letter(p) == IF Len(p) = 1 /\ p[1] \in Ops THEN p[1] ELSE 0

\* Messages to GDB: an acknowledgement, a refusal, or an answer.
Ack  == [kind |-> "+", op |-> 0, n |-> 0]
Nack == [kind |-> "-", op |-> 0, n |-> 0]
Answer(h) == [kind |-> "$", op |-> h.op, n |-> h.n]

\* What the server handles, with the number of GDB's command at that time.
Handle(op) == [op |-> op, n |-> gdb.n]
None       == [op |-> -1, n |-> 0]

Modes == {"idle", "unacked", "waiting", "running"}

TypeOK ==
    /\ gdb \in [mode : Modes, op : Ops \cup {0}, n : 0 .. MaxCommands, intr : BOOLEAN,
                asked : [Ops -> 0 .. MaxCount]]
    /\ net \in Seq(Seq(0 .. 255)) /\ incoming \in Seq(0 .. 255)
    /\ rx \in Seq(0 .. 255) /\ Len(rx) <= RxDepth
    /\ batch \in Seq(0 .. 255) /\ Len(batch) <= BatchMax
    /\ state \in {"WAIT_START", "IN_PACKET", "IN_CHECKSUM"}
    /\ Len(pkt) <= PktMax /\ Len(cksum) <= 1
    /\ handling \in [op : Ops \cup {0, Intr, -1}, n : 0 .. MaxCommands]
    /\ Len(tx) <= TxDepth
    /\ faults \in 0 .. MaxFaults

Init ==
    /\ gdb = [mode |-> "idle", op |-> 0, n |-> 0, intr |-> FALSE, asked |-> [op \in Ops |-> 0]]
    /\ net = <<>> /\ incoming = <<>> /\ rx = <<>> /\ batch = <<>>
    /\ state = "WAIT_START" /\ pkt = <<>> /\ cksum = <<>>
    /\ handling = None /\ s_pending_ack = FALSE
    /\ tx = <<>> /\ toGdb = <<>>
    /\ sent = [op \in Ops |-> 0] /\ ran = [op \in Ops \cup {0} |-> 0]
    /\ faults = 0 /\ spurious = FALSE

---------------------------------------------------------------------------
(* GDB.                                                                    *)

\* Nothing is on its way in either direction.
Quiet ==
    /\ net = <<>> /\ incoming = <<>> /\ rx = <<>> /\ batch = <<>>
    /\ handling = None /\ tx = <<>> /\ toGdb = <<>>

\* The bridge publishes what one recv gave it: a frame in one message or two.
Transmit(op) ==
    /\ \E k \in {0, 2} :
         net' = net \o (IF k = 0 THEN <<Frame(op)>>
                        ELSE <<SubSeq(Frame(op), 1, k), SubSeq(Frame(op), k + 1, 5)>>)
    /\ sent' = Counted(sent, op)

Send(op) ==
    /\ gdb.mode = "idle" /\ gdb.n < MaxCommands
    /\ gdb' = [mode |-> "unacked", op |-> op, n |-> gdb.n + 1, intr |-> FALSE,
               asked |-> Counted(gdb.asked, op)]
    /\ Transmit(op)
    /\ UNCHANGED <<incoming, rx, batch, reader, handling, s_pending_ack, tx, toGdb, ran, faults,
                   spurious>>

\* An acknowledgement that does not come; early if it still may.
TimeOut ==
    /\ gdb.mode = "unacked"
    /\ \/ Quiet /\ UNCHANGED <<faults, spurious>>
       \/ ~Quiet /\ faults < MaxFaults /\ faults' = faults + 1 /\ spurious' = TRUE
    /\ Transmit(gdb.op)
    /\ UNCHANGED <<gdb, incoming, rx, batch, reader, handling, s_pending_ack, tx, toGdb, ran>>

\* ^C, and again when the first had no effect.
Interrupt ==
    /\ gdb.mode = "running" /\ (~gdb.intr \/ Quiet)
    /\ gdb' = [gdb EXCEPT !.intr = TRUE]
    /\ net' = Append(net, <<Intr>>)
    /\ UNCHANGED <<incoming, rx, batch, reader, handling, s_pending_ack, tx, toGdb, world>>

\* Before the acknowledgement GDB passes over answers, after it over the rest.
Read ==
    /\ gdb.mode # "idle" /\ toGdb # <<>>
    /\ toGdb' = Tail(toGdb)
    /\ LET r == Head(toGdb).kind
       IN  CASE gdb.mode = "unacked" /\ r = "+" ->
                  /\ gdb' = [gdb EXCEPT !.mode = IF gdb.op = Continue THEN "running" ELSE "waiting"]
                  /\ UNCHANGED <<net, sent>>
             [] gdb.mode = "unacked" /\ r = "-" -> Transmit(gdb.op) /\ UNCHANGED gdb
             [] gdb.mode # "unacked" /\ r = "$" ->
                  gdb' = [gdb EXCEPT !.mode = "idle"] /\ UNCHANGED <<net, sent>>
             [] OTHER -> UNCHANGED <<gdb, net, sent>>
    /\ UNCHANGED <<incoming, rx, batch, reader, handling, s_pending_ack, tx, ran, faults, spurious>>

---------------------------------------------------------------------------
(* The MQTT task: mqtt_event_handler.                                      *)

\* The next message.  The broker may have lost it, or have sent it before and
\* seen no acknowledgement.
Deliver ==
    /\ incoming = <<>> /\ net # <<>>
    /\ \/ incoming' = Head(net) /\ net' = Tail(net) /\ UNCHANGED <<faults, spurious>>
       \/ /\ faults < MaxFaults /\ faults' = faults + 1
          /\ \/ incoming' = <<>> /\ net' = Tail(net) /\ UNCHANGED spurious
             \/ incoming' = Head(net) /\ UNCHANGED net /\ spurious' = TRUE
    /\ UNCHANGED <<gdb, rx, batch, reader, handling, s_pending_ack, tx, toGdb, sent, ran>>

\* A later fragment of a long message has no topic: its bytes go to the queue too.
Stray(b) ==
    /\ incoming = <<>> /\ faults < MaxFaults
    /\ incoming' = <<b>> /\ faults' = faults + 1 /\ spurious' = TRUE
    /\ UNCHANGED <<gdb, net, rx, batch, reader, handling, s_pending_ack, tx, toGdb, sent, ran>>

\* A byte is queued, or dropped when the queue is full.
Enqueue ==
    /\ incoming # <<>>
    /\ incoming' = Tail(incoming)
    /\ IF Len(rx) < RxDepth THEN rx' = Append(rx, Head(incoming)) /\ UNCHANGED faults
       ELSE faults < MaxFaults /\ faults' = faults + 1 /\ UNCHANGED rx
    /\ UNCHANGED <<gdb, net, batch, reader, handling, s_pending_ack, tx, toGdb, sent, ran, spurious>>

---------------------------------------------------------------------------
(* The server task.                                                        *)

\* mqtt_transport_recv
Receive ==
    /\ handling = None /\ batch = <<>> /\ rx # <<>>
    /\ LET n == IF Len(rx) < BatchMax THEN Len(rx) ELSE BatchMax
       IN  batch' = SubSeq(rx, 1, n) /\ rx' = SubSeq(rx, n + 1, Len(rx))
    /\ UNCHANGED <<gdb, net, incoming, reader, handling, s_pending_ack, tx, toGdb, world>>

Byte == Head(batch)

NextByte ==
    /\ handling = None /\ batch # <<>>
    /\ batch' = Tail(batch)
    /\ UNCHANGED <<gdb, net, incoming, rx, toGdb, sent, faults, spurious>>

ReadInterrupt ==
    /\ NextByte /\ Byte = Intr
    /\ handling' = Handle(Intr)
    /\ UNCHANGED <<reader, s_pending_ack, tx, ran>>

\* `+', `-' and anything else between packets is ignored.
ReadStart ==
    /\ NextByte /\ Byte # Intr
    /\ state = "WAIT_START"
    /\ IF Byte = Dollar THEN state' = "IN_PACKET" /\ pkt' = <<>> ELSE UNCHANGED <<state, pkt>>
    /\ UNCHANGED <<cksum, handling, s_pending_ack, tx, ran>>

\* `$' is a byte of the packet like any other.
ReadPayload ==
    /\ NextByte /\ Byte # Intr
    /\ state = "IN_PACKET"
    /\ IF Byte = Hash THEN state' = "IN_CHECKSUM" /\ cksum' = <<>> /\ UNCHANGED pkt
       ELSE /\ pkt' = IF Len(pkt) < PktMax THEN Append(pkt, Byte) ELSE pkt
            /\ UNCHANGED <<state, cksum>>
    /\ UNCHANGED <<handling, s_pending_ack, tx, ran>>

\* Mutant: the checksum is not compared.
SumRightAlways == TRUE

SumRight == Checksum(pkt) = Expected(HexVal(cksum[1]), HexVal(Byte))

\* Mutant: the packet is handled after the refusal.
ReadChecksumNoElse ==
    /\ NextByte /\ Byte # Intr
    /\ state = "IN_CHECKSUM"
    /\ IF cksum = <<>>
       THEN cksum' = <<Byte>> /\ UNCHANGED <<state, pkt, handling, s_pending_ack, ran, tx>>
       ELSE /\ s_pending_ack' = TRUE /\ handling' = Handle(Letter(pkt))
            /\ ran' = Counted(ran, Letter(pkt))
            /\ IF SumRight THEN UNCHANGED tx ELSE Len(tx) < TxDepth /\ tx' = Append(tx, <<Nack>>)
            /\ state' = "WAIT_START" /\ pkt' = <<>> /\ cksum' = <<>>

\* A wrong checksum is answered with `-', a right one by the handler.
ReadChecksum ==
    /\ NextByte /\ Byte # Intr
    /\ state = "IN_CHECKSUM"
    /\ IF cksum = <<>>
       THEN cksum' = <<Byte>> /\ UNCHANGED <<state, pkt, handling, s_pending_ack, ran, tx>>
       ELSE /\ IF SumRight
               THEN /\ s_pending_ack' = TRUE /\ handling' = Handle(Letter(pkt))
                    /\ ran' = Counted(ran, Letter(pkt)) /\ UNCHANGED tx
               ELSE /\ Len(tx) < TxDepth /\ tx' = Append(tx, <<Nack>>)
                    /\ UNCHANGED <<handling, s_pending_ack, ran>>
            /\ state' = "WAIT_START" /\ pkt' = <<>> /\ cksum' = <<>>

\* Mutant: c is acknowledged when its answer is.
HandlerReplyUnacked ==
    /\ handling # None /\ Len(tx) < TxDepth
    /\ handling' = None
    /\ IF handling.op = Continue
       THEN UNCHANGED <<tx, s_pending_ack>>
       ELSE /\ tx' = Append(tx, (IF s_pending_ack THEN <<Ack>> ELSE <<>>) \o <<Answer(handling)>>)
            /\ s_pending_ack' = FALSE
    /\ IF handling.op = Intr THEN state' = "WAIT_START" /\ pkt' = <<>> ELSE UNCHANGED <<state, pkt>>
    /\ UNCHANGED <<gdb, net, incoming, rx, batch, cksum, toGdb, world>>

\* The handler is done: the acknowledgement leaves in front of the answer, or
\* alone.  mqtt_transport_send waits for room in the queue.
HandlerReply ==
    /\ handling # None /\ Len(tx) < TxDepth
    /\ handling' = None
    /\ IF handling.op = Continue THEN tx' = Append(tx, <<Ack>>)
       ELSE tx' = Append(tx, (IF s_pending_ack THEN <<Ack>> ELSE <<>>) \o <<Answer(handling)>>)
    /\ s_pending_ack' = FALSE
    /\ IF handling.op = Intr THEN state' = "WAIT_START" /\ pkt' = <<>> ELSE UNCHANGED <<state, pkt>>
    /\ UNCHANGED <<gdb, net, incoming, rx, batch, cksum, toGdb, world>>

---------------------------------------------------------------------------
\* mqtt_tx_task; the result of the publish is logged and nothing more.
Publish ==
    /\ tx # <<>>
    /\ tx' = Tail(tx)
    /\ \/ toGdb' = toGdb \o Head(tx) /\ UNCHANGED faults
       \/ faults < MaxFaults /\ faults' = faults + 1 /\ UNCHANGED toGdb
    /\ UNCHANGED <<gdb, net, incoming, rx, batch, reader, handling, s_pending_ack, sent, ran, spurious>>

ServerTask == Receive \/ ReadInterrupt \/ ReadStart \/ ReadPayload \/ ReadChecksum \/ HandlerReply
Client     == Read \/ (TimeOut /\ Quiet) \/ Interrupt

Next ==
    \/ \E op \in Ops : Send(op)
    \/ TimeOut \/ Interrupt \/ Read
    \/ Deliver \/ Enqueue \/ \E b \in Strays : Stray(b)
    \/ ServerTask
    \/ Publish

Spec == Init /\ [][Next]_vars

\* The tasks are scheduled and block on their queues only; the broker delivers
\* what it has; GDB reads what comes, and tries again when nothing does.
FairSpec ==
    /\ Spec
    /\ WF_vars(ServerTask) /\ WF_vars(Enqueue) /\ WF_vars(Deliver) /\ WF_vars(Publish)
    /\ WF_vars(Client)
---------------------------------------------------------------------------
(* Properties.                                                             *)

\* Whatever is dropped, repeated, cut or mixed in, a packet is handled only if
\* GDB sent it, and not more often than it went over the network or was repeated.
OnlySentPacketsRun ==
    /\ ran[0] = 0
    /\ \A op \in Ops : ran[op] <= sent[op] + (IF spurious THEN faults ELSE 0)

\* No queue or buffer of the link holds more than its size, and what comes out of
\* the reader was put in by GDB.
LinkIsSound == TypeOK /\ OnlySentPacketsRun

\* Over a sound link no command is sent twice, although its handler may take as
\* long as it likes before the acknowledgement leaves, and each runs once.
SoundLinkRunsOnce ==
    faults = 0 =>
      /\ sent = gdb.asked
      /\ gdb.mode = "idle" => \A op \in Ops : ran[op] = gdb.asked[op]

\* GDB never takes an old answer for a new command, as long as no message comes
\* twice or from another topic and GDB waits until nothing more can come: what is
\* lost or dropped, on either way, then costs time only.
AnswersAreFresh ==
    [][/\ gdb.mode \in {"waiting", "running"} /\ gdb'.mode = "idle" /\ ~spurious
       => toGdb # <<>> /\ Head(toGdb).n = gdb.n]_vars

\* Once the link is sound again GDB gets its prompt back: no damage leaves the
\* reader in a state that swallows every later packet.
GdbGetsItsPrompt == gdb.mode # "idle" ~> gdb.mode = "idle"
=============================================================================
