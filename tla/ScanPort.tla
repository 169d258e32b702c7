------------------------------ MODULE ScanPort ------------------------------
(***************************************************************************)
(* What the callers of a JTAG driver rely on, seen from the registers of   *)
(* the part: a scan captures its own register once, shifts exactly its     *)
(* bits through it and updates it once; no other register is touched, and  *)
(* the part is reset by a reset and by nothing else, so that the           *)
(* instruction stays from scan to scan.  The clocks are not said here.     *)
(***************************************************************************)
EXTENDS Naturals

CONSTANT MaxBits

VARIABLES
    known,     \* the port has been reset since the driver was initialised
    asked,     \* the call in progress: "none", "reset", "idle", or a register
    port,      \* what the port does, and to which register
    due        \* data bits of the scan that are still to come

vars == <<known, asked, port, due>>

Register == {"DR", "IR"}
Does(r)  == {<<"capture", r>>, <<"shift", r>>, <<"exit", r>>, <<"pause", r>>, <<"update", r>>}

InReset == <<"reset", "none">>
Quiet   == <<"quiet", "none">>
Port    == {InReset, Quiet} \cup UNION {Does(r) : r \in Register}

Init == known = FALSE /\ asked = "none" /\ port \in Port /\ due = 0

Ask ==
    /\ asked = "none" /\ asked' \in {"reset", "idle"} \cup Register
    /\ UNCHANGED <<port, due>>

\* The port leaves reset, or what the last scan has updated.
Rest ==
    /\ asked # "none" /\ port \in {InReset} \cup {<<"update", r>> : r \in Register}
    /\ port' = Quiet
    /\ asked' = (IF asked = "idle" THEN "none" ELSE asked)
    /\ UNCHANGED due

\* Further clocks with the port in reset leave it there until the call returns.
Reset ==
    /\ asked = "reset" /\ asked' \in {"none", "reset"}
    /\ port' = InReset
    /\ UNCHANGED due

Capture(r) ==
    /\ asked = r /\ port = Quiet
    /\ port' = <<"capture", r>>
    /\ UNCHANGED <<asked, due>>

Open(r) ==
    /\ asked = r /\ port = <<"capture", r>>
    /\ port' = <<"shift", r>> /\ due' \in 1 .. MaxBits
    /\ UNCHANGED asked

Bit(r) ==
    /\ asked = r /\ port = <<"shift", r>>
    /\ due' = due - 1
    /\ port' = (IF due = 1 THEN <<"exit", r>> ELSE port)
    /\ UNCHANGED asked

Update(r) ==
    /\ asked = r /\ port = <<"exit", r>>
    /\ port' = <<"update", r>> /\ asked' = "none"
    /\ UNCHANGED due

Scan(r) == Capture(r) \/ Open(r) \/ Bit(r) \/ Update(r)

\* Initialised again between two calls, the port is anywhere until a reset ends.
Lose    == known /\ known' = FALSE /\ asked = "none" /\ UNCHANGED <<asked, port, due>>
Unknown == ~known /\ known' = FALSE
Found   == ~known /\ known' = TRUE /\ asked' = "none" /\ port' = InReset /\ due' = 0

Next ==
    \/ known /\ (Ask \/ Rest \/ Reset \/ \E r \in Register : Scan(r)) /\ UNCHANGED known
    \/ Lose \/ Unknown \/ Found

Spec == Init /\ [][Next]_vars
=============================================================================
