------------------------------- MODULE JtagTap -------------------------------
(***************************************************************************)
(* The bit-banged JTAG transport (jtag_bitbang.c): the TAP controller of   *)
(* the part on the cable, and s_state, the driver's idea of where that     *)
(* controller is.  Nothing reads the controller back: if the two part, a   *)
(* scan shifts into the wrong register.                                    *)
(* A step is one clock.  A call that riscv_dm.c or ecp5_jtag.c has made is *)
(* known by where it is (pc), by the clocks left there (left), and by the  *)
(* register it scans (reg); the TDI and TDO bits are left out.             *)
(***************************************************************************)
EXTENDS Naturals

CONSTANT MaxBits    \* the longest scan

ASSUME MaxBitsAssumption == MaxBits \in Nat \ {0}

TapState ==
    {"RESET", "IDLE",
     "SELECT_DR", "CAPTURE_DR", "SHIFT_DR", "EXIT1_DR", "PAUSE_DR", "EXIT2_DR", "UPDATE_DR",
     "SELECT_IR", "CAPTURE_IR", "SHIFT_IR", "EXIT1_IR", "PAUSE_IR", "EXIT2_IR", "UPDATE_IR"}

VARIABLES
    tap,       \* the controller
    s_state,
    driven,    \* jtag_init has made TCK and TMS outputs
    fresh,     \* the caller's last call was jtag_init
    pc, left,  \* the place in the code, and the clocks or data bits left there
    reg        \* the register that the call in progress scans, or "none"

vars == <<tap, s_state, driven, fresh, pc, left, reg>>

Place == {"idle", "reset", "leave", "settle", "enter", "shift", "update"}

TypeOK ==
    /\ tap \in TapState /\ s_state \in TapState
    /\ driven \in BOOLEAN /\ fresh \in BOOLEAN
    /\ pc \in Place /\ left \in 0 .. MaxBits + 9
    /\ reg \in {"none", "DR", "IR"}

\* The TAP controller of IEEE 1149.1, as in next_state.
WithTmsLow ==
    [t \in TapState |->
       CASE t \in {"RESET", "IDLE", "UPDATE_DR", "UPDATE_IR"}  -> "IDLE"
         [] t = "SELECT_DR"                                   -> "CAPTURE_DR"
         [] t \in {"CAPTURE_DR", "SHIFT_DR", "EXIT2_DR"}      -> "SHIFT_DR"
         [] t \in {"EXIT1_DR", "PAUSE_DR"}                    -> "PAUSE_DR"
         [] t = "SELECT_IR"                                   -> "CAPTURE_IR"
         [] t \in {"CAPTURE_IR", "SHIFT_IR", "EXIT2_IR"}      -> "SHIFT_IR"
         [] OTHER                                             -> "PAUSE_IR"]

WithTmsHigh ==
    [t \in TapState |->
       CASE t \in {"IDLE", "UPDATE_DR", "UPDATE_IR"} -> "SELECT_DR"
         [] t \in {"CAPTURE_DR", "SHIFT_DR"}         -> "EXIT1_DR"
         [] t \in {"EXIT1_DR", "EXIT2_DR"}           -> "UPDATE_DR"
         [] t = "PAUSE_DR"                           -> "EXIT2_DR"
         [] t = "SELECT_DR"                          -> "SELECT_IR"
         [] t \in {"CAPTURE_IR", "SHIFT_IR"}         -> "EXIT1_IR"
         [] t \in {"EXIT1_IR", "EXIT2_IR"}           -> "UPDATE_IR"
         [] t = "PAUSE_IR"                           -> "EXIT2_IR"
         [] OTHER                                    -> "RESET"]

NextState(t, tms) == IF tms THEN WithTmsHigh[t] ELSE WithTmsLow[t]

\* Before jtag_init the pins are inputs and no clock reaches the controller.
Clock(tms)    == tap' = IF driven THEN NextState(tap, tms) ELSE tap
Navigate(tms) == s_state' = NextState(s_state, tms)

\* Power-on: the controller is wherever the last session left it.
Init ==
    /\ tap \in TapState
    /\ s_state = "RESET"
    /\ driven = FALSE /\ fresh = FALSE
    /\ pc = "idle" /\ left = 0 /\ reg = "none"

---------------------------------------------------------------------------
(* The calls.                                                              *)

JtagInit ==
    /\ pc = "idle"
    /\ s_state' = "RESET" /\ driven' = TRUE /\ fresh' = TRUE
    /\ UNCHANGED <<tap, pc, left, reg>>

JtagReset ==
    /\ pc = "idle"
    /\ pc' = "reset" /\ left' = 5
    /\ UNCHANGED <<tap, s_state, driven, fresh, reg>>

\* Both callers reset the controller between jtag_init and jtag_goto_idle.
JtagGotoIdle ==
    /\ pc = "idle" /\ ~fresh /\ s_state = "RESET"
    /\ pc' = "leave"
    /\ UNCHANGED <<tap, s_state, driven, fresh, left, reg>>

\* jtag_shift_ir and jtag_shift_dr: a state that goto_shift_* has no case for
\* is left by a reset.  left' counts clocks from there.
JtagShift(r) ==
    /\ pc = "idle" /\ ~fresh
    /\ reg' = r
    /\ CASE s_state = "IDLE" -> pc' = "enter" /\ left' = 1
         [] s_state \in {"UPDATE_DR", "UPDATE_IR"} /\ r = "IR" -> pc' = "enter" /\ left' = 1
         [] s_state \in {"UPDATE_DR", "UPDATE_IR"} /\ r = "DR" -> pc' = "settle" /\ left' = 9
         [] OTHER -> pc' = "reset" /\ left' = 5
    /\ UNCHANGED <<tap, s_state, driven, fresh>>

---------------------------------------------------------------------------
(* The clocks.                                                             *)

\* Mutant: four clocks are sent.
ResetShort ==
    /\ pc = "reset"
    /\ Clock(TRUE)
    /\ left' = left - 1
    /\ IF left > 2 THEN UNCHANGED <<pc, s_state, fresh>>
       ELSE /\ s_state' = "RESET" /\ fresh' = FALSE
            /\ pc' = IF reg = "none" THEN "idle" ELSE "leave"
    /\ UNCHANGED <<driven, reg>>

\* Within a scan the reset is followed by jtag_goto_idle.
Reset ==
    /\ pc = "reset"
    /\ Clock(TRUE)
    /\ left' = left - 1
    /\ IF left > 1 THEN UNCHANGED <<pc, s_state, fresh>>
       ELSE /\ s_state' = "RESET" /\ fresh' = FALSE
            /\ pc' = IF reg = "none" THEN "idle" ELSE "leave"
    /\ UNCHANGED <<driven, reg>>

Leave ==
    /\ pc = "leave"
    /\ Clock(FALSE)
    /\ s_state' = "IDLE"
    /\ pc' = IF reg = "none" THEN "idle" ELSE "enter"
    /\ left' = 1
    /\ UNCHANGED <<driven, fresh, reg>>

\* Update -> Idle, then eight clocks for the clock domain crossing.
Settle ==
    /\ pc = "settle"
    /\ Clock(FALSE)
    /\ IF left = 9 THEN Navigate(FALSE) ELSE UNCHANGED s_state
    /\ IF left > 1 THEN left' = left - 1 /\ pc' = pc ELSE left' = 1 /\ pc' = "enter"
    /\ UNCHANGED <<driven, fresh, reg>>

\* The clocks from Idle or Update to Shift, and TMS at the k-th of them: high to
\* SELECT_DR and, for IR, to SELECT_IR.
PathLength(r) == IF r = "DR" THEN 3 ELSE 4
PathTms(r, k) == k = 1 \/ (k = 2 /\ r = "IR")

\* left counts up along the path; the scan that follows has 1 to MaxBits bits.
Enter ==
    /\ pc = "enter"
    /\ Clock(PathTms(reg, left)) /\ Navigate(PathTms(reg, left))
    /\ IF left < PathLength(reg) THEN left' = left + 1 /\ pc' = pc
       ELSE left' \in 1 .. MaxBits /\ pc' = "shift"
    /\ UNCHANGED <<driven, fresh, reg>>

\* Mutant: TMS rises with the last bit but one.
ShiftEndsEarly ==
    /\ pc = "shift"
    /\ Clock(left <= 2)
    /\ IF left > 1 THEN UNCHANGED <<s_state, pc>> ELSE Navigate(TRUE) /\ pc' = "update"
    /\ left' = left - 1
    /\ UNCHANGED <<driven, fresh, reg>>

\* s_state follows at the last bit only, which is clocked with TMS high.
Shift ==
    /\ pc = "shift"
    /\ Clock(left = 1)
    /\ IF left > 1 THEN UNCHANGED <<s_state, pc>> ELSE Navigate(TRUE) /\ pc' = "update"
    /\ left' = left - 1
    /\ UNCHANGED <<driven, fresh, reg>>

Update ==
    /\ pc = "update"
    /\ Clock(TRUE) /\ Navigate(TRUE)
    /\ pc' = "idle" /\ reg' = "none"
    /\ UNCHANGED <<driven, fresh, left>>

Next ==
    \/ JtagInit \/ JtagReset \/ JtagGotoIdle \/ JtagShift("DR") \/ JtagShift("IR")
    \/ Reset \/ Leave \/ Settle \/ Enter \/ Shift \/ Update

Spec == Init /\ [][Next]_vars
---------------------------------------------------------------------------
(* Properties.                                                             *)

\* Between two calls the driver knows where the controller is; s_state = RESET
\* is a guess only until the first jtag_reset after jtag_init.
DriverInStep == driven /\ ~fresh /\ pc = "idle" => tap = s_state

---------------------------------------------------------------------------
(* The port that the calls promise.                                        *)

\* What the controller does in a state to the part's registers.
PortOf ==
    [t \in TapState |->
       CASE t = "RESET"                               -> <<"reset", "none">>
         [] t \in {"IDLE", "SELECT_DR", "SELECT_IR"}  -> <<"quiet", "none">>
         [] t = "CAPTURE_DR"                          -> <<"capture", "DR">>
         [] t = "SHIFT_DR"                            -> <<"shift", "DR">>
         [] t = "EXIT1_DR"                            -> <<"exit", "DR">>
         [] t \in {"PAUSE_DR", "EXIT2_DR"}            -> <<"pause", "DR">>
         [] t = "UPDATE_DR"                           -> <<"update", "DR">>
         [] t = "CAPTURE_IR"                          -> <<"capture", "IR">>
         [] t = "SHIFT_IR"                            -> <<"shift", "IR">>
         [] t = "EXIT1_IR"                            -> <<"exit", "IR">>
         [] t \in {"PAUSE_IR", "EXIT2_IR"}            -> <<"pause", "IR">>
         [] OTHER                                     -> <<"update", "IR">>]

\* The call in progress, and the bits that are due once the shift state is entered.
Asked ==
    CASE reg # "none"                  -> reg
      [] reg = "none" /\ pc = "reset"  -> "reset"
      [] reg = "none" /\ pc = "leave"  -> "idle"
      [] OTHER                         -> "none"

Due == IF pc = "shift" THEN left ELSE 0

\* Once the first reset after jtag_init has ended, every scan captures, shifts and
\* updates its own register and no other, bit for bit, whatever calls came before
\* it, and nothing but jtag_reset takes the instruction from the part.
Promised == INSTANCE ScanPort
    WITH known <- driven /\ ~fresh, asked <- Asked, port <- PortOf[tap], due <- Due
ImplementsScanPort == Promised!Spec
=============================================================================
