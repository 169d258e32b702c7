--------------------------- MODULE JtagTapProofs ---------------------------
(***************************************************************************)
(* The properties of JtagTap for scans of every length.                    *)
(***************************************************************************)
EXTENDS JtagTap, TLAPS

\* The clocks with TMS high that lead from t to RESET.
Distance(t) ==
    CASE t = "RESET"                                                        -> 0
      [] t = "SELECT_IR"                                                    -> 1
      [] t = "SELECT_DR"                                                    -> 2
      [] t \in {"IDLE", "UPDATE_DR", "UPDATE_IR"}                           -> 3
      [] t \in {"EXIT1_DR", "EXIT2_DR", "EXIT1_IR", "EXIT2_IR"}             -> 4
      [] OTHER                                                              -> 5

Resting == {"RESET", "IDLE", "UPDATE_DR", "UPDATE_IR"}
Tracked == driven => tap = s_state

\* Where s_state is after left - 1 clocks of the path to the shift state.
OnPath ==
    /\ left = 1 => s_state \in {"IDLE", "UPDATE_DR", "UPDATE_IR"}
    /\ left = 2 => s_state = "SELECT_DR"
    /\ left = 3 => s_state = (IF reg = "DR" THEN "CAPTURE_DR" ELSE "SELECT_IR")
    /\ left = 4 => s_state = "CAPTURE_IR"

AtRest   == pc = "idle" => /\ reg = "none" /\ s_state \in Resting
                           /\ fresh => s_state = "RESET"
                           /\ ~fresh => Tracked
InReset  == pc = "reset" => /\ left \in 1 .. 5 /\ s_state \in Resting
                            /\ driven => Distance(tap) <= left
                            /\ driven /\ ~fresh => Distance(tap) <= 3
                            /\ driven /\ reg # "none" => tap = "RESET"
                            /\ fresh => reg = "none"
InLeave  == pc = "leave" => s_state = "RESET" /\ ~fresh /\ Tracked
InSettle == pc = "settle" => /\ reg = "DR" /\ left \in 1 .. 9 /\ ~fresh /\ Tracked
                             /\ left = 9 => s_state \in {"UPDATE_DR", "UPDATE_IR"}
                             /\ left < 9 => s_state = "IDLE"
InEnter  == pc = "enter" => /\ reg \in {"DR", "IR"} /\ ~fresh /\ Tracked /\ OnPath
                            /\ left \in 1 .. PathLength(reg)
InShift  == pc = "shift" => /\ reg \in {"DR", "IR"} /\ ~fresh /\ Tracked
                            /\ left \in 1 .. MaxBits
                            /\ s_state = (IF reg = "DR" THEN "SHIFT_DR" ELSE "SHIFT_IR")
InUpdate == pc = "update" => /\ reg \in {"DR", "IR"} /\ ~fresh /\ Tracked
                             /\ s_state = (IF reg = "DR" THEN "EXIT1_DR" ELSE "EXIT1_IR")

\* The inductive invariant: what each place in the code knows.
IInv ==
    /\ TypeOK
    /\ fresh => driven
    /\ AtRest /\ InReset /\ InLeave /\ InSettle /\ InEnter /\ InShift /\ InUpdate

\* From every state, a clock with TMS high brings the controller nearer to
\* RESET, so that the five of jtag_reset reach it wherever they start.
LEMMA HighLeadsToReset ==
    ASSUME NEW t \in TapState
    PROVE  /\ WithTmsHigh[t] \in TapState
           /\ Distance(t) \in 0 .. 5
           /\ Distance(t) = 0 => t = "RESET" /\ WithTmsHigh[t] = "RESET"
           /\ Distance(t) # 0 => Distance(WithTmsHigh[t]) = Distance(t) - 1
BY DEF WithTmsHigh, TapState, Distance

\* The table never leaves the controller's sixteen states.
LEMMA NextStateType ==
    ASSUME NEW t \in TapState, NEW tms \in BOOLEAN
    PROVE  NextState(t, tms) \in TapState
<1>1. WithTmsHigh[t] \in TapState
  BY HighLeadsToReset
<1>2. WithTmsLow[t] \in TapState
  BY DEF WithTmsLow, TapState
<1> QED
  BY <1>1, <1>2 DEF NextState

\* Power-on satisfies the invariant: no clock reaches the controller yet.
LEMMA InitIInv == Init => IInv
<1> SUFFICES ASSUME Init PROVE IInv
  OBVIOUS
<1>1. TypeOK
  <2>1. left \in 0 .. MaxBits + 9
    BY MaxBitsAssumption DEF Init
  <2>2. tap \in TapState /\ s_state \in TapState /\ pc \in Place /\ reg \in {"none", "DR", "IR"}
    BY DEF Init, TapState, Place
  <2>3. driven \in BOOLEAN /\ fresh \in BOOLEAN
    BY DEF Init
  <2> QED
    BY <2>1, <2>2, <2>3 DEF TypeOK
<1>2. fresh => driven
  BY DEF Init
<1>3. AtRest /\ InReset /\ InLeave /\ InSettle
  BY DEF Init, AtRest, InReset, InLeave, InSettle, Tracked, Resting
<1>4. InEnter /\ InShift /\ InUpdate
  BY DEF Init, InEnter, InShift, InUpdate
<1> QED
  BY <1>1, <1>2, <1>3, <1>4 DEF IInv

\* Every call and every clock preserves the invariant.
LEMMA StepIInv == IInv /\ [Next]_vars => IInv'
<1> USE DEF Place, PathLength
<1> SUFFICES ASSUME IInv, [Next]_vars PROVE IInv'
  OBVIOUS
<1>t. /\ tap \in TapState /\ s_state \in TapState /\ left \in Nat /\ MaxBits \in Nat
      /\ driven \in BOOLEAN /\ fresh \in BOOLEAN /\ pc \in Place
      /\ reg \in {"none", "DR", "IR"}
  BY MaxBitsAssumption DEF IInv, TypeOK
<1>c. ASSUME NEW tms \in BOOLEAN, Clock(tms) PROVE tap' \in TapState
  BY <1>t, <1>c, NextStateType DEF Clock
<1>n. ASSUME NEW tms \in BOOLEAN, Navigate(tms) PROVE s_state' \in TapState
  BY <1>t, <1>n, NextStateType DEF Navigate
<1>1. CASE JtagInit
  BY <1>1, <1>t DEF JtagInit, IInv, TypeOK, AtRest, InReset, InLeave, InSettle,
        InEnter, InShift, InUpdate, Tracked, Resting, TapState
<1>2. CASE JtagReset
  BY <1>2, <1>t, HighLeadsToReset DEF JtagReset, IInv, TypeOK, AtRest, InReset, InLeave, InSettle,
        InEnter, InShift, InUpdate, Tracked, Resting, Distance
<1>3. CASE JtagGotoIdle
  BY <1>3, <1>t DEF JtagGotoIdle, IInv, TypeOK, AtRest, InReset, InLeave, InSettle,
        InEnter, InShift, InUpdate, Tracked, Resting
<1>4. CASE JtagShift("DR")
  BY <1>4, <1>t, HighLeadsToReset DEF JtagShift, IInv, TypeOK, AtRest, InReset, InLeave, InSettle,
        InEnter, InShift, InUpdate, Tracked, Resting, Distance, OnPath
<1>5. CASE JtagShift("IR")
  BY <1>5, <1>t, HighLeadsToReset DEF JtagShift, IInv, TypeOK, AtRest, InReset, InLeave, InSettle,
        InEnter, InShift, InUpdate, Tracked, Resting, Distance, OnPath
<1>6. CASE Reset
  <2>1. /\ left \in 1 .. 5 /\ s_state \in Resting /\ (fresh => driven /\ reg = "none")
        /\ driven => Distance(tap) <= left
        /\ driven /\ ~fresh => Distance(tap) <= 3
        /\ driven /\ reg # "none" => tap = "RESET"
    BY <1>6 DEF Reset, IInv, InReset
  <2>2. driven => tap' = WithTmsHigh[tap]
    BY <1>6 DEF Reset, Clock, NextState
  <2>3. /\ Distance(tap) \in 0 .. 5 /\ WithTmsHigh[tap] \in TapState
        /\ Distance(tap) = 0 => tap = "RESET" /\ WithTmsHigh[tap] = "RESET"
        /\ Distance(tap) # 0 => Distance(WithTmsHigh[tap]) = Distance(tap) - 1
    BY <1>t, HighLeadsToReset
  <2>4. "RESET" \in TapState /\ Distance("RESET") = 0 /\ "RESET" \in Resting
    BY DEF TapState, Distance, Resting
  <2>5. tap' \in TapState
    BY <1>6, <1>c DEF Reset
  <2>6. CASE left > 1
    <3>1. driven => Distance(tap') <= left - 1
      BY <2>1, <2>2, <2>3, <2>4, <2>6
    <3>2. driven /\ ~fresh => Distance(tap') <= 3
      BY <2>1, <2>2, <2>3, <2>4
    <3>3. driven /\ reg # "none" => tap' = "RESET"
      BY <2>1, <2>2, <2>3, <2>4
    <3> QED
      BY <1>6, <1>t, <2>1, <2>5, <2>6, <3>1, <3>2, <3>3
      DEF Reset, IInv, TypeOK, AtRest, InReset, InLeave, InSettle, InEnter, InShift, InUpdate
  <2>7. CASE ~(left > 1)
    <3>1. driven => Distance(tap) <= 1
      BY <2>1, <2>7
    <3>2. driven => Distance(tap') = 0 /\ tap' \in TapState
      BY <2>2, <2>3, <2>4, <3>1
    <3>3. driven => tap' = "RESET"
      BY <3>2, HighLeadsToReset
    <3>4. /\ s_state' = "RESET" /\ ~fresh' /\ fresh' \in BOOLEAN /\ driven' = driven /\ reg' = reg
          /\ left' = left - 1 /\ pc' = IF reg = "none" THEN "idle" ELSE "leave"
      BY <1>6, <2>7 DEF Reset
    <3> QED
      BY <1>t, <2>1, <2>4, <2>5, <2>7, <3>3, <3>4
      DEF IInv, TypeOK, AtRest, InReset, InLeave, InSettle, InEnter, InShift, InUpdate,
          Tracked
  <2> QED
    BY <2>6, <2>7
<1>7. CASE Leave
  BY <1>7, <1>t, <1>c DEF Leave, Clock, NextState, WithTmsLow, IInv, TypeOK, AtRest, InReset, InLeave, InSettle,
        InEnter, InShift, InUpdate, Tracked, Resting, OnPath, TapState
<1>8. CASE Settle
  BY <1>8, <1>t, <1>c, <1>n DEF Settle, Clock, Navigate, NextState, WithTmsLow, IInv, TypeOK, AtRest, InReset, InLeave, InSettle,
        InEnter, InShift, InUpdate, Tracked, OnPath, TapState
<1>9. CASE Enter
  <2>1. /\ reg \in {"DR", "IR"} /\ ~fresh /\ Tracked /\ OnPath /\ pc = "enter"
        /\ left \in 1 .. PathLength(reg)
    BY <1>9 DEF Enter, IInv, InEnter
  <2> DEFINE tms == PathTms(reg, left)
  <2>4. tms \in BOOLEAN
    BY DEF PathTms
  <2>5. tap' \in TapState /\ s_state' \in TapState
    BY <1>9, <1>c, <1>n, <2>4 DEF Enter
  <2>6. s_state' = NextState(s_state, tms)
    BY <1>9 DEF Enter, Navigate
  <2>7. Tracked'
    BY <1>9, <2>1, <2>6 DEF Enter, Clock, Tracked
  <2> HIDE DEF tms
  <2>8. CASE left < PathLength(reg)
    <3>1. left' = left + 1 /\ pc' = "enter" /\ UNCHANGED <<driven, fresh, reg>>
      BY <1>9, <2>1, <2>8 DEF Enter
    <3>2. OnPath'
      BY <2>1, <2>6, <2>8, <3>1
      DEF OnPath, NextState, WithTmsHigh, WithTmsLow, TapState, tms, PathTms
    <3> QED
      BY <1>t, <2>1, <2>5, <2>7, <2>8, <3>1, <3>2
      DEF IInv, TypeOK, AtRest, InReset, InLeave, InSettle, InEnter, InShift, InUpdate
  <2>9. CASE left = PathLength(reg)
    <3>1. left' \in 1 .. MaxBits /\ pc' = "shift" /\ UNCHANGED <<driven, fresh, reg>>
      BY <1>9, <2>1, <2>9 DEF Enter
    <3>2. s_state' = (IF reg = "DR" THEN "SHIFT_DR" ELSE "SHIFT_IR")
      BY <2>1, <2>6, <2>9
      DEF OnPath, NextState, WithTmsLow, TapState, tms, PathTms
    <3> QED
      BY <1>t, <2>1, <2>5, <2>7, <3>1, <3>2
      DEF IInv, TypeOK, AtRest, InReset, InLeave, InSettle, InEnter, InShift, InUpdate
  <2> QED
    BY <2>1, <2>8, <2>9
<1>10. CASE Shift
  BY <1>10, <1>t, <1>c, <1>n DEF Shift, Clock, Navigate, NextState, WithTmsLow, WithTmsHigh, IInv, TypeOK, AtRest, InReset, InLeave, InSettle,
        InEnter, InShift, InUpdate, Tracked, TapState
<1>11. CASE Update
  BY <1>11, <1>t, <1>c, <1>n DEF Update, Clock, Navigate, NextState, WithTmsHigh, IInv, TypeOK, AtRest, InReset, InLeave, InSettle,
        InEnter, InShift, InUpdate, Tracked, Resting, TapState
<1>12. CASE UNCHANGED vars
  BY <1>12 DEF vars, IInv, TypeOK, AtRest, InReset, InLeave, InSettle,
        InEnter, InShift, InUpdate, Tracked, Resting, OnPath
<1> QED
  BY <1>1, <1>2, <1>3, <1>4, <1>5, <1>6, <1>7, <1>8, <1>9, <1>10, <1>11, <1>12 DEF Next

\* Wherever power-on leaves the controller, what the code knows at each place
\* holds throughout, for scans of every length.
THEOREM Invariance == Spec => []IInv
<1>1. Init => IInv
  BY InitIInv
<1>2. IInv /\ [Next]_vars => IInv'
  BY StepIInv
<1> QED
  BY <1>1, <1>2, PTL DEF Spec

\* Type correctness: clocks that are left to a call never run out below zero nor
\* above the longest scan and its settling.
THEOREM TypeCorrectness == Spec => []TypeOK
<1>1. IInv => TypeOK
  BY DEF IInv
<1> QED
  BY <1>1, Invariance, PTL

\* Between two calls s_state is the state of the controller: riscv_dm.c and
\* ecp5_jtag.c never start a scan from a state they only believe in.
THEOREM DriverStaysInStep == Spec => []DriverInStep
<1>1. IInv => DriverInStep
  BY DEF IInv, AtRest, Tracked, DriverInStep
<1> QED
  BY <1>1, Invariance, PTL

\* Power-on: the port is unknown.
LEMMA PortUnknownAtFirst == IInv /\ Init => Promised!Init
<1> SUFFICES ASSUME IInv, Init PROVE Promised!Init
  OBVIOUS
<1>1. PortOf[tap] \in Promised!Port
  BY DEF IInv, TypeOK, TapState, PortOf, Promised!Port, Promised!Does, Promised!Register,
         Promised!InReset, Promised!Quiet
<1> QED
  BY <1>1 DEF Init, Asked, Due, Promised!Init

\* Every call and every clock is a step of the promised port, or none of it.
LEMMA PortStep == IInv /\ [Next]_vars => [Promised!Next]_(Promised!vars)
<1> SUFFICES ASSUME IInv, [Next]_vars PROVE [Promised!Next]_(Promised!vars)
  OBVIOUS
<1> DEFINE Known == driven /\ ~fresh
           Port  == PortOf[tap]
<1>t. /\ tap \in TapState /\ s_state \in TapState /\ left \in Nat
      /\ driven \in BOOLEAN /\ fresh \in BOOLEAN /\ (fresh => driven) /\ pc \in Place
      /\ reg \in {"none", "DR", "IR"}
  BY MaxBitsAssumption DEF IInv, TypeOK
\* Nothing is promised before the first reset after jtag_init has ended.
<1>u. ASSUME ~Known, ~Known' PROVE Promised!Next
  BY <1>u DEF Promised!Next, Promised!Unknown
<1>a. CASE UNCHANGED vars
  BY <1>a DEF vars, Promised!vars, Asked, Due
<1>1. CASE JtagInit
  <2>1. ~Known'
    BY <1>1 DEF JtagInit
  <2>2. CASE Known
    <3>1. Asked = "none" /\ UNCHANGED <<Asked, Port, Due>>
      BY <1>1 DEF JtagInit, IInv, AtRest, Asked, Due
    <3> QED
      BY <2>1, <2>2, <3>1 DEF Promised!Next, Promised!Lose
  <2> QED
    BY <1>u, <2>1, <2>2
<1>2. CASE JtagReset \/ JtagGotoIdle \/ JtagShift("DR") \/ JtagShift("IR")
  <2>1. UNCHANGED <<Known, Port>>
    BY <1>2 DEF JtagReset, JtagGotoIdle, JtagShift
  <2>2. Due = 0 /\ Due' = 0 /\ Asked = "none"
    BY <1>2 DEF JtagReset, JtagGotoIdle, JtagShift, IInv, AtRest, Asked, Due
  <2>3. Asked' \in {"reset", "idle", "DR", "IR"}
    BY <1>2 DEF JtagReset, JtagGotoIdle, JtagShift, IInv, AtRest, Asked
  <2>4. Promised!Ask
    BY <2>1, <2>2, <2>3 DEF Promised!Ask, Promised!Register
  <2> QED
    BY <1>u, <2>1, <2>4 DEF Promised!Next
<1>3. ASSUME NEW tms \in BOOLEAN, Clock(tms), Known PROVE tap' = NextState(tap, tms)
  BY <1>3 DEF Clock
<1>4. CASE Reset
  <2>1. /\ pc = "reset" /\ driven' = driven /\ reg' = reg /\ (fresh => reg = "none")
        /\ left' = left - 1 /\ Due = 0 /\ left \in 1 .. 5
        /\ (driven => Distance(tap) <= left) /\ (Known => Distance(tap) <= 3)
        /\ Clock(TRUE)
    BY <1>4 DEF Reset, IInv, InReset, Due
  <2>2. driven => tap' = WithTmsHigh[tap]
    BY <2>1 DEF Clock, NextState
  <2>3. CASE left > 1
    <3>1. pc' = "reset" /\ Known' = Known /\ Due' = 0 /\ Asked' = Asked
      BY <1>4, <2>1, <2>3 DEF Reset, Due, Asked
    <3>2. CASE Known /\ reg # "none"
      <4>1. tap = "RESET" /\ tap' = "RESET"
        BY <2>1, <2>2, <3>2 DEF IInv, InReset, WithTmsHigh, TapState
      <4> QED
        BY <2>1, <3>1, <4>1 DEF Promised!vars
    <3>3. CASE Known /\ reg = "none"
      <4>1. Asked = "reset"
        BY <2>1, <3>3 DEF Asked
      <4>2. tap \in {"RESET", "SELECT_IR", "SELECT_DR", "IDLE", "UPDATE_DR", "UPDATE_IR"}
        BY <1>t, <2>1, <3>3 DEF Distance, TapState
      <4>3. CASE tap \in {"RESET", "SELECT_IR"}
        <5>1. Port' = <<"reset", "none">>
          BY <2>2, <3>3, <4>3 DEF PortOf, WithTmsHigh, TapState
        <5> QED
          BY <2>1, <3>1, <3>3, <4>1, <5>1 DEF Promised!Next, Promised!Reset, Promised!InReset
      <4>4. CASE tap \in {"SELECT_DR", "IDLE"}
        <5>1. Port' = Port
          BY <2>2, <3>3, <4>4 DEF PortOf, WithTmsHigh, TapState
        <5> QED
          BY <2>1, <3>1, <5>1 DEF Promised!vars
      <4>5. CASE tap \in {"UPDATE_DR", "UPDATE_IR"}
        <5>1. Port \in {<<"update", "DR">>, <<"update", "IR">>} /\ Port' = <<"quiet", "none">>
          BY <2>2, <3>3, <4>5 DEF PortOf, WithTmsHigh, TapState
        <5> QED
          BY <2>1, <3>1, <3>3, <4>1, <5>1
          DEF Promised!Next, Promised!Rest, Promised!Quiet, Promised!Register
      <4> QED
        BY <4>2, <4>3, <4>4, <4>5
    <3> QED
      BY <1>t, <1>u, <3>1, <3>2, <3>3
  <2>4. CASE left = 1
    <3>1. driven => tap' = "RESET"
      <4>1. Distance(tap) \in 0 .. 5 /\ (Distance(tap) # 0 => Distance(WithTmsHigh[tap]) = Distance(tap) - 1)
            /\ (Distance(tap) = 0 => WithTmsHigh[tap] = "RESET") /\ WithTmsHigh[tap] \in TapState
        BY <1>t, HighLeadsToReset
      <4>2. driven => WithTmsHigh[tap] = "RESET" \/ Distance(WithTmsHigh[tap]) = 0
        BY <2>1, <2>4, <4>1
      <4> QED
        BY <2>2, <4>1, <4>2, HighLeadsToReset
    <3>2. ~fresh' /\ pc' = (IF reg = "none" THEN "idle" ELSE "leave") /\ Due' = 0
      BY <1>4, <2>4 DEF Reset, Due
    <3>3. driven => Port' = <<"reset", "none">>
      BY <3>1 DEF PortOf, TapState
    <3>4. CASE Known /\ reg # "none"
      <4>1. tap = "RESET" /\ Asked' = Asked
        BY <1>4, <2>1, <3>4, <3>2 DEF IInv, InReset, Asked
      <4> QED
        BY <2>1, <3>1, <3>2, <3>4, <4>1 DEF Promised!vars
    <3>5. CASE Known /\ reg = "none"
      <4>1. Asked = "reset" /\ Asked' = "none"
        BY <2>1, <3>2, <3>5 DEF Asked
      <4> QED
        BY <2>1, <3>2, <3>3, <3>5, <4>1 DEF Promised!Next, Promised!Reset, Promised!InReset
    <3>6. CASE fresh /\ driven
      <4>1. Asked' = "none"
        BY <2>1, <3>2, <3>6 DEF Asked
      <4> QED
        BY <2>1, <3>2, <3>3, <3>6, <4>1 DEF Promised!Next, Promised!Found, Promised!InReset
    <3> QED
      BY <1>t, <1>u, <2>1, <3>4, <3>5, <3>6
  <2> QED
    BY <2>1, <2>3, <2>4
<1>5. CASE Leave
  <2>1. /\ pc = "leave" /\ UNCHANGED <<Known, reg>> /\ Due = 0 /\ Due' = 0 /\ Clock(FALSE)
        /\ (Known => tap = "RESET") /\ pc' = (IF reg = "none" THEN "idle" ELSE "enter")
    BY <1>5 DEF Leave, IInv, InLeave, Tracked, Due
  <2>2. CASE Known
    <3>1. Port = <<"reset", "none">> /\ Port' = <<"quiet", "none">>
      BY <1>3, <2>1, <2>2 DEF NextState, WithTmsLow, TapState, PortOf
    <3>2. Asked # "none" /\ Asked' = (IF Asked = "idle" THEN "none" ELSE Asked)
      BY <1>t, <2>1 DEF Asked
    <3> QED
      BY <2>1, <2>2, <3>1, <3>2
      DEF Promised!Next, Promised!Rest, Promised!Quiet, Promised!InReset
  <2> QED
    BY <1>u, <2>1, <2>2
<1>6. CASE Settle
  <2>1. /\ pc = "settle" /\ reg = "DR" /\ UNCHANGED <<Known, reg>> /\ Due = 0 /\ Due' = 0
        /\ Clock(FALSE) /\ Asked = "DR" /\ Asked' = "DR"
        /\ (Known => tap \in {"UPDATE_DR", "UPDATE_IR", "IDLE"})
    <3>1. /\ pc = "settle" /\ reg = "DR" /\ left \in 1 .. 9 /\ (driven => tap = s_state)
          /\ (left = 9 => s_state \in {"UPDATE_DR", "UPDATE_IR"}) /\ (left < 9 => s_state = "IDLE")
      BY <1>6 DEF Settle, IInv, InSettle, Tracked
    <3>2. pc' \in {"settle", "enter"} /\ UNCHANGED <<driven, fresh, reg>> /\ Clock(FALSE)
      BY <1>6 DEF Settle
    <3>3. tap \in {"UPDATE_DR", "UPDATE_IR", "IDLE"} \/ ~driven
      BY <3>1
    <3>4. Due = 0 /\ Due' = 0 /\ Asked = "DR" /\ Asked' = "DR"
      BY <3>1, <3>2 DEF Asked, Due
    <3> QED
      BY <3>1, <3>2, <3>3, <3>4
  <2>2. CASE Known /\ tap = "IDLE"
    <3>1. Port' = Port
      BY <1>3, <2>1, <2>2 DEF NextState, WithTmsLow, TapState, PortOf
    <3> QED
      BY <2>1, <3>1 DEF Promised!vars
  <2>3. CASE Known /\ tap # "IDLE"
    <3>1. Port \in {<<"update", "DR">>, <<"update", "IR">>} /\ Port' = <<"quiet", "none">>
      BY <1>3, <2>1, <2>3 DEF NextState, WithTmsLow, TapState, PortOf
    <3> QED
      BY <2>1, <2>3, <3>1
      DEF Promised!Next, Promised!Rest, Promised!Quiet, Promised!Register
  <2> QED
    BY <1>u, <2>1, <2>2, <2>3
<1>7. CASE Enter
  <2>1. /\ pc = "enter" /\ reg \in {"DR", "IR"} /\ UNCHANGED <<Known, reg>> /\ Due = 0
        /\ Asked = reg /\ Asked' = reg /\ Clock(PathTms(reg, left)) /\ (Known => tap = s_state)
        /\ OnPath /\ left \in 1 .. PathLength(reg)
    BY <1>7 DEF Enter, IInv, InEnter, Tracked, Asked, Due
  <2>2. CASE Known /\ left < PathLength(reg)
    <3>1. tap' = NextState(tap, PathTms(reg, left)) /\ Due' = 0
      BY <1>7, <2>1, <2>2 DEF Enter, Clock, Due
    <3>2. CASE left = 1
      <4>1. tap \in {"IDLE", "UPDATE_DR", "UPDATE_IR"} /\ tap' = "SELECT_DR"
        BY <2>1, <2>2, <3>1, <3>2 DEF OnPath, PathTms, NextState, WithTmsHigh, TapState
      <4>2. Port' = <<"quiet", "none">>
            /\ Port \in {<<"quiet", "none">>, <<"update", "DR">>, <<"update", "IR">>}
        BY <4>1 DEF PortOf, TapState
      <4> QED
        BY <2>1, <2>2, <3>1, <4>2
        DEF Promised!vars, Promised!Next, Promised!Rest, Promised!Quiet, Promised!Register
    <3>3. CASE left = 2 /\ reg = "IR"
      <4>1. tap = "SELECT_DR" /\ tap' = "SELECT_IR"
        BY <2>1, <2>2, <3>1, <3>3 DEF OnPath, PathTms, NextState, WithTmsHigh, TapState
      <4>2. Port' = Port
        BY <4>1 DEF PortOf, TapState
      <4> QED
        BY <2>1, <3>1, <4>2 DEF Promised!vars
    <3>4. CASE left = PathLength(reg) - 1
      <4>1. /\ tap = (IF reg = "DR" THEN "SELECT_DR" ELSE "SELECT_IR")
            /\ tap' = (IF reg = "DR" THEN "CAPTURE_DR" ELSE "CAPTURE_IR")
        BY <2>1, <2>2, <3>1, <3>4
        DEF PathLength, OnPath, PathTms, NextState, WithTmsLow, TapState
      <4>2. Port = <<"quiet", "none">> /\ Port' = <<"capture", reg>>
        BY <2>1, <4>1 DEF PortOf, TapState
      <4> QED
        BY <2>1, <2>2, <3>1, <4>2
        DEF Promised!Next, Promised!Scan, Promised!Capture, Promised!Quiet, Promised!Register
    <3> QED
      BY <2>1, <2>2, <3>2, <3>3, <3>4 DEF PathLength
  <2>3. CASE Known /\ left = PathLength(reg)
    <3>1. /\ tap' = NextState(tap, PathTms(reg, left))
          /\ pc' = "shift" /\ Due' = left' /\ left' \in 1 .. MaxBits
      BY <1>7, <2>1, <2>3 DEF Enter, Clock, Due
    <3>2. /\ tap = (IF reg = "DR" THEN "CAPTURE_DR" ELSE "CAPTURE_IR")
          /\ tap' = (IF reg = "DR" THEN "SHIFT_DR" ELSE "SHIFT_IR")
      BY <2>1, <2>3, <3>1
      DEF PathLength, OnPath, PathTms, NextState, WithTmsLow, TapState
    <3>3. Port = <<"capture", reg>> /\ Port' = <<"shift", reg>>
      BY <2>1, <3>2 DEF PortOf, TapState
    <3> QED
      BY <2>1, <2>3, <3>1, <3>3
      DEF Promised!Next, Promised!Scan, Promised!Open, Promised!Register
  <2> QED
    BY <1>u, <2>1, <2>2, <2>3 DEF PathLength
<1>8. CASE Shift
  <2>1. /\ pc = "shift" /\ reg \in {"DR", "IR"} /\ UNCHANGED <<Known, reg>> /\ Due = left
        /\ Asked = reg /\ Asked' = reg /\ Clock(left = 1) /\ left' = left - 1
        /\ left \in 1 .. MaxBits /\ pc' = (IF left > 1 THEN "shift" ELSE "update")
        /\ (Known => tap = (IF reg = "DR" THEN "SHIFT_DR" ELSE "SHIFT_IR"))
    BY <1>8 DEF Shift, IInv, InShift, Tracked, Asked, Due
  <2>2. Due' = left - 1
    BY <1>t, <2>1 DEF Due
  <2>3. CASE Known
    <3>1. tap' = IF left = 1 THEN (IF reg = "DR" THEN "EXIT1_DR" ELSE "EXIT1_IR") ELSE tap
      BY <1>3, <2>1, <2>3 DEF NextState, WithTmsLow, WithTmsHigh, TapState
    <3>2. Port = <<"shift", reg>> /\ Port' = IF left = 1 THEN <<"exit", reg>> ELSE Port
      BY <2>1, <2>3, <3>1 DEF PortOf, TapState
    <3> QED
      BY <2>1, <2>2, <2>3, <3>2
      DEF Promised!Next, Promised!Scan, Promised!Bit, Promised!Register
  <2> QED
    BY <1>u, <2>1, <2>3
<1>9. CASE Update
  <2>1. /\ pc = "update" /\ reg \in {"DR", "IR"} /\ UNCHANGED Known /\ Due = 0 /\ Due' = 0
        /\ Asked = reg /\ Asked' = "none" /\ Clock(TRUE)
        /\ (Known => tap = (IF reg = "DR" THEN "EXIT1_DR" ELSE "EXIT1_IR"))
    BY <1>9 DEF Update, IInv, InUpdate, Tracked, Asked, Due
  <2>2. CASE Known
    <3>1. tap' = IF reg = "DR" THEN "UPDATE_DR" ELSE "UPDATE_IR"
      BY <1>3, <2>1, <2>2 DEF NextState, WithTmsHigh, TapState
    <3>2. Port = <<"exit", reg>> /\ Port' = <<"update", reg>>
      BY <2>1, <2>2, <3>1 DEF PortOf, TapState
    <3> QED
      BY <2>1, <2>2, <3>2
      DEF Promised!Next, Promised!Scan, Promised!Update, Promised!Register
  <2> QED
    BY <1>u, <2>1, <2>2
<1> QED
  BY <1>a, <1>1, <1>2, <1>4, <1>5, <1>6, <1>7, <1>8, <1>9 DEF Next

\* A scan, however long and whatever came before it, captures, shifts bit for bit
\* and updates its own register and no other, and the instruction is lost to
\* jtag_reset only: what riscv_dm.c and ecp5_jtag.c build their accesses on.
THEOREM ScansReachTheirRegister == Spec => ImplementsScanPort
<1>1. IInv /\ Init => Promised!Init
  BY PortUnknownAtFirst
<1>2. IInv /\ [Next]_vars => [Promised!Next]_(Promised!vars)
  BY PortStep
<1> QED
  BY <1>1, <1>2, Invariance, PTL DEF Spec, ImplementsScanPort, Promised!Spec
=============================================================================
