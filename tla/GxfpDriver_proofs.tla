-------------------------- MODULE GxfpDriver_proofs --------------------------
(***************************************************************************)
(* Proofs about GxfpDriver, for every set of threads and every value of    *)
(* the constants.                                                          *)
(***************************************************************************)
EXTENDS GxfpDriver, TLAPS

LEMMA SensorTyped ==
  ASSUME SensorTypeOK, NEW level \in BOOLEAN,
         Clocked \/ HearCommand \/ GiveFrame \/ DriveReset(level) \/ Boot \/ Answer
  PROVE  SensorTypeOK'
<1> USE MaxPendingAssumption DEF SensorTypeOK
<1>1. FrameTaken \in 0..MaxPending
  BY DEF FrameTaken
<1>2. CASE Clocked \/ HearCommand \/ GiveFrame
  BY <1>1, <1>2 DEF Clocked, HearCommand, GiveFrame
<1>3. CASE DriveReset(level)
  BY <1>3 DEF DriveReset
<1>4. CASE Boot
  BY <1>4 DEF Boot
<1>5. CASE Answer
  <2>1. PICK frames \in 1..2 :
          pending + frames <= MaxPending /\ pending' = pending + frames
    BY <1>5 DEF Answer
  <2>2. pending' \in 0..MaxPending
    BY <2>1
  <2>3. QED
    BY <1>5, <2>2 DEF Answer
<1>6. QED
  BY <1>2, <1>3, <1>4, <1>5

LEMMA SensorUnchangedTyped ==
  ASSUME SensorTypeOK, UNCHANGED sensorVars
  PROVE  SensorTypeOK'
  BY DEF SensorTypeOK, sensorVars

LEMMA GotoTyped ==
  ASSUME TypeOK, NEW t \in Thread, NEW from, NEW to \in PCs, Goto(t, from, to)
  PROVE  pc' \in [Thread -> PCs]
  BY DEF TypeOK, Goto

LEMMA EndExchangeTyped ==
  ASSUME TypeOK, NEW t \in Thread, NEW from, EndExchange(t, from)
  PROVE  /\ pc' \in [Thread -> PCs]
         /\ i' \in [Thread -> 0..ReplayLen]
<1>1. pc' \in [Thread -> PCs]
  BY GotoTyped DEF EndExchange, PCs
<1>2. i' \in [Thread -> 0..ReplayLen]
  <2>1. CASE op[t] = "replay" /\ i[t] + 1 < ReplayLen
    <3>1. i' = [i EXCEPT ![t] = i[t] + 1]
      BY <2>1 DEF EndExchange
    <3>2. i[t] + 1 \in 0..ReplayLen
      BY <2>1, DriverAssumption DEF TypeOK
    <3>3. QED
      BY <3>1, <3>2 DEF TypeOK
  <2>2. CASE ~(op[t] = "replay" /\ i[t] + 1 < ReplayLen)
    BY <2>2 DEF EndExchange, TypeOK
  <2>3. QED
    BY <2>1, <2>2
<1>3. QED
  BY <1>1, <1>2

\* What a transfer leaves on the bus.
LEMMA XferTyped ==
  ASSUME NEW t \in Thread, NEW kind \in {"hdr", "body", "rhdr", "rbody"}, Xfer(t, kind)
  PROVE  bus' \in Transfers
  BY DEF Xfer, Transfers

THEOREM TypeCorrect == Spec => []TypeOK
<1>1. Init => TypeOK
  <2> SUFFICES ASSUME Init
               PROVE  TypeOK
    OBVIOUS
  <2>1. PICK level \in BOOLEAN : SensorInit(level)
    BY DEF Init
  <2>2. pending \in 0..MaxPending /\ mcu \in {"held", "booting", "up"}
    BY <2>1, MaxPendingAssumption DEF SensorInit
  <2>3. SensorTypeOK
    BY <2>1, <2>2 DEF SensorInit, SensorTypeOK
  <2>4. /\ bus \in Transfers
        /\ pc \in [Thread -> PCs]
        /\ op \in [Thread -> Knobs \cup {"none"}]
    BY DEF Init, PCs, Transfers
  <2>5. /\ n \in [Thread -> 0..BufMax]
        /\ i \in [Thread -> 0..ReplayLen]
        /\ rxlen \in 0..BufMax
        /\ irqCount \in Nat
    BY DriverAssumption DEF Init
  <2>6. QED
    BY <2>3, <2>4, <2>5 DEF Init, TypeOK
<1>2. TypeOK /\ [Next]_vars => TypeOK'
  <2> SUFFICES ASSUME TypeOK, [Next]_vars
               PROVE  TypeOK'
    OBVIOUS
  <2> USE DriverAssumption DEF TypeOK, PCs, Transfers, threadVars, txVars, irqVars, rxVars
  <2>1. ASSUME NEW t \in Thread, NEW knob \in Knobs, Enter(t, knob)
        PROVE  TypeOK'
    BY SMTT(30), <2>1, SensorUnchangedTyped DEF Enter, Goto, Knobs
  <2>2. ASSUME NEW t \in Thread, Acquire(t)
        PROVE  TypeOK'
    BY <2>2, SensorUnchangedTyped DEF Acquire, Goto, FirstLocked
  <2>3. ASSUME NEW t \in Thread, Release(t)
        PROVE  TypeOK'
    BY <2>3, SensorTyped, SensorUnchangedTyped DEF Release, Goto, Return
  <2>4. ASSUME NEW t \in Thread, ClearReady(t)
        PROVE  TypeOK'
    BY ZenonT(60), <2>4, SensorTyped, SensorUnchangedTyped DEF ClearReady, Goto
  <2>5. ASSUME NEW t \in Thread, SendHeader(t)
        PROVE  TypeOK'
    <3>1. SensorTypeOK'
      BY <2>5, SensorTyped, SensorUnchangedTyped DEF SendHeader
    <3>2. pc' \in [Thread -> PCs] /\ i' \in [Thread -> 0..ReplayLen]
      BY <2>5, EndExchangeTyped, GotoTyped DEF SendHeader
    <3>3. bus' \in Transfers
      BY <2>5, XferTyped DEF SendHeader
    <3>4. n' \in [Thread -> 0..BufMax]
      BY <2>5 DEF SendHeader
    <3>5. QED
      BY <2>5, <3>1, <3>2, <3>3, <3>4 DEF SendHeader
  <2>6. ASSUME NEW t \in Thread, SendBody(t)
        PROVE  TypeOK'
    <3>1. SensorTypeOK'
      BY <2>6, SensorTyped, SensorUnchangedTyped DEF SendBody
    <3>2. pc' \in [Thread -> PCs] /\ i' \in [Thread -> 0..ReplayLen]
      BY <2>6, EndExchangeTyped, GotoTyped DEF SendBody
    <3>3. bus' \in Transfers
      BY <2>6, XferTyped DEF SendBody
    <3>4. n' \in [Thread -> 0..BufMax]
      BY <2>6 DEF SendBody
    <3>5. QED
      BY <2>6, <3>1, <3>2, <3>3, <3>4 DEF SendBody
  <2>7. ASSUME NEW t \in Thread, Woken(t)
        PROVE  TypeOK'
    BY <2>7, SensorTyped, SensorUnchangedTyped DEF Woken, Goto
  <2>8. ASSUME NEW t \in Thread, GiveUp(t)
        PROVE  TypeOK'
    BY <2>8, SensorTyped, SensorUnchangedTyped DEF GiveUp, Goto
  <2>9. ASSUME NEW t \in Thread, ReadHeader(t)
        PROVE  TypeOK'
    <3>1. SensorTypeOK'
      BY <2>9, SensorTyped, SensorUnchangedTyped DEF ReadHeader
    <3>2. pc' \in [Thread -> PCs] /\ i' \in [Thread -> 0..ReplayLen]
      BY <2>9, EndExchangeTyped, GotoTyped DEF ReadHeader
    <3>3. bus' \in Transfers
      BY <2>9, XferTyped DEF ReadHeader
    <3>4. n' \in [Thread -> 0..BufMax]
      <4>1. UNCHANGED n \/ \E len \in 1..BufMax : n' = [n EXCEPT ![t] = len]
        BY <2>9 DEF ReadHeader
      <4>2. QED
        BY SMTT(30), <4>1
    <3>5. QED
      BY <2>9, <3>1, <3>2, <3>3, <3>4 DEF ReadHeader
  <2>10. ASSUME NEW t \in Thread, StartBody(t)
        PROVE  TypeOK'
    BY <2>10, SensorTyped, SensorUnchangedTyped DEF StartBody, Goto, Xfer
  <2>11. ASSUME NEW t \in Thread, FinishBody(t)
        PROVE  TypeOK'
    <3>1. SensorTypeOK'
      BY <2>11, SensorTyped, SensorUnchangedTyped DEF FinishBody
    <3>2. pc' \in [Thread -> PCs] /\ i' \in [Thread -> 0..ReplayLen]
      BY <2>11, EndExchangeTyped DEF FinishBody
    <3>3. rxbuf' \in [1..BufMax -> {"own", "stray"}] /\ rxlen' \in 0..BufMax
      BY <2>11 DEF FinishBody
    <3>4. QED
      BY <2>11, <3>1, <3>2, <3>3 DEF FinishBody
  <2>12. ASSUME NEW t \in Thread, Fill(t)
        PROVE  TypeOK'
    BY <2>12, SensorTyped, SensorUnchangedTyped DEF Fill, Goto
  <2>13. ASSUME NEW t \in Thread, FillError(t)
        PROVE  TypeOK'
    BY <2>13, SensorTyped, SensorUnchangedTyped DEF FillError, Goto, Return
  <2>14. ASSUME NEW t \in Thread, FillDone(t)
        PROVE  TypeOK'
    BY <2>14, SensorTyped, SensorUnchangedTyped DEF FillDone, Goto
  <2>15. ASSUME NEW t \in Thread, RawStart(t)
        PROVE  TypeOK'
    BY <2>15, SensorTyped, SensorUnchangedTyped DEF RawStart, Goto
  <2>16. ASSUME NEW t \in Thread, RawFinish(t)
        PROVE  TypeOK'
    BY <2>16, SensorTyped, SensorUnchangedTyped DEF RawFinish, Goto
  <2>17. ASSUME NEW t \in Thread, TakeLength(t)
        PROVE  TypeOK'
    <3>1. pc' \in [Thread -> PCs]
      BY <2>17, GotoTyped DEF TakeLength
    <3>2. QED
      BY ZenonT(60), <2>17, <3>1, SensorUnchangedTyped DEF TakeLength
  <2>18. ASSUME NEW t \in Thread, CopyOut(t)
        PROVE  TypeOK'
    BY <2>18, SensorTyped, SensorUnchangedTyped DEF CopyOut, Goto
  <2>19. ASSUME NEW t \in Thread, ResetLow(t)
        PROVE  TypeOK'
    BY ZenonT(60), <2>19, SensorTyped, SensorUnchangedTyped DEF ResetLow, Goto
  <2>20. ASSUME NEW t \in Thread, ResetHigh(t)
        PROVE  TypeOK'
    BY ZenonT(60), <2>20, SensorTyped, SensorUnchangedTyped DEF ResetHigh, Goto
  <2>21. ASSUME NEW t \in Thread, ResetSettled(t)
        PROVE  TypeOK'
    BY <2>21, SensorTyped, SensorUnchangedTyped DEF ResetSettled, Goto, Return
  <2>22. ASSUME NEW t \in Thread, DiagAbort(t)
        PROVE  TypeOK'
    BY <2>22, SensorUnchangedTyped DEF DiagAbort, Return, Goto
  <2>23. ASSUME NEW t \in Thread, DiagZero(t)
        PROVE  TypeOK'
    BY <2>23, SensorUnchangedTyped DEF DiagZero, Goto
  <2>24. ASSUME NEW t \in Thread, DiagQueue(t)
        PROVE  TypeOK'
    BY <2>24, SensorUnchangedTyped DEF DiagQueue, Goto
  <2>25. ASSUME NEW t \in Thread, DiagAgain(t)
        PROVE  TypeOK'
    BY <2>25, SensorUnchangedTyped DEF DiagAgain, Goto
  <2>26. ASSUME NEW t \in Thread, DiagDone(t)
        PROVE  TypeOK'
    BY <2>26, SensorUnchangedTyped DEF DiagDone, Return, Goto
  <2>27. ASSUME NEW t \in Thread, RunAsync(t)
        PROVE  TypeOK'
    BY <2>27, SensorTyped DEF RunAsync
  <2>28. ASSUME NEW t \in Thread, NEW level \in BOOLEAN, SetEnable(t, level)
        PROVE  TypeOK'
    BY <2>28, SensorTyped DEF SetEnable
  <2>29. ASSUME Isr
        PROVE  TypeOK'
    <3> USE SensorUnchangedTyped
    <3>1. CASE IsrEnter
      BY <3>1 DEF IsrEnter
    <3>2. CASE IsrCount
      BY <3>2 DEF IsrCount
    <3>3. CASE IsrReady
      BY <3>3 DEF IsrReady
    <3>4. CASE IsrStorm
      BY <3>4 DEF IsrStorm
    <3>5. QED
      BY <2>29, <3>1, <3>2, <3>3, <3>4 DEF Isr
  <2>30. ASSUME Sensor
        PROVE  TypeOK'
    BY <2>30, SensorTyped DEF Sensor
  <2>31. ASSUME UNCHANGED vars
        PROVE  TypeOK'
    BY <2>31, SensorUnchangedTyped DEF vars
  <2>32. ASSUME NEW t \in Thread, Step(t)
        PROVE  TypeOK'
    BY ZenonT(60), <2>32, <2>3, <2>4, <2>5, <2>6, <2>7, <2>8, <2>9, <2>10, <2>11, <2>12, <2>13, <2>14, <2>15, <2>16, <2>17, <2>18, <2>19, <2>20, <2>21, <2>22, <2>23, <2>24, <2>25, <2>26 DEF Step
  <2>33. QED
    BY ZenonT(60), <2>1, <2>2, <2>27, <2>28, <2>29, <2>30, <2>31, <2>32 DEF Next
<1>3. QED
  BY <1>1, <1>2, PTL DEF Spec

-----------------------------------------------------------------------------
(* Control: which operation a thread runs at which place.                  *)

ControlInv ==
  \A t \in Thread :
    /\ op[t] # "none" => op[t] \in Ops[t]
    /\ pc[t] = "idle" => op[t] = "none" /\ n[t] = 0
    /\ pc[t] = "lock" => op[t] \in {"cmd", "raw", "rawread", "replay"}
    /\ pc[t] \in {"clear", "wait"} => op[t] = "cmd"
    /\ pc[t] \in {"hdr", "body", "rhdr", "rbody", "rfin"} => op[t] \in {"cmd", "replay"}
    /\ pc[t] \in {"fill", "xfer", "xfin"} => op[t] = "raw"
    /\ pc[t] \in {"len", "copy"} => op[t] = "rawread"
    /\ pc[t] \in {"low", "high", "settle"} => op[t] = "reset"
    /\ pc[t] \in {"zero", "queue", "drain"} => op[t] \in Diag
    /\ t \in async => pc[t] = "drain"

\* After an exchange a thread unlocks or, replaying, sends its next header.
LEMMA EndExchangeMoves ==
  ASSUME NEW t \in Thread, NEW from, EndExchange(t, from)
  PROVE  \E to \in {"hdr", "unlock"} :
           /\ pc[t] = from
           /\ pc' = [pc EXCEPT ![t] = to]
           /\ to = "hdr" => op[t] = "replay"
<1>1. CASE op[t] = "replay" /\ i[t] + 1 < ReplayLen
  <2>1. pc[t] = from /\ pc' = [pc EXCEPT ![t] = "hdr"]
    BY <1>1 DEF EndExchange, Goto
  <2>2. QED
    BY <1>1, <2>1
<1>2. CASE ~(op[t] = "replay" /\ i[t] + 1 < ReplayLen)
  <2>1. pc[t] = from /\ pc' = [pc EXCEPT ![t] = "unlock"]
    BY <1>2 DEF EndExchange, Goto
  <2>2. QED
    BY <2>1
<1>3. QED
  BY <1>1, <1>2

\* Where the steps of an exchange lead.
LEMMA ExchangeMoves ==
  ASSUME NEW t \in Thread
  PROVE  /\ SendHeader(t) => \E to \in {"hdr", "unlock", "body"} :
               pc[t] = "hdr" /\ pc' = [pc EXCEPT ![t] = to]
               /\ (to = "hdr" => op[t] = "replay") /\ (to = "body" => Xfer(t, "hdr"))
         /\ SendBody(t) => \E to \in {"hdr", "unlock", "wait", "rhdr"} :
               pc[t] = "body" /\ pc' = [pc EXCEPT ![t] = to]
               /\ (to = "hdr" => op[t] = "replay") /\ (to = "wait" => op[t] = "cmd")
         /\ ReadHeader(t) => \E to \in {"hdr", "unlock", "rbody"} :
               pc[t] = "rhdr" /\ pc' = [pc EXCEPT ![t] = to]
               /\ (to = "hdr" => op[t] = "replay") /\ Xfer(t, "rhdr")
         /\ FinishBody(t) => \E to \in {"hdr", "unlock"} :
               pc[t] = "rfin" /\ pc' = [pc EXCEPT ![t] = to]
               /\ (to = "hdr" => op[t] = "replay")
<1>1. ASSUME SendHeader(t)
      PROVE  \E to \in {"hdr", "unlock", "body"} :
               pc[t] = "hdr" /\ pc' = [pc EXCEPT ![t] = to]
               /\ (to = "hdr" => op[t] = "replay") /\ (to = "body" => Xfer(t, "hdr"))
  <2>1. CASE EndExchange(t, "hdr")
    BY <2>1, EndExchangeMoves
  <2>2. CASE Goto(t, "hdr", "body") /\ Xfer(t, "hdr")
    BY <2>2 DEF Goto
  <2>3. QED
    BY <1>1, <2>1, <2>2 DEF SendHeader
<1>2. ASSUME SendBody(t)
      PROVE  \E to \in {"hdr", "unlock", "wait", "rhdr"} :
               pc[t] = "body" /\ pc' = [pc EXCEPT ![t] = to]
               /\ (to = "hdr" => op[t] = "replay") /\ (to = "wait" => op[t] = "cmd")
  <2>1. CASE EndExchange(t, "body")
    BY <2>1, EndExchangeMoves
  <2>2. CASE op[t] = "cmd" /\ Goto(t, "body", "wait")
    BY <2>2 DEF Goto
  <2>3. CASE op[t] # "cmd" /\ Goto(t, "body", "rhdr")
    BY <2>3 DEF Goto
  <2>4. QED
    BY <1>2, <2>1, <2>2, <2>3 DEF SendBody
<1>3. ASSUME ReadHeader(t)
      PROVE  \E to \in {"hdr", "unlock", "rbody"} :
               pc[t] = "rhdr" /\ pc' = [pc EXCEPT ![t] = to]
               /\ (to = "hdr" => op[t] = "replay") /\ Xfer(t, "rhdr")
  <2>1. Xfer(t, "rhdr")
    BY <1>3 DEF ReadHeader
  <2>2. CASE EndExchange(t, "rhdr")
    BY <2>1, <2>2, EndExchangeMoves
  <2>3. CASE Goto(t, "rhdr", "rbody")
    BY <2>1, <2>3 DEF Goto
  <2>4. QED
    BY <1>3, <2>2, <2>3 DEF ReadHeader
<1>4. ASSUME FinishBody(t)
      PROVE  \E to \in {"hdr", "unlock"} :
               pc[t] = "rfin" /\ pc' = [pc EXCEPT ![t] = to]
               /\ (to = "hdr" => op[t] = "replay")
  BY <1>4, EndExchangeMoves DEF FinishBody
<1>5. QED
  BY <1>1, <1>2, <1>3, <1>4

\* A thread is where its operation takes it.
LEMMA ControlCorrect == Spec => []ControlInv
<1>1. Init => ControlInv
  BY DEF Init, ControlInv
<1>2. TypeOK /\ ControlInv /\ [Next]_vars => ControlInv'
  <2> SUFFICES ASSUME TypeOK /\ ControlInv, [Next]_vars
               PROVE  ControlInv'
    OBVIOUS
  <2> USE DEF TypeOK, ControlInv, Diag, threadVars, txVars
  <2>1. ASSUME NEW t \in Thread, NEW knob \in Knobs, Enter(t, knob)
        PROVE  ControlInv'
    BY <2>1 DEF Enter, Goto, Knobs
  <2>2. ASSUME NEW t \in Thread, Acquire(t)
        PROVE  ControlInv'
    BY <2>2 DEF Acquire, Goto, FirstLocked
  <2>3. ASSUME NEW t \in Thread, Release(t)
        PROVE  ControlInv'
    BY <2>3 DEF Release, Return, Goto
  <2>4. ASSUME NEW t \in Thread, ClearReady(t)
        PROVE  ControlInv'
    BY <2>4 DEF ClearReady, Goto
  <2>5. ASSUME NEW t \in Thread, SendHeader(t)
        PROVE  ControlInv'
    BY <2>5, ExchangeMoves DEF SendHeader
  <2>6. ASSUME NEW t \in Thread, SendBody(t)
        PROVE  ControlInv'
    BY <2>6, ExchangeMoves DEF SendBody
  <2>7. ASSUME NEW t \in Thread, Woken(t)
        PROVE  ControlInv'
    BY <2>7 DEF Woken, Goto
  <2>8. ASSUME NEW t \in Thread, GiveUp(t)
        PROVE  ControlInv'
    BY <2>8 DEF GiveUp, Goto
  <2>9. ASSUME NEW t \in Thread, ReadHeader(t)
        PROVE  ControlInv'
    <3>1. UNCHANGED <<op, async>> /\ \A u \in Thread \ {t} : n'[u] = n[u]
      BY <2>9 DEF ReadHeader
    <3>2. PICK to \in {"hdr", "unlock", "rbody"} :
            /\ pc[t] = "rhdr" /\ pc' = [pc EXCEPT ![t] = to]
            /\ to = "hdr" => op[t] = "replay"
      BY <2>9, ExchangeMoves
    <3>3. pc'[t] = to /\ \A u \in Thread \ {t} : pc'[u] = pc[u]
      BY <3>2
    <3>4. QED
      BY <3>1, <3>2, <3>3
  <2>10. ASSUME NEW t \in Thread, StartBody(t)
        PROVE  ControlInv'
    BY <2>10 DEF StartBody, Goto
  <2>11. ASSUME NEW t \in Thread, FinishBody(t)
        PROVE  ControlInv'
    <3>1. UNCHANGED <<op, n, async>>
      BY <2>11 DEF FinishBody
    <3>2. QED
      BY <2>11, <3>1, ExchangeMoves
  <2>12. ASSUME NEW t \in Thread, Fill(t)
        PROVE  ControlInv'
    BY <2>12 DEF Fill, Goto
  <2>13. ASSUME NEW t \in Thread, FillError(t)
        PROVE  ControlInv'
    BY <2>13 DEF FillError, Return, Goto
  <2>14. ASSUME NEW t \in Thread, FillDone(t)
        PROVE  ControlInv'
    BY <2>14 DEF FillDone, Goto
  <2>15. ASSUME NEW t \in Thread, RawStart(t)
        PROVE  ControlInv'
    BY <2>15 DEF RawStart, Goto
  <2>16. ASSUME NEW t \in Thread, RawFinish(t)
        PROVE  ControlInv'
    BY <2>16 DEF RawFinish, Goto
  <2>17. ASSUME NEW t \in Thread, TakeLength(t)
        PROVE  ControlInv'
    BY <2>17 DEF TakeLength, Goto
  <2>18. ASSUME NEW t \in Thread, CopyOut(t)
        PROVE  ControlInv'
    BY <2>18 DEF CopyOut, Goto
  <2>19. ASSUME NEW t \in Thread, ResetLow(t)
        PROVE  ControlInv'
    BY <2>19 DEF ResetLow, Goto
  <2>20. ASSUME NEW t \in Thread, ResetHigh(t)
        PROVE  ControlInv'
    BY <2>20 DEF ResetHigh, Goto
  <2>21. ASSUME NEW t \in Thread, ResetSettled(t)
        PROVE  ControlInv'
    BY <2>21 DEF ResetSettled, Return, Goto
  <2>22. ASSUME NEW t \in Thread, DiagAbort(t)
        PROVE  ControlInv'
    BY <2>22 DEF DiagAbort, Return, Goto
  <2>23. ASSUME NEW t \in Thread, DiagZero(t)
        PROVE  ControlInv'
    BY <2>23 DEF DiagZero, Goto
  <2>24. ASSUME NEW t \in Thread, DiagQueue(t)
        PROVE  ControlInv'
    BY <2>24 DEF DiagQueue, Goto
  <2>25. ASSUME NEW t \in Thread, DiagAgain(t)
        PROVE  ControlInv'
    BY <2>25 DEF DiagAgain, Goto
  <2>26. ASSUME NEW t \in Thread, DiagDone(t)
        PROVE  ControlInv'
    BY <2>26 DEF DiagDone, Return, Goto
  <2>27. ASSUME NEW t \in Thread, RunAsync(t)
        PROVE  ControlInv'
    BY <2>27 DEF RunAsync
  <2>28. ASSUME NEW t \in Thread, NEW level \in BOOLEAN, SetEnable(t, level)
        PROVE  ControlInv'
    BY <2>28 DEF SetEnable
  <2>29. ASSUME Isr
        PROVE  ControlInv'
    BY <2>29 DEF Isr, IsrEnter, IsrCount, IsrReady, IsrStorm
  <2>30. ASSUME Sensor
        PROVE  ControlInv'
    BY <2>30 DEF Sensor
  <2>31. ASSUME UNCHANGED vars
        PROVE  ControlInv'
    BY <2>31 DEF vars
  <2>32. ASSUME NEW t \in Thread, Step(t)
        PROVE  ControlInv'
    BY ZenonT(60), <2>32, <2>3, <2>4, <2>5, <2>6, <2>7, <2>8, <2>9, <2>10, <2>11, <2>12, <2>13, <2>14, <2>15, <2>16, <2>17, <2>18, <2>19, <2>20, <2>21, <2>22, <2>23, <2>24, <2>25, <2>26 DEF Step
  <2>33. QED
    BY ZenonT(60), <2>1, <2>2, <2>27, <2>28, <2>29, <2>30, <2>31, <2>32 DEF Next
<1>3. QED
  BY <1>1, <1>2, TypeCorrect, PTL DEF Spec

\* Mutual exclusion: the mutex is held exactly between mutex_lock and mutex_unlock,
\* on every path of every knob.
THEOREM LockCorrect == Spec => []LockDiscipline
<1>1. Init => LockDiscipline
  BY DriverAssumption DEF Init, LockDiscipline, Locked
<1>2. TypeOK /\ LockDiscipline /\ [Next]_vars => LockDiscipline'
  <2> SUFFICES ASSUME TypeOK /\ LockDiscipline, [Next]_vars
               PROVE  LockDiscipline'
    OBVIOUS
  <2> USE DEF TypeOK, LockDiscipline, Locked, threadVars
  <2>1. ASSUME NEW t \in Thread, NEW knob \in Knobs, Enter(t, knob)
        PROVE  LockDiscipline'
    BY <2>1 DEF Enter, Goto, Knobs
  <2>2. ASSUME NEW t \in Thread, Acquire(t)
        PROVE  LockDiscipline'
    BY <2>2, DriverAssumption DEF Acquire, Goto, FirstLocked
  <2>3. ASSUME NEW t \in Thread, Release(t)
        PROVE  LockDiscipline'
    BY <2>3, DriverAssumption DEF Release, Return, Goto
  <2>4. ASSUME NEW t \in Thread, ClearReady(t)
        PROVE  LockDiscipline'
    BY <2>4 DEF ClearReady, Goto
  <2>5. ASSUME NEW t \in Thread, SendHeader(t)
        PROVE  LockDiscipline'
    BY <2>5, ExchangeMoves DEF SendHeader
  <2>6. ASSUME NEW t \in Thread, SendBody(t)
        PROVE  LockDiscipline'
    BY <2>6, ExchangeMoves DEF SendBody
  <2>7. ASSUME NEW t \in Thread, Woken(t)
        PROVE  LockDiscipline'
    BY <2>7 DEF Woken, Goto
  <2>8. ASSUME NEW t \in Thread, GiveUp(t)
        PROVE  LockDiscipline'
    BY <2>8 DEF GiveUp, Goto
  <2>9. ASSUME NEW t \in Thread, ReadHeader(t)
        PROVE  LockDiscipline'
    BY <2>9, ExchangeMoves DEF ReadHeader
  <2>10. ASSUME NEW t \in Thread, StartBody(t)
        PROVE  LockDiscipline'
    BY <2>10 DEF StartBody, Goto
  <2>11. ASSUME NEW t \in Thread, FinishBody(t)
        PROVE  LockDiscipline'
    BY SMTT(30), <2>11, ExchangeMoves DEF FinishBody
  <2>12. ASSUME NEW t \in Thread, Fill(t)
        PROVE  LockDiscipline'
    BY <2>12 DEF Fill, Goto
  <2>13. ASSUME NEW t \in Thread, FillError(t)
        PROVE  LockDiscipline'
    BY <2>13 DEF FillError, Return, Goto
  <2>14. ASSUME NEW t \in Thread, FillDone(t)
        PROVE  LockDiscipline'
    BY <2>14 DEF FillDone, Goto
  <2>15. ASSUME NEW t \in Thread, RawStart(t)
        PROVE  LockDiscipline'
    BY <2>15 DEF RawStart, Goto
  <2>16. ASSUME NEW t \in Thread, RawFinish(t)
        PROVE  LockDiscipline'
    BY <2>16 DEF RawFinish, Goto
  <2>17. ASSUME NEW t \in Thread, TakeLength(t)
        PROVE  LockDiscipline'
    BY <2>17 DEF TakeLength, Goto
  <2>18. ASSUME NEW t \in Thread, CopyOut(t)
        PROVE  LockDiscipline'
    BY <2>18 DEF CopyOut, Goto
  <2>19. ASSUME NEW t \in Thread, ResetLow(t)
        PROVE  LockDiscipline'
    BY <2>19 DEF ResetLow, Goto
  <2>20. ASSUME NEW t \in Thread, ResetHigh(t)
        PROVE  LockDiscipline'
    BY <2>20 DEF ResetHigh, Goto
  <2>21. ASSUME NEW t \in Thread, ResetSettled(t)
        PROVE  LockDiscipline'
    BY <2>21 DEF ResetSettled, Return, Goto
  <2>22. ASSUME NEW t \in Thread, DiagAbort(t)
        PROVE  LockDiscipline'
    BY <2>22 DEF DiagAbort, Return, Goto
  <2>23. ASSUME NEW t \in Thread, DiagZero(t)
        PROVE  LockDiscipline'
    BY <2>23 DEF DiagZero, Goto
  <2>24. ASSUME NEW t \in Thread, DiagQueue(t)
        PROVE  LockDiscipline'
    BY <2>24 DEF DiagQueue, Goto
  <2>25. ASSUME NEW t \in Thread, DiagAgain(t)
        PROVE  LockDiscipline'
    BY <2>25 DEF DiagAgain, Goto
  <2>26. ASSUME NEW t \in Thread, DiagDone(t)
        PROVE  LockDiscipline'
    BY <2>26 DEF DiagDone, Return, Goto
  <2>27. ASSUME NEW t \in Thread, RunAsync(t)
        PROVE  LockDiscipline'
    BY <2>27 DEF RunAsync
  <2>28. ASSUME NEW t \in Thread, NEW level \in BOOLEAN, SetEnable(t, level)
        PROVE  LockDiscipline'
    BY <2>28 DEF SetEnable
  <2>29. ASSUME Isr
        PROVE  LockDiscipline'
    BY <2>29 DEF Isr, IsrEnter, IsrCount, IsrReady, IsrStorm
  <2>30. ASSUME Sensor
        PROVE  LockDiscipline'
    BY <2>30 DEF Sensor
  <2>31. ASSUME UNCHANGED vars
        PROVE  LockDiscipline'
    BY <2>31 DEF vars
  <2>32. ASSUME NEW t \in Thread, Step(t)
        PROVE  LockDiscipline'
    BY ZenonT(60), <2>32, <2>3, <2>4, <2>5, <2>6, <2>7, <2>8, <2>9, <2>10, <2>11, <2>12, <2>13, <2>14, <2>15, <2>16, <2>17, <2>18, <2>19, <2>20, <2>21, <2>22, <2>23, <2>24, <2>25, <2>26 DEF Step
  <2>33. QED
    BY ZenonT(60), <2>1, <2>2, <2>27, <2>28, <2>29, <2>30, <2>31, <2>32 DEF Next
<1>3. QED
  BY <1>1, <1>2, TypeCorrect, PTL DEF Spec

\* Where no thread uses the diagnostics, none of their transfers runs.
LEMMA NoDiagSteps ==
  ASSUME ControlInv, NoDiag, NEW t \in Thread
  PROVE  ~DiagZero(t) /\ ~RunAsync(t)
<1>1. op[t] \notin Diag
  BY DEF ControlInv, NoDiag, Diag
<1>2. QED
  BY <1>1 DEF ControlInv, DiagZero, RunAsync, Goto

-----------------------------------------------------------------------------
(* Exchanges.                                                              *)

\* Whichever threads use whichever knobs, only a background transfer of a diagnostic
\* comes between the header and the body of a frame: who is between the two holds the
\* mutex, which every other transfer needs.
THEOREM ExchangesUnbroken == Spec => []ExchangeUnbroken
<1>1. Init => ExchangeUnbroken
  BY DEF Init, ExchangeUnbroken
<1>2. TypeOK /\ LockDiscipline /\ ControlInv /\ ExchangeUnbroken /\ [Next]_vars => ExchangeUnbroken'
  <2> SUFFICES ASSUME TypeOK /\ LockDiscipline /\ ControlInv /\ ExchangeUnbroken, [Next]_vars
               PROVE  ExchangeUnbroken'
    OBVIOUS
  <2> USE DEF TypeOK, ExchangeUnbroken, LockDiscipline, Locked, threadVars
  <2>1. ASSUME NEW t \in Thread, NEW knob \in Knobs, Enter(t, knob)
        PROVE  ExchangeUnbroken'
    BY <2>1 DEF Enter, Goto, Knobs
  <2>2. ASSUME NEW t \in Thread, Acquire(t)
        PROVE  ExchangeUnbroken'
    BY <2>2 DEF Acquire, Goto, FirstLocked
  <2>3. ASSUME NEW t \in Thread, Release(t)
        PROVE  ExchangeUnbroken'
    BY <2>3 DEF Release, Return, Goto
  <2>4. ASSUME NEW t \in Thread, ClearReady(t)
        PROVE  ExchangeUnbroken'
    BY <2>4 DEF ClearReady, Goto
  <2>5. ASSUME NEW t \in Thread, SendHeader(t)
        PROVE  ExchangeUnbroken'
    <3>1. PICK to \in {"hdr", "unlock", "body"} :
            /\ pc[t] = "hdr" /\ pc' = [pc EXCEPT ![t] = to]
            /\ to = "body" => Xfer(t, "hdr")
      BY <2>5, ExchangeMoves
    <3>2. \A u \in Thread \ {t} : pc'[u] \notin {"body", "rbody"}
      BY <3>1
    <3>3. CASE to = "body"
      BY <3>1, <3>2, <3>3 DEF Xfer
    <3>4. CASE to # "body"
      BY <3>1, <3>2, <3>4
    <3>5. QED
      BY <3>1, <3>3, <3>4
  <2>6. ASSUME NEW t \in Thread, SendBody(t)
        PROVE  ExchangeUnbroken'
    BY <2>6, ExchangeMoves
  <2>7. ASSUME NEW t \in Thread, Woken(t)
        PROVE  ExchangeUnbroken'
    BY <2>7 DEF Woken, Goto
  <2>8. ASSUME NEW t \in Thread, GiveUp(t)
        PROVE  ExchangeUnbroken'
    BY <2>8 DEF GiveUp, Goto
  <2>9. ASSUME NEW t \in Thread, ReadHeader(t)
        PROVE  ExchangeUnbroken'
    BY <2>9, ExchangeMoves DEF Xfer
  <2>10. ASSUME NEW t \in Thread, StartBody(t)
        PROVE  ExchangeUnbroken'
    BY <2>10 DEF StartBody, Goto, Xfer
  <2>11. ASSUME NEW t \in Thread, FinishBody(t)
        PROVE  ExchangeUnbroken'
    BY SMTT(30), <2>11, ExchangeMoves DEF FinishBody
  <2>12. ASSUME NEW t \in Thread, Fill(t)
        PROVE  ExchangeUnbroken'
    BY <2>12 DEF Fill, Goto
  <2>13. ASSUME NEW t \in Thread, FillError(t)
        PROVE  ExchangeUnbroken'
    BY <2>13 DEF FillError, Return, Goto
  <2>14. ASSUME NEW t \in Thread, FillDone(t)
        PROVE  ExchangeUnbroken'
    BY <2>14 DEF FillDone, Goto
  <2>15. ASSUME NEW t \in Thread, RawStart(t)
        PROVE  ExchangeUnbroken'
    BY <2>15 DEF RawStart, Goto
  <2>16. ASSUME NEW t \in Thread, RawFinish(t)
        PROVE  ExchangeUnbroken'
    BY <2>16 DEF RawFinish, Goto
  <2>17. ASSUME NEW t \in Thread, TakeLength(t)
        PROVE  ExchangeUnbroken'
    BY <2>17 DEF TakeLength, Goto
  <2>18. ASSUME NEW t \in Thread, CopyOut(t)
        PROVE  ExchangeUnbroken'
    BY <2>18 DEF CopyOut, Goto
  <2>19. ASSUME NEW t \in Thread, ResetLow(t)
        PROVE  ExchangeUnbroken'
    BY <2>19 DEF ResetLow, Goto
  <2>20. ASSUME NEW t \in Thread, ResetHigh(t)
        PROVE  ExchangeUnbroken'
    BY <2>20 DEF ResetHigh, Goto
  <2>21. ASSUME NEW t \in Thread, ResetSettled(t)
        PROVE  ExchangeUnbroken'
    BY <2>21 DEF ResetSettled, Return, Goto
  <2>22. ASSUME NEW t \in Thread, DiagAbort(t)
        PROVE  ExchangeUnbroken'
    BY <2>22 DEF DiagAbort, Return, Goto
  <2>23. ASSUME NEW t \in Thread, DiagZero(t)
        PROVE  ExchangeUnbroken'
    BY <2>23 DEF DiagZero, Goto
  <2>24. ASSUME NEW t \in Thread, DiagQueue(t)
        PROVE  ExchangeUnbroken'
    BY <2>24 DEF DiagQueue, Goto
  <2>25. ASSUME NEW t \in Thread, DiagAgain(t)
        PROVE  ExchangeUnbroken'
    BY <2>25 DEF DiagAgain, Goto
  <2>26. ASSUME NEW t \in Thread, DiagDone(t)
        PROVE  ExchangeUnbroken'
    BY <2>26 DEF DiagDone, Return, Goto
  <2>27. ASSUME NEW t \in Thread, RunAsync(t)
        PROVE  ExchangeUnbroken'
    BY <2>27 DEF RunAsync
  <2>28. ASSUME NEW t \in Thread, NEW level \in BOOLEAN, SetEnable(t, level)
        PROVE  ExchangeUnbroken'
    BY <2>28 DEF SetEnable
  <2>29. ASSUME Isr
        PROVE  ExchangeUnbroken'
    BY <2>29 DEF Isr, IsrEnter, IsrCount, IsrReady, IsrStorm
  <2>30. ASSUME Sensor
        PROVE  ExchangeUnbroken'
    BY <2>30 DEF Sensor
  <2>31. ASSUME UNCHANGED vars
        PROVE  ExchangeUnbroken'
    BY <2>31 DEF vars
  <2>32. ASSUME NEW t \in Thread, Step(t)
        PROVE  ExchangeUnbroken'
    BY ZenonT(60), <2>32, <2>3, <2>4, <2>5, <2>6, <2>7, <2>8, <2>9, <2>10, <2>11, <2>12, <2>13, <2>14, <2>15, <2>16, <2>17, <2>18, <2>19, <2>20, <2>21, <2>22, <2>23, <2>24, <2>25, <2>26 DEF Step
  <2>33. QED
    BY ZenonT(60), <2>1, <2>2, <2>27, <2>28, <2>29, <2>30, <2>31, <2>32 DEF Next
<1>3. QED
  BY <1>1, <1>2, TypeCorrect, LockCorrect, ControlCorrect, PTL DEF Spec

-----------------------------------------------------------------------------
(* The wakeup of cmd.                                                      *)

\* From the clearing of data_ready to the end of the wait, the flag and the
\* history agree: no other thread clears it, because clearing needs the mutex.
WakeupInv ==
  \A t \in Thread :
    op[t] = "cmd" /\ pc[t] \in {"hdr", "body", "wait"} => (dataReady <=> t \in rung)

\* The strengthening of WakeupExact is an invariant.
LEMMA WakeupInvCorrect == Spec => []WakeupInv
<1>1. Init => WakeupInv
  BY DEF Init, WakeupInv
<1>2. TypeOK /\ LockDiscipline /\ ControlInv /\ WakeupInv /\ [Next]_vars => WakeupInv'
  <2> SUFFICES ASSUME TypeOK /\ LockDiscipline /\ ControlInv /\ WakeupInv, [Next]_vars
               PROVE  WakeupInv'
    OBVIOUS
  <2> USE DEF TypeOK, WakeupInv, LockDiscipline, Locked, ControlInv, threadVars
  <2>1. ASSUME NEW t \in Thread, NEW knob \in Knobs, Enter(t, knob)
        PROVE  WakeupInv'
    BY <2>1 DEF Enter, Goto, Knobs
  <2>2. ASSUME NEW t \in Thread, Acquire(t)
        PROVE  WakeupInv'
    BY <2>2 DEF Acquire, Goto, FirstLocked
  <2>3. ASSUME NEW t \in Thread, Release(t)
        PROVE  WakeupInv'
    BY <2>3 DEF Release, Return, Goto
  <2>4. ASSUME NEW t \in Thread, ClearReady(t)
        PROVE  WakeupInv'
    BY <2>4 DEF ClearReady, Goto
  <2>5. ASSUME NEW t \in Thread, SendHeader(t)
        PROVE  WakeupInv'
    <3>1. UNCHANGED <<op, dataReady, rung>>
      BY <2>5 DEF SendHeader
    <3>2. QED
      BY <2>5, <3>1, ExchangeMoves
  <2>6. ASSUME NEW t \in Thread, SendBody(t)
        PROVE  WakeupInv'
    <3>1. UNCHANGED <<op, dataReady, rung>>
      BY <2>6 DEF SendBody
    <3>2. QED
      BY <2>6, <3>1, ExchangeMoves
  <2>7. ASSUME NEW t \in Thread, Woken(t)
        PROVE  WakeupInv'
    BY <2>7 DEF Woken, Goto
  <2>8. ASSUME NEW t \in Thread, GiveUp(t)
        PROVE  WakeupInv'
    BY <2>8 DEF GiveUp, Goto
  <2>9. ASSUME NEW t \in Thread, ReadHeader(t)
        PROVE  WakeupInv'
    <3>1. UNCHANGED <<op, dataReady, rung>>
      BY <2>9 DEF ReadHeader
    <3>2. QED
      BY <2>9, <3>1, ExchangeMoves
  <2>10. ASSUME NEW t \in Thread, StartBody(t)
        PROVE  WakeupInv'
    BY <2>10 DEF StartBody, Goto
  <2>11. ASSUME NEW t \in Thread, FinishBody(t)
        PROVE  WakeupInv'
    <3>1. UNCHANGED <<op, dataReady, rung>>
      BY <2>11 DEF FinishBody
    <3>2. QED
      BY <2>11, <3>1, ExchangeMoves
  <2>12. ASSUME NEW t \in Thread, Fill(t)
        PROVE  WakeupInv'
    BY <2>12 DEF Fill, Goto
  <2>13. ASSUME NEW t \in Thread, FillError(t)
        PROVE  WakeupInv'
    BY <2>13 DEF FillError, Return, Goto
  <2>14. ASSUME NEW t \in Thread, FillDone(t)
        PROVE  WakeupInv'
    BY <2>14 DEF FillDone, Goto
  <2>15. ASSUME NEW t \in Thread, RawStart(t)
        PROVE  WakeupInv'
    BY <2>15 DEF RawStart, Goto
  <2>16. ASSUME NEW t \in Thread, RawFinish(t)
        PROVE  WakeupInv'
    BY <2>16 DEF RawFinish, Goto
  <2>17. ASSUME NEW t \in Thread, TakeLength(t)
        PROVE  WakeupInv'
    BY <2>17 DEF TakeLength, Goto
  <2>18. ASSUME NEW t \in Thread, CopyOut(t)
        PROVE  WakeupInv'
    BY <2>18 DEF CopyOut, Goto
  <2>19. ASSUME NEW t \in Thread, ResetLow(t)
        PROVE  WakeupInv'
    BY <2>19 DEF ResetLow, Goto
  <2>20. ASSUME NEW t \in Thread, ResetHigh(t)
        PROVE  WakeupInv'
    BY <2>20 DEF ResetHigh, Goto
  <2>21. ASSUME NEW t \in Thread, ResetSettled(t)
        PROVE  WakeupInv'
    BY <2>21 DEF ResetSettled, Return, Goto
  <2>22. ASSUME NEW t \in Thread, DiagAbort(t)
        PROVE  WakeupInv'
    BY <2>22 DEF DiagAbort, Return, Goto
  <2>23. ASSUME NEW t \in Thread, DiagZero(t)
        PROVE  WakeupInv'
    BY <2>23 DEF DiagZero, Goto
  <2>24. ASSUME NEW t \in Thread, DiagQueue(t)
        PROVE  WakeupInv'
    BY <2>24 DEF DiagQueue, Goto
  <2>25. ASSUME NEW t \in Thread, DiagAgain(t)
        PROVE  WakeupInv'
    BY <2>25 DEF DiagAgain, Goto
  <2>26. ASSUME NEW t \in Thread, DiagDone(t)
        PROVE  WakeupInv'
    BY <2>26 DEF DiagDone, Return, Goto
  <2>27. ASSUME NEW t \in Thread, RunAsync(t)
        PROVE  WakeupInv'
    BY <2>27 DEF RunAsync
  <2>28. ASSUME NEW t \in Thread, NEW level \in BOOLEAN, SetEnable(t, level)
        PROVE  WakeupInv'
    BY <2>28 DEF SetEnable
  <2>29. ASSUME Isr
        PROVE  WakeupInv'
    BY <2>29 DEF Isr, IsrEnter, IsrCount, IsrReady, IsrStorm
  <2>30. ASSUME Sensor
        PROVE  WakeupInv'
    BY <2>30 DEF Sensor
  <2>31. ASSUME UNCHANGED vars
        PROVE  WakeupInv'
    BY <2>31 DEF vars
  <2>32. ASSUME NEW t \in Thread, Step(t)
        PROVE  WakeupInv'
    BY ZenonT(60), <2>32, <2>3, <2>4, <2>5, <2>6, <2>7, <2>8, <2>9, <2>10, <2>11, <2>12, <2>13, <2>14, <2>15, <2>16, <2>17, <2>18, <2>19, <2>20, <2>21, <2>22, <2>23, <2>24, <2>25, <2>26 DEF Step
  <2>33. QED
    BY ZenonT(60), <2>1, <2>2, <2>27, <2>28, <2>29, <2>30, <2>31, <2>32 DEF Next
<1>3. QED
  BY <1>1, <1>2, TypeCorrect, LockCorrect, ControlCorrect, PTL DEF Spec

\* A waiting command sees the flag exactly when the interrupt rang for it.
THEOREM WakeupsExact == Spec => []WakeupExact
<1>1. WakeupInv /\ ControlInv => WakeupExact
  BY DEF WakeupInv, ControlInv, WakeupExact
<1>2. QED
  BY <1>1, WakeupInvCorrect, ControlCorrect, PTL

-----------------------------------------------------------------------------
(* The storm mask.                                                         *)

\* The interrupt thread is off whenever the interrupt is masked, and an
\* unmasked interrupt that starts has not been counted Storm times yet.
StormInv ==
  /\ irqCount <= Storm
  /\ irqMasked => irqCount = Storm /\ isr = "off"
  /\ isr \in {"off", "count"} /\ ~irqMasked => irqCount < Storm

\* Only the interrupt handler changes what the storm mask is made of.
LEMMA OthersLeaveIrq ==
  ASSUME NEW t \in Thread,
         \/ \E knob \in Knobs : Enter(t, knob)
         \/ \E level \in BOOLEAN : SetEnable(t, level)
         \/ Acquire(t) \/ Step(t) \/ RunAsync(t)
  PROVE  UNCHANGED irqVars
<1>1. CASE (\E knob \in Knobs : Enter(t, knob)) \/ Acquire(t)
  BY <1>1 DEF Enter, Acquire
<1>2. CASE \E level \in BOOLEAN : SetEnable(t, level)
  BY <1>2 DEF SetEnable
<1>3. CASE Release(t) \/ ClearReady(t) \/ SendHeader(t) \/ SendBody(t) \/ Woken(t) \/ GiveUp(t)
  BY <1>3 DEF Release, ClearReady, SendHeader, SendBody, Woken, GiveUp
<1>4. CASE ReadHeader(t) \/ StartBody(t) \/ FinishBody(t) \/ ResetLow(t) \/ ResetHigh(t) \/ ResetSettled(t)
  BY <1>4 DEF ReadHeader, StartBody, FinishBody, ResetLow, ResetHigh, ResetSettled
<1>5. CASE Fill(t) \/ FillError(t) \/ FillDone(t) \/ RawStart(t) \/ RawFinish(t) \/ TakeLength(t) \/ CopyOut(t)
  BY <1>5 DEF Fill, FillError, FillDone, RawStart, RawFinish, TakeLength, CopyOut
<1>6. CASE DiagAbort(t) \/ DiagZero(t) \/ DiagQueue(t) \/ DiagAgain(t) \/ DiagDone(t) \/ RunAsync(t)
  BY <1>6 DEF DiagAbort, DiagZero, DiagQueue, DiagAgain, DiagDone, RunAsync
<1>7. QED
  BY <1>1, <1>2, <1>3, <1>4, <1>5, <1>6 DEF Step

\* A step is a step of the interrupt handler or leaves its state alone.
LEMMA IrqSteps ==
  ASSUME [Next]_vars
  PROVE  IsrEnter \/ IsrCount \/ IsrReady \/ IsrStorm \/ UNCHANGED irqVars
<1>1. CASE UNCHANGED vars
  BY <1>1 DEF vars, irqVars
<1>2. CASE Sensor
  BY <1>2 DEF Sensor, irqVars
<1>3. CASE \E t \in Thread : (\E knob \in Knobs : Enter(t, knob)) \/ Acquire(t) \/ Step(t)
  BY <1>3, OthersLeaveIrq
<1>4. CASE \E t \in Thread : \E level \in BOOLEAN : SetEnable(t, level)
  BY <1>4, OthersLeaveIrq
<1>5. CASE \E t \in Thread : RunAsync(t)
  BY <1>5, OthersLeaveIrq
<1>6. CASE Isr
  BY <1>6 DEF Isr
<1>7. QED
  BY Zenon, <1>1, <1>2, <1>3, <1>4, <1>5, <1>6 DEF Next

LEMMA StormInvCorrect == Spec => []StormInv
<1>1. Init => StormInv
  BY DriverAssumption DEF Init, StormInv
<1>2. TypeOK /\ StormInv /\ [Next]_vars => StormInv'
  <2> SUFFICES ASSUME TypeOK, StormInv, [Next]_vars
               PROVE  StormInv'
    OBVIOUS
  <2> USE DriverAssumption DEF TypeOK, StormInv
  <2>1. CASE IsrEnter
    BY <2>1 DEF IsrEnter
  <2>2. CASE IsrCount
    BY <2>2 DEF IsrCount
  <2>3. CASE IsrReady
    BY <2>3 DEF IsrReady
  <2>4. CASE IsrStorm
    <3>1. CASE irqCount = Storm
      BY <2>4, <3>1 DEF IsrStorm
    <3>2. CASE irqCount # Storm
      BY <2>4, <3>2 DEF IsrStorm
    <3>3. QED
      BY <3>1, <3>2
  <2>5. CASE UNCHANGED irqVars
    BY <2>5 DEF irqVars
  <2>6. QED
    BY <2>1, <2>2, <2>3, <2>4, <2>5, IrqSteps
<1>3. QED
  BY <1>1, <1>2, TypeCorrect, PTL DEF Spec

\* The handler masks on its Storm-th run and never runs again.
THEOREM MasksAtStorm == Spec => []MaskAtStorm
<1>1. TypeOK /\ StormInv => MaskAtStorm
  BY DriverAssumption DEF TypeOK, StormInv, MaskAtStorm
<1>2. QED
  BY <1>1, StormInvCorrect, TypeCorrect, PTL

\* The handler implements the storm gate: the initial state is the gate's, and
\* every step counts one interrupt through the open gate, shuts it, or is none
\* of the gate's business.
THEOREM ImplementsGate == Spec => GateSpec
<1>1. Init => Gate!Init
  BY DEF Init, Gate!Init
<1> DEFINE gateVars == <<irqCount, IF irqMasked THEN "shut" ELSE "open">>
<1>2. TypeOK /\ StormInv /\ [Next]_vars => [Gate!Next]_gateVars
  <2> SUFFICES ASSUME TypeOK, StormInv, [Next]_vars
               PROVE  [Gate!Next]_gateVars
    OBVIOUS
  <2>1. CASE IsrEnter \/ IsrReady \/ UNCHANGED irqVars
    BY <2>1 DEF IsrEnter, IsrReady, irqVars
  <2>2. CASE IsrCount
    BY <2>2 DEF IsrCount, TypeOK, StormInv, Gate!Next, Gate!Pass
  <2>3. CASE IsrStorm
    <3>1. CASE irqCount = Storm
      BY <2>3, <3>1 DEF IsrStorm, StormInv, Gate!Next, Gate!Shut
    <3>2. CASE irqCount # Storm
      BY <2>3, <3>2 DEF IsrStorm, StormInv
    <3>3. QED
      BY <3>1, <3>2
  <2>4. QED
    BY <2>1, <2>2, <2>3, IrqSteps
<1>3. QED
  BY <1>1, <1>2, StormInvCorrect, TypeCorrect, PTL DEF Spec, GateSpec, Gate!Spec

-----------------------------------------------------------------------------
(* The buffers.                                                            *)

OneWriter == \A t, u \in Thread : "raw" \in Ops[t] \cap Ops[u] => t = u

\* What a lone raw writer has parsed is in txbuf until its transfer starts.
FilledInv ==
  OneWriter /\ NoDiag =>
    \A t \in Thread : op[t] = "raw" /\ pc[t] \in {"fill", "lock", "xfer"} =>
      \A k \in 1..n[t] : txbuf[k] = t

\* No other thread overwrites what a lone writer parsed.
LEMMA FilledInvCorrect == Spec => []FilledInv
<1>1. Init => FilledInv
  BY DEF Init, FilledInv
<1>2. TypeOK /\ ControlInv /\ FilledInv /\ [Next]_vars => FilledInv'
  <2> SUFFICES ASSUME TypeOK /\ ControlInv /\ FilledInv, [Next]_vars
               PROVE  FilledInv'
    OBVIOUS
  <2> USE DEF TypeOK, FilledInv, OneWriter, ControlInv, threadVars, txVars
  <2>1. ASSUME NEW t \in Thread, NEW knob \in Knobs, Enter(t, knob)
        PROVE  FilledInv'
    BY <2>1 DEF Enter, Goto, Knobs
  <2>2. ASSUME NEW t \in Thread, Acquire(t)
        PROVE  FilledInv'
    BY <2>2 DEF Acquire, Goto, FirstLocked
  <2>3. ASSUME NEW t \in Thread, Release(t)
        PROVE  FilledInv'
    BY <2>3 DEF Release, Return, Goto
  <2>4. ASSUME NEW t \in Thread, ClearReady(t)
        PROVE  FilledInv'
    BY <2>4 DEF ClearReady, Goto
  <2>5. ASSUME NEW t \in Thread, SendHeader(t)
        PROVE  FilledInv'
    <3>1. UNCHANGED <<op, n, txbuf>>
      BY <2>5 DEF SendHeader
    <3>2. PICK to \in {"hdr", "unlock", "body"} :
            pc[t] = "hdr" /\ pc' = [pc EXCEPT ![t] = to]
      BY <2>5, ExchangeMoves
    <3>3. \A u \in Thread : pc'[u] \in {"fill", "lock", "xfer"} => pc'[u] = pc[u]
      BY <3>2
    <3>4. QED
      BY <3>1, <3>3
  <2>6. ASSUME NEW t \in Thread, SendBody(t)
        PROVE  FilledInv'
    <3>1. UNCHANGED <<op, n, txbuf>>
      BY <2>6 DEF SendBody
    <3>2. PICK to \in {"hdr", "unlock", "wait", "rhdr"} :
            pc[t] = "body" /\ pc' = [pc EXCEPT ![t] = to]
      BY <2>6, ExchangeMoves
    <3>3. \A u \in Thread : pc'[u] \in {"fill", "lock", "xfer"} => pc'[u] = pc[u]
      BY <3>2
    <3>4. QED
      BY <3>1, <3>3
  <2>7. ASSUME NEW t \in Thread, Woken(t)
        PROVE  FilledInv'
    BY <2>7 DEF Woken, Goto
  <2>8. ASSUME NEW t \in Thread, GiveUp(t)
        PROVE  FilledInv'
    BY <2>8 DEF GiveUp, Goto
  <2>9. ASSUME NEW t \in Thread, ReadHeader(t)
        PROVE  FilledInv'
    <3>1. UNCHANGED <<op, txbuf>> /\ \A u \in Thread \ {t} : n'[u] = n[u]
      BY <2>9 DEF ReadHeader
    <3>2. PICK to \in {"hdr", "unlock", "rbody"} :
            pc[t] = "rhdr" /\ pc' = [pc EXCEPT ![t] = to]
      BY <2>9, ExchangeMoves
    <3>3. op[t] # "raw"
      BY <3>2
    <3>4. \A u \in Thread \ {t} : pc'[u] = pc[u]
      BY <3>2
    <3>5. QED
      BY <3>1, <3>3, <3>4
  <2>10. ASSUME NEW t \in Thread, StartBody(t)
        PROVE  FilledInv'
    BY <2>10 DEF StartBody, Goto
  <2>11. ASSUME NEW t \in Thread, FinishBody(t)
        PROVE  FilledInv'
    <3>1. UNCHANGED <<op, n, txbuf>>
      BY <2>11 DEF FinishBody
    <3>2. PICK to \in {"hdr", "unlock"} :
            pc[t] = "rfin" /\ pc' = [pc EXCEPT ![t] = to]
      BY <2>11, ExchangeMoves
    <3>3. \A u \in Thread : pc'[u] \in {"fill", "lock", "xfer"} => pc'[u] = pc[u]
      BY <3>2
    <3>4. QED
      BY <3>1, <3>3
  <2>12. ASSUME NEW t \in Thread, Fill(t)
        PROVE  FilledInv'
    <3>1. SUFFICES ASSUME OneWriter, NoDiag, NEW u \in Thread,
                          op'[u] = "raw", pc'[u] \in {"fill", "lock", "xfer"},
                          NEW k \in 1..n'[u]
                   PROVE  txbuf'[k] = u
      OBVIOUS
    <3>2. op' = op /\ pc' = pc /\ pc[t] = "fill"
      BY <2>12 DEF Fill, Goto
    <3>3. "raw" \in Ops[t] \cap Ops[u]
      BY <3>1, <3>2
    <3>4. u = t
      BY <3>1, <3>3
    <3>5. n'[t] = n[t] + 1 /\ txbuf' = [txbuf EXCEPT ![n[t] + 1] = t] /\ n[t] + 1 \in 1..BufMax
      BY SMTT(30), <2>12, DriverAssumption DEF Fill
    <3>6. QED
      BY <3>1, <3>2, <3>5, <3>4
  <2>13. ASSUME NEW t \in Thread, FillError(t)
        PROVE  FilledInv'
    BY <2>13 DEF FillError, Return, Goto
  <2>14. ASSUME NEW t \in Thread, FillDone(t)
        PROVE  FilledInv'
    BY <2>14 DEF FillDone, Goto
  <2>15. ASSUME NEW t \in Thread, RawStart(t)
        PROVE  FilledInv'
    BY <2>15 DEF RawStart, Goto
  <2>16. ASSUME NEW t \in Thread, RawFinish(t)
        PROVE  FilledInv'
    BY <2>16 DEF RawFinish, Goto
  <2>17. ASSUME NEW t \in Thread, TakeLength(t)
        PROVE  FilledInv'
    BY <2>17 DEF TakeLength, Goto
  <2>18. ASSUME NEW t \in Thread, CopyOut(t)
        PROVE  FilledInv'
    BY <2>18 DEF CopyOut, Goto
  <2>19. ASSUME NEW t \in Thread, ResetLow(t)
        PROVE  FilledInv'
    BY <2>19 DEF ResetLow, Goto
  <2>20. ASSUME NEW t \in Thread, ResetHigh(t)
        PROVE  FilledInv'
    BY <2>20 DEF ResetHigh, Goto
  <2>21. ASSUME NEW t \in Thread, ResetSettled(t)
        PROVE  FilledInv'
    BY <2>21 DEF ResetSettled, Return, Goto
  <2>22. ASSUME NEW t \in Thread, DiagAbort(t)
        PROVE  FilledInv'
    BY <2>22 DEF DiagAbort, Return, Goto
  <2>23. ASSUME NEW t \in Thread, DiagZero(t)
        PROVE  FilledInv'
    BY <2>23, NoDiagSteps DEF DiagZero, Goto
  <2>24. ASSUME NEW t \in Thread, DiagQueue(t)
        PROVE  FilledInv'
    BY <2>24 DEF DiagQueue, Goto
  <2>25. ASSUME NEW t \in Thread, DiagAgain(t)
        PROVE  FilledInv'
    BY <2>25 DEF DiagAgain, Goto
  <2>26. ASSUME NEW t \in Thread, DiagDone(t)
        PROVE  FilledInv'
    BY <2>26 DEF DiagDone, Return, Goto
  <2>27. ASSUME NEW t \in Thread, RunAsync(t)
        PROVE  FilledInv'
    BY <2>27, NoDiagSteps DEF RunAsync
  <2>28. ASSUME NEW t \in Thread, NEW level \in BOOLEAN, SetEnable(t, level)
        PROVE  FilledInv'
    BY <2>28 DEF SetEnable
  <2>29. ASSUME Isr
        PROVE  FilledInv'
    BY <2>29 DEF Isr, IsrEnter, IsrCount, IsrReady, IsrStorm
  <2>30. ASSUME Sensor
        PROVE  FilledInv'
    BY <2>30 DEF Sensor
  <2>31. ASSUME UNCHANGED vars
        PROVE  FilledInv'
    BY <2>31 DEF vars
  <2>32. ASSUME NEW t \in Thread, Step(t)
        PROVE  FilledInv'
    BY ZenonT(60), <2>32, <2>3, <2>4, <2>5, <2>6, <2>7, <2>8, <2>9, <2>10, <2>11, <2>12, <2>13, <2>14, <2>15, <2>16, <2>17, <2>18, <2>19, <2>20, <2>21, <2>22, <2>23, <2>24, <2>25, <2>26 DEF Step
  <2>33. QED
    BY ZenonT(60), <2>1, <2>2, <2>27, <2>28, <2>29, <2>30, <2>31, <2>32 DEF Next
<1>3. QED
  BY <1>1, <1>2, TypeCorrect, ControlCorrect, PTL DEF Spec

\* Only raw transfers can carry bytes that are not their sender's.
LEMMA BusSteps ==
  ASSUME TypeOK, [Next]_vars
  PROVE  \/ bus' = bus
         \/ bus'.own = TRUE
         \/ \E t \in Thread : RawStart(t)
<1>1. ASSUME NEW t \in Thread, Step(t), ~RawStart(t)
      PROVE  bus' = bus \/ bus'.own = TRUE
  <2>1. CASE SendHeader(t) \/ SendBody(t) \/ ReadHeader(t) \/ StartBody(t)
    BY <2>1 DEF SendHeader, SendBody, ReadHeader, StartBody, Xfer
  <2>2. CASE Release(t) \/ ClearReady(t) \/ Woken(t) \/ GiveUp(t) \/ FinishBody(t)
    BY <2>2 DEF Release, ClearReady, Woken, GiveUp, FinishBody
  <2>3. CASE Fill(t) \/ FillError(t) \/ FillDone(t) \/ RawFinish(t) \/ TakeLength(t) \/ CopyOut(t)
    BY <2>3 DEF Fill, FillError, FillDone, RawFinish, TakeLength, CopyOut
  <2>4. CASE ResetLow(t) \/ ResetHigh(t) \/ ResetSettled(t)
    BY <2>4 DEF ResetLow, ResetHigh, ResetSettled
  <2>5. CASE DiagAbort(t) \/ DiagZero(t) \/ DiagQueue(t) \/ DiagAgain(t) \/ DiagDone(t)
    BY <2>5 DEF DiagAbort, DiagZero, DiagQueue, DiagAgain, DiagDone
  <2>6. QED
    BY <1>1, <2>1, <2>2, <2>3, <2>4, <2>5 DEF Step
<1>2. ASSUME NEW t \in Thread, (\E knob \in Knobs : Enter(t, knob)) \/ Acquire(t)
      PROVE  bus' = bus
  BY <1>2 DEF Enter, Acquire
<1>3. ASSUME NEW t \in Thread, NEW level \in BOOLEAN, SetEnable(t, level)
      PROVE  bus' = bus
  BY <1>3 DEF SetEnable
<1>4. ASSUME NEW t \in Thread, RunAsync(t)
      PROVE  bus'.own = TRUE
  BY <1>4 DEF RunAsync
<1>5. CASE Isr \/ Sensor \/ UNCHANGED vars
  BY <1>5 DEF Isr, IsrEnter, IsrCount, IsrReady, IsrStorm, Sensor, vars
<1>6. QED
  BY Zenon, <1>1, <1>2, <1>3, <1>4, <1>5 DEF Next

\* A raw transfer sends the bytes its writer wrote, as long as there is one
\* writer: no other knob touches txbuf.
THEOREM RawTransfersOwn == Spec => []RawSendsOwn
<1>1. Init => RawSendsOwn
  BY DEF Init, RawSendsOwn
<1>2. TypeOK /\ ControlInv /\ FilledInv /\ RawSendsOwn /\ [Next]_vars => RawSendsOwn'
  <2> SUFFICES ASSUME TypeOK, ControlInv, FilledInv, bus.own, OneWriter, NoDiag, [Next]_vars
               PROVE  bus'.own
    BY DEF RawSendsOwn, OneWriter
  <2>1. CASE \E t \in Thread : RawStart(t)
    <3>1. PICK t \in Thread : RawStart(t)
      BY <2>1
    <3>2. \A k \in 1..n[t] : txbuf[k] = t
      BY <3>1 DEF RawStart, Goto, ControlInv, FilledInv
    <3>3. bus'.own = \A k \in 1..n[t] : txbuf[k] = t
      BY <3>1 DEF RawStart
    <3>4. QED
      BY <3>2, <3>3
  <2>2. QED
    BY <2>1, BusSteps
<1>3. QED
  BY <1>1, <1>2, TypeCorrect, ControlCorrect, FilledInvCorrect, PTL DEF Spec

Quiet == ~SpiMayFail /\ NoDiag /\ \A t \in Thread : "replay" \notin Ops[t]

\* Between transfers into rxbuf the first rxlen bytes are those of the transfer
\* that set rxlen, and a reader holds the current length.
ReadInv ==
  Quiet =>
    /\ \A t \in Thread : pc[t] = "copy" => n[t] = rxlen
    /\ (\A t \in Thread : pc[t] \notin {"rfin", "xfin"}) =>
         \A k \in 1..rxlen : rxbuf[k] = "own"

\* The strengthening of ReadCoherent is an invariant.
LEMMA ReadInvCorrect == Spec => []ReadInv
<1>1. Init => ReadInv
  BY DriverAssumption DEF Init, ReadInv
<1>2. TypeOK /\ ControlInv /\ LockDiscipline /\ ReadInv /\ [Next]_vars => ReadInv'
  <2> SUFFICES ASSUME TypeOK /\ ControlInv /\ LockDiscipline /\ ReadInv, [Next]_vars
               PROVE  ReadInv'
    OBVIOUS
  <2> USE DEF TypeOK, ReadInv, Quiet, ControlInv, LockDiscipline, Locked, threadVars, rxVars
  <2>1. ASSUME NEW t \in Thread, NEW knob \in Knobs, Enter(t, knob)
        PROVE  ReadInv'
    BY <2>1 DEF Enter, Goto, Knobs
  <2>2. ASSUME NEW t \in Thread, Acquire(t)
        PROVE  ReadInv'
    BY <2>2 DEF Acquire, Goto, FirstLocked
  <2>3. ASSUME NEW t \in Thread, Release(t)
        PROVE  ReadInv'
    BY <2>3 DEF Release, Return, Goto
  <2>4. ASSUME NEW t \in Thread, ClearReady(t)
        PROVE  ReadInv'
    BY <2>4 DEF ClearReady, Goto
  <2>5. ASSUME NEW t \in Thread, SendHeader(t)
        PROVE  ReadInv'
    <3>1. UNCHANGED <<op, n, rxVars>>
      BY <2>5 DEF SendHeader
    <3>2. QED
      BY <2>5, <3>1, ExchangeMoves DEF rxVars
  <2>6. ASSUME NEW t \in Thread, SendBody(t)
        PROVE  ReadInv'
    <3>1. UNCHANGED <<op, n, rxVars>>
      BY <2>6 DEF SendBody
    <3>2. QED
      BY <2>6, <3>1, ExchangeMoves DEF rxVars
  <2>7. ASSUME NEW t \in Thread, Woken(t)
        PROVE  ReadInv'
    BY <2>7 DEF Woken, Goto
  <2>8. ASSUME NEW t \in Thread, GiveUp(t)
        PROVE  ReadInv'
    BY <2>8 DEF GiveUp, Goto
  <2>9. ASSUME NEW t \in Thread, ReadHeader(t)
        PROVE  ReadInv'
    <3>1. UNCHANGED <<rxbuf, rxlen>>
      BY <2>9 DEF ReadHeader
    <3>2. \A u \in Thread \ {t} : n'[u] = n[u]
      BY <2>9 DEF ReadHeader
    <3>3. PICK to \in {"hdr", "unlock", "rbody"} :
            pc[t] = "rhdr" /\ pc' = [pc EXCEPT ![t] = to]
      BY <2>9, ExchangeMoves
    <3>4. \A u \in Thread : pc'[u] = "copy" => u # t /\ pc[u] = "copy"
      BY <3>3
    <3>5. ASSUME NEW u \in Thread, pc'[u] = "copy"
          PROVE  n'[u] = n[u] /\ pc[u] = "copy"
      BY <3>2, <3>4, <3>5
    <3>6. (\A u \in Thread : pc'[u] \notin {"rfin", "xfin"}) =>
            \A u \in Thread : pc[u] \notin {"rfin", "xfin"}
      BY <3>3
    <3>7. QED
      BY <3>1, <3>5, <3>6
  <2>10. ASSUME NEW t \in Thread, StartBody(t)
        PROVE  ReadInv'
    BY <2>10 DEF StartBody, Goto
  <2>11. ASSUME NEW t \in Thread, FinishBody(t)
        PROVE  ReadInv'
    <3>1. SUFFICES ASSUME Quiet
                   PROVE  ReadInv'
      OBVIOUS
    <3>2. pc[t] = "rfin"
      BY <2>11, ExchangeMoves
    <3>3. op[t] # "replay"
      BY SMTT(30), <3>1, <3>2
    <3>4. /\ rxlen' = n[t]
          /\ rxbuf' = [k \in 1..BufMax |-> IF k <= n[t] THEN "own" ELSE "stray"]
      BY Zenon, <2>11, <3>1, <3>3 DEF FinishBody, Quiet
    <3>5. rxlen' = n[t] /\ \A k \in 1..n[t] : rxbuf'[k] = "own"
      BY <3>4, DriverAssumption
    <3>6. \A u \in Thread : pc'[u] # "copy"
      <4>1. PICK to \in {"hdr", "unlock"} : pc[t] = "rfin" /\ pc' = [pc EXCEPT ![t] = to]
        BY <2>11, ExchangeMoves
      <4>2. QED
        BY <4>1
    <3>7. QED
      BY <3>5, <3>6
  <2>12. ASSUME NEW t \in Thread, Fill(t)
        PROVE  ReadInv'
    BY <2>12 DEF Fill, Goto
  <2>13. ASSUME NEW t \in Thread, FillError(t)
        PROVE  ReadInv'
    BY <2>13 DEF FillError, Return, Goto
  <2>14. ASSUME NEW t \in Thread, FillDone(t)
        PROVE  ReadInv'
    BY <2>14 DEF FillDone, Goto
  <2>15. ASSUME NEW t \in Thread, RawStart(t)
        PROVE  ReadInv'
    BY <2>15 DEF RawStart, Goto
  <2>16. ASSUME NEW t \in Thread, RawFinish(t)
        PROVE  ReadInv'
    <3>1. SUFFICES ASSUME Quiet
                   PROVE  ReadInv'
      OBVIOUS
    <3>2. /\ rxlen' = n[t]
          /\ rxbuf' = [k \in 1..BufMax |-> IF k <= n[t] THEN "own" ELSE "stray"]
      BY Zenon, <2>16, <3>1 DEF RawFinish, Quiet
    <3>3. rxlen' = n[t] /\ \A k \in 1..n[t] : rxbuf'[k] = "own"
      BY <3>2, DriverAssumption
    <3>4. \A u \in Thread : pc'[u] # "copy"
      BY <2>16 DEF RawFinish, Goto
    <3>5. QED
      BY <3>3, <3>4
  <2>17. ASSUME NEW t \in Thread, TakeLength(t)
        PROVE  ReadInv'
    BY <2>17 DEF TakeLength, Goto
  <2>18. ASSUME NEW t \in Thread, CopyOut(t)
        PROVE  ReadInv'
    BY <2>18 DEF CopyOut, Goto
  <2>19. ASSUME NEW t \in Thread, ResetLow(t)
        PROVE  ReadInv'
    BY <2>19 DEF ResetLow, Goto
  <2>20. ASSUME NEW t \in Thread, ResetHigh(t)
        PROVE  ReadInv'
    BY <2>20 DEF ResetHigh, Goto
  <2>21. ASSUME NEW t \in Thread, ResetSettled(t)
        PROVE  ReadInv'
    BY <2>21 DEF ResetSettled, Return, Goto
  <2>22. ASSUME NEW t \in Thread, DiagAbort(t)
        PROVE  ReadInv'
    BY <2>22 DEF DiagAbort, Return, Goto
  <2>23. ASSUME NEW t \in Thread, DiagZero(t)
        PROVE  ReadInv'
    BY <2>23, NoDiagSteps DEF DiagZero, Goto
  <2>24. ASSUME NEW t \in Thread, DiagQueue(t)
        PROVE  ReadInv'
    BY <2>24 DEF DiagQueue, Goto
  <2>25. ASSUME NEW t \in Thread, DiagAgain(t)
        PROVE  ReadInv'
    BY <2>25 DEF DiagAgain, Goto
  <2>26. ASSUME NEW t \in Thread, DiagDone(t)
        PROVE  ReadInv'
    BY <2>26 DEF DiagDone, Return, Goto
  <2>27. ASSUME NEW t \in Thread, RunAsync(t)
        PROVE  ReadInv'
    BY <2>27, NoDiagSteps DEF RunAsync
  <2>28. ASSUME NEW t \in Thread, NEW level \in BOOLEAN, SetEnable(t, level)
        PROVE  ReadInv'
    BY <2>28 DEF SetEnable
  <2>29. ASSUME Isr
        PROVE  ReadInv'
    BY ZenonT(60), <2>29 DEF Isr, IsrEnter, IsrCount, IsrReady, IsrStorm
  <2>30. ASSUME Sensor
        PROVE  ReadInv'
    BY <2>30 DEF Sensor
  <2>31. ASSUME UNCHANGED vars
        PROVE  ReadInv'
    BY <2>31 DEF vars
  <2>32. ASSUME NEW t \in Thread, Step(t)
        PROVE  ReadInv'
    BY ZenonT(60), <2>32, <2>3, <2>4, <2>5, <2>6, <2>7, <2>8, <2>9, <2>10, <2>11, <2>12, <2>13, <2>14, <2>15, <2>16, <2>17, <2>18, <2>19, <2>20, <2>21, <2>22, <2>23, <2>24, <2>25, <2>26 DEF Step
  <2>33. QED
    BY ZenonT(60), <2>1, <2>2, <2>27, <2>28, <2>29, <2>30, <2>31, <2>32 DEF Next
<1>3. QED
  BY <1>1, <1>2, TypeCorrect, ControlCorrect, LockCorrect, PTL DEF Spec

\* A reader of raw copies bytes of one transfer only, the one whose length it
\* took, while transfers do not fail and nobody replays.
THEOREM ReadsCoherent == Spec => []ReadCoherent
<1>1. TypeOK /\ LockDiscipline /\ ReadInv => ReadCoherent
  <2> SUFFICES ASSUME TypeOK, LockDiscipline, ReadInv, Quiet,
                      NEW t \in Thread, pc[t] = "copy"
               PROVE  \A k \in 1..n[t] : rxbuf[k] = "own"
    BY DEF ReadCoherent, Quiet
  <2>1. \A u \in Thread : pc[u] \notin {"rfin", "xfin"}
    BY DEF TypeOK, LockDiscipline, Locked
  <2>2. QED
    BY <2>1 DEF ReadInv
<1>2. QED
  BY <1>1, ReadInvCorrect, TypeCorrect, LockCorrect, PTL

=============================================================================
