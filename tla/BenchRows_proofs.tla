-------------------------- MODULE BenchRows_proofs --------------------------
(***************************************************************************)
(* What the resets of the scripts are worth, whatever ran before them: how *)
(* the steps of a row leave the reset line and the sensor, and what that   *)
(* says of the answers the row reports.                                    *)
(***************************************************************************)
EXTENDS ToolBench_proofs

Quiet == pending = 0 /\ ~todo

-----------------------------------------------------------------------------
(* The steps behind a step.                                                *)

LEMMA SinceNone ==
  ASSUME NEW steps \in Seq(STRING), NEW these, NEW those
  PROVE  ~Since(steps, 1, these, those)
<1>1. DOMAIN steps = 1..Len(steps) /\ Len(steps) \in Nat
  OBVIOUS
<1> QED BY <1>1 DEF Since

LEMMA SinceOneMore ==
  ASSUME NEW steps \in Seq(STRING), NEW i \in DOMAIN steps, NEW these, NEW those,
         Since(steps, i + 1, these, those)
  PROVE  steps[i] \in these \/ (steps[i] \notin those /\ Since(steps, i, these, those))
<1>1. DOMAIN steps \subseteq Int
  OBVIOUS
<1>2. PICK j \in DOMAIN steps :
        /\ j < i + 1 /\ steps[j] \in these
        /\ \A m \in DOMAIN steps : j < m /\ m < i + 1 => steps[m] \notin those
  BY DEF Since
<1>3. CASE j = i
  BY <1>2, <1>3
<1>4. CASE j # i
  <2>1. j < i /\ i < i + 1
    BY <1>1, <1>2, <1>4
  <2>2. \A m \in DOMAIN steps : j < m /\ m < i => steps[m] \notin those
    BY <1>1, <1>2
  <2>3. steps[i] \notin those
    BY <1>2, <2>1
  <2> QED BY <1>2, <2>1, <2>2, <2>3 DEF Since
<1> QED BY <1>3, <1>4

LEMMA StepsTyped ==
  ASSUME PlaceInv
  PROVE  /\ Steps \in Seq(STRING) /\ row \in DOMAIN Rows
         /\ phase = "prep" => Steps = Rows[row].prep
         /\ phase = "probe" => Steps = Rows[row].probe
BY RowTypes DEF PlaceInv, Steps

LEMMA NextStep ==
  ASSUME PlaceInv, RowStep
  PROVE  /\ at \in DOMAIN Steps /\ at' = at + 1 /\ Steps' = Steps
         /\ Steps[at] \in STRING
         /\ phase \in {"prep", "probe"} /\ UNCHANGED <<row, phase, inverted, wiring, failed, report>>
<1>1. /\ phase \in {"prep", "probe"} /\ at <= Len(Steps) /\ at' = at + 1
      /\ UNCHANGED <<row, phase, inverted, wiring, failed, report>>
  BY RowStepDoes
<1>2. Steps \in Seq(STRING) /\ at \in Nat \ {0}
  BY StepsTyped DEF PlaceInv
<1>3. at \in DOMAIN Steps
  BY <1>1, <1>2
<1> QED BY <1>1, <1>2, <1>3 DEF Steps

-----------------------------------------------------------------------------
(* What a step does to the line and the sensor.                            *)

\* A step that drives the line.
LEMMA DriveSteps ==
  ASSUME PlaceInv, RowStep
  PROVE  /\ Steps[at] \in Highs(inverted) => DriveReset(TRUE)
         /\ Steps[at] \in Lows(inverted) => DriveReset(FALSE)
<1>0. inverted \in BOOLEAN
  BY DEF PlaceInv
<1>1. CASE Steps[at] \in {"set0", "set1"}
  <2>1. PICK high \in BOOLEAN : SetLine(high)
    BY <1>1 DEF RowStep, SetLine, Take, Drop, Sleep, Unbind, Bind, Suspend, Open,
         SendHdr, SendBody, Read, Window, Peek, PeekFails, Glance, Watch, Pulse, Do
  <2>2. Steps[at] = (IF high THEN "set1" ELSE "set0") /\ DriveReset(high # inverted)
    BY <2>1 DEF SetLine, Do
  <2>3. Steps[at] \in Highs(inverted) => (high # inverted) = TRUE
    BY <1>0, <2>2 DEF Highs
  <2>4. Steps[at] \in Lows(inverted) => (high # inverted) = FALSE
    BY <1>0, <2>2 DEF Lows
  <2> QED BY <1>1, <2>2, <2>3, <2>4
<1>2. CASE Steps[at] \in Takes
  <2>1. PICK high \in BOOLEAN : Take(high)
    BY <1>2 DEF RowStep, SetLine, Take, Drop, Sleep, Unbind, Bind, Suspend, Open,
         SendHdr, SendBody, Read, Window, Peek, PeekFails, Glance, Watch, Pulse, Do, Takes
  <2>2. high = (Steps[at] = "take1" \/ IrqHigh) /\ DriveReset(high # inverted)
    BY <2>1 DEF Take, Do
  <2>3. Steps[at] \in Highs(inverted) => (high # inverted) = TRUE
    BY <1>0, <1>2, <2>2 DEF Highs, Takes
  <2>4. Steps[at] \in Lows(inverted) => (high # inverted) = FALSE
    BY <1>0, <1>2, <2>2 DEF Lows, Takes
  <2> QED BY <2>2, <2>3, <2>4
<1> QED BY <1>1, <1>2 DEF Highs, Lows, Takes

\* The other steps.
LEMMA OtherSteps ==
  ASSUME PlaceInv, RowStep
  PROVE  /\ Steps[at] \notin Moves => UNCHANGED <<reset, mcu>>
         /\ Steps[at] = "settle" => mcu # "booting"
<1> USE DEF Moves
<1>1. CASE \E high \in BOOLEAN : SetLine(high)
  BY <1>1 DEF SetLine, Do, Drives
<1>2. CASE \E high \in BOOLEAN : Take(high)
  BY <1>2 DEF Take, Do, Drives
<1>3. CASE Suspend
  BY <1>3 DEF Suspend, Do
<1>4. CASE Drop
  BY <1>4 DEF Drop, Do, sensorVars
<1>5. CASE Sleep
  BY <1>5 DEF Sleep, Do, sensorVars
<1>6. CASE Unbind \/ Bind \/ Open \/ PeekFails \/ Glance \/ Watch \/ Pulse
  BY <1>6 DEF Unbind, Bind, Open, PeekFails, Glance, Watch, Pulse, Do, sensorVars
<1>7. CASE SendHdr \/ SendBody
  BY <1>7 DEF SendHdr, SendBody, Do, Clocked, HearCommand, sensorVars
<1>8. CASE Read \/ Window \/ Peek
  BY <1>8 DEF Read, Window, Peek, Get, GetPart, Noise, Nothing, Do, Clocked, GiveFrame, sensorVars
<1> QED BY <1>1, <1>2, <1>3, <1>4, <1>5, <1>6, <1>7, <1>8 DEF RowStep

\* A sensor without commands and replies stays so until a command reaches it.
LEMMA QuietSteps ==
  ASSUME Quiet, RowStep, ~SendBody \/ mcu # "up" \/ ~Hears
  PROVE  Quiet'
<1> USE DEF Quiet
<1>1. ASSUME NEW high \in BOOLEAN, DriveReset(high) PROVE Quiet'
  BY <1>1 DEF DriveReset
<1>2. ASSUME Clocked \/ GiveFrame \/ UNCHANGED sensorVars PROVE Quiet'
  BY <1>2 DEF Clocked, GiveFrame, FrameTaken, sensorVars
<1>3. CASE \E high \in BOOLEAN : SetLine(high) \/ Take(high)
  <2>1. PICK high \in BOOLEAN : DriveReset(high # inverted)
    BY <1>3 DEF SetLine, Take
  <2> QED BY <1>1, <2>1
<1>4. CASE Suspend
  BY <1>1, <1>4 DEF Suspend
<1>5. CASE Drop \/ Sleep \/ Unbind \/ Bind \/ Open \/ PeekFails \/ Glance \/ Watch \/ Pulse
  BY <1>2, <1>5 DEF Drop, Sleep, Unbind, Bind, Open, PeekFails, Glance, Watch, Pulse
<1>6. CASE SendHdr \/ Read \/ Window \/ Peek
  BY <1>2, <1>6 DEF SendHdr, Read, Window, Peek, Get, GetPart, Noise, Nothing
<1>7. CASE SendBody
  <2>1. CASE Hears /\ HearCommand
    <3>1. mcu # "up" /\ ~todo
      BY <1>7, <2>1
    <3>2. ~todo'
      BY <2>1, <3>1 DEF HearCommand
    <3>3. pending' = 0
      BY <2>1 DEF HearCommand, FrameTaken
    <3> QED BY <3>2, <3>3
  <2>2. CASE UNCHANGED sensorVars
    BY <1>2, <2>2
  <2> QED BY <1>7, <2>1, <2>2 DEF SendBody
<1> QED BY <1>3, <1>4, <1>5, <1>6, <1>7 DEF RowStep

LEMMA QuietRests ==
  ASSUME Quiet, Sensor \/ UNCHANGED vars
  PROVE  Quiet' /\ UNCHANGED reset /\ (mcu # "booting" => UNCHANGED mcu)
BY DEF Quiet, Sensor, Boot, Answer, vars, sensorVars

\* In reset it is without commands and replies.
ResetQuiet == reset => Quiet

LEMMA ResetQuietInit == Init => ResetQuiet
BY DEF Init, SensorInit, ResetQuiet, Quiet

LEMMA ResetQuietStep == HeldInv /\ ResetQuiet /\ [Next]_vars => ResetQuiet'
<1> SUFFICES ASSUME HeldInv, ResetQuiet, [Next]_vars, reset' PROVE Quiet'
  BY DEF ResetQuiet
<1>1. CASE RowStep
  <2>1. CASE \E high \in BOOLEAN : SetLine(high) \/ Take(high)
    <3>1. PICK high \in BOOLEAN : DriveReset(high # inverted)
      BY <2>1 DEF SetLine, Take
    <3> QED BY <3>1 DEF DriveReset, Quiet
  <2>2. CASE Suspend
    BY <2>2 DEF Suspend, DriveReset, Quiet
  <2>3. CASE ~Suspend /\ ~\E high \in BOOLEAN : SetLine(high) \/ Take(high)
    <3>1. reset
      BY <1>1, <2>3 DEF RowStep, Drop, Sleep, Unbind, Bind, Open, PeekFails, Glance,
           Watch, Pulse, SendHdr, SendBody, Read, Window, Peek, Get, GetPart, Noise, Nothing,
           Clocked, HearCommand, GiveFrame, sensorVars
    <3>2. mcu # "up" /\ Quiet
      BY <3>1 DEF HeldInv, ResetQuiet
    <3> QED BY <1>1, <3>2, QuietSteps
  <2> QED BY <2>1, <2>2, <2>3
<1>2. CASE Exit \/ Begin \/ Reject \/ Raise \/ Report \/ Release
  <2>1. UNCHANGED sensorVars
    BY <1>2 DEF Exit, Begin, Reject, Raise, Report, Release
  <2>2. reset
    BY <2>1 DEF sensorVars
  <2> QED BY <2>1, <2>2 DEF sensorVars, ResetQuiet, Quiet
<1>3. CASE Sensor \/ UNCHANGED vars
  <2>1. reset
    BY <1>3 DEF Sensor, Boot, Answer, vars, sensorVars
  <2> QED BY <1>3, <2>1, QuietRests DEF ResetQuiet
<1> QED BY <1>1, <1>2, <1>3, StepKinds

-----------------------------------------------------------------------------
(* What the steps behind a row have done, wherever it was before.          *)

LineInv ==
  phase \in {"prep", "probe"} =>
    /\ Since(Steps, at, Highs(inverted), Moves \ Highs(inverted)) => reset
    /\ Since(Steps, at, Lows(inverted), Moves \ Lows(inverted)) => ~reset
    /\ Since(Steps, at, Highs(inverted), {"body"}) => Quiet
    /\ Since(Steps, at, {"settle"}, Moves) => mcu # "booting"

\* Nothing is behind a first step.
LEMMA LineFirst ==
  ASSUME PlaceInv, at = 1
  PROVE  LineInv
BY StepsTyped, SinceNone DEF LineInv

LEMMA LineRowStep ==
  ASSUME PlaceInv, HeldInv, LineInv, RowStep
  PROVE  LineInv'
<1>0. /\ at \in DOMAIN Steps /\ at' = at + 1 /\ Steps' = Steps /\ inverted' = inverted
      /\ phase \in {"prep", "probe"} /\ Steps \in Seq(STRING)
  BY NextStep, StepsTyped
<1>1. ASSUME Since(Steps, at + 1, Highs(inverted), Moves \ Highs(inverted)) PROVE reset'
  <2>1. CASE Steps[at] \in Highs(inverted)
    BY <2>1, DriveSteps DEF DriveReset
  <2>2. CASE Steps[at] \notin Highs(inverted)
    <3>1. /\ Steps[at] \notin Moves
          /\ Since(Steps, at, Highs(inverted), Moves \ Highs(inverted))
      BY <1>0, <1>1, <2>2, SinceOneMore
    <3> QED BY <1>0, <3>1, OtherSteps DEF LineInv
  <2> QED BY <2>1, <2>2
<1>2. ASSUME Since(Steps, at + 1, Lows(inverted), Moves \ Lows(inverted)) PROVE ~reset'
  <2>1. CASE Steps[at] \in Lows(inverted)
    BY <2>1, DriveSteps DEF DriveReset
  <2>2. CASE Steps[at] \notin Lows(inverted)
    <3>1. /\ Steps[at] \notin Moves
          /\ Since(Steps, at, Lows(inverted), Moves \ Lows(inverted))
      BY <1>0, <1>2, <2>2, SinceOneMore
    <3>2. ~reset /\ UNCHANGED reset
      BY <1>0, <3>1, OtherSteps DEF LineInv
    <3> QED BY <3>2
  <2> QED BY <2>1, <2>2
<1>3. ASSUME Since(Steps, at + 1, Highs(inverted), {"body"}) PROVE Quiet'
  <2>1. CASE Steps[at] \in Highs(inverted)
    BY <2>1, DriveSteps DEF DriveReset, Quiet
  <2>2. CASE Steps[at] \notin Highs(inverted)
    <3>1. Steps[at] # "body" /\ Quiet
      BY <1>0, <1>3, <2>2, SinceOneMore DEF LineInv
    <3>2. ~SendBody
      BY <3>1 DEF SendBody, Do
    <3> QED BY <3>1, <3>2, QuietSteps
  <2> QED BY <2>1, <2>2
<1>4. ASSUME Since(Steps, at + 1, {"settle"}, Moves) PROVE mcu' # "booting"
  <2>1. CASE Steps[at] = "settle"
    BY <2>1, OtherSteps DEF Moves, Drives
  <2>2. CASE Steps[at] # "settle"
    <3>1. /\ Steps[at] \notin Moves
          /\ Since(Steps, at, {"settle"}, Moves)
      BY <1>0, <1>4, <2>2, SinceOneMore
    <3> QED BY <1>0, <3>1, OtherSteps DEF LineInv
  <2> QED BY <2>1, <2>2
<1> QED BY <1>0, <1>1, <1>2, <1>3, <1>4 DEF LineInv

LEMMA LineInit == Init => LineInv
BY PlaceInit, LineFirst DEF Init

LEMMA LineStep == PlaceInv /\ HeldInv /\ LineInv /\ [Next]_vars => LineInv'
<1> SUFFICES ASSUME PlaceInv, HeldInv, LineInv, [Next]_vars PROVE LineInv'
  OBVIOUS
<1>1. CASE RowStep
  BY <1>1, LineRowStep
<1>2. CASE Exit \/ Reject \/ Raise \/ Report
  <2>1. phase' \notin {"prep", "probe"}
    BY <1>2, OthersEnd DEF Ends
  <2> QED BY <2>1 DEF LineInv
<1>3. CASE Begin \/ Release
  <2>1. at' = 1 /\ PlaceInv'
    BY <1>3, PlaceStep DEF Begin, Release
  <2>2. Steps' \in Seq(STRING)
    <3>1. row' \in DOMAIN Rows
      BY <2>1 DEF PlaceInv
    <3> QED BY <3>1, RowTypes DEF Steps
  <2> QED BY <2>1, <2>2, SinceNone DEF LineInv
<1>4. CASE Sensor \/ UNCHANGED vars
  <2>1. UNCHANGED <<phase, at, row, inverted, owner>>
    BY <1>4 DEF Sensor, vars, toolVars
  <2>2. Steps' = Steps /\ UNCHANGED reset /\ (mcu # "booting" => UNCHANGED mcu)
        /\ (Quiet => Quiet')
    BY <1>4, <2>1, QuietRests DEF Steps, Sensor, Boot, Answer, vars, sensorVars
  <2> QED BY <2>1, <2>2 DEF LineInv
<1> QED BY <1>1, <1>2, <1>3, <1>4, StepKinds

\* A row whose preparation is done.
LEMMA RowBegins ==
  ASSUME PlaceInv, Begin
  PROVE  /\ phase = "prep" /\ at = Len(Rows[row].prep) + 1 /\ Steps = Rows[row].prep
         /\ phase' = "probe" /\ at' = 1
         /\ UNCHANGED <<sensorVars, row, inverted, wiring, failed, seen, asked, from>>
<1>1. /\ phase = "prep" /\ at > Len(Steps) /\ phase' = "probe" /\ at' = 1
      /\ UNCHANGED <<sensorVars, row, inverted, wiring, failed, seen, asked, from>>
  BY DEF Begin
<1>2. Steps = Rows[row].prep /\ Len(Rows[row].prep) \in Nat /\ at \in Nat
      /\ at <= Len(Rows[row].prep) + 1
  BY <1>1, RowTypes DEF PlaceInv, Steps
<1>3. at = Len(Rows[row].prep) + 1
  BY <1>1, <1>2
<1> QED BY <1>1, <1>2, <1>3

\* A row that ran to its end.
LEMMA RowReports ==
  ASSUME PlaceInv, Report
  PROVE  /\ phase = "probe" /\ at = Len(Rows[row].probe) + 1 /\ Steps = Rows[row].probe
         /\ phase' = "release" /\ at' = 1
         /\ UNCHANGED <<sensorVars, row, inverted, wiring, failed, seen, asked, from>>
<1>1. /\ phase = "probe" /\ at > Len(Steps) /\ phase' = "release" /\ at' = 1
      /\ UNCHANGED <<sensorVars, row, inverted, wiring, failed, seen, asked, from>>
  BY DEF Report
<1>2. Steps = Rows[row].probe /\ Len(Rows[row].probe) \in Nat /\ at \in Nat
      /\ at <= Len(Rows[row].probe) + 1
  BY <1>1, RowTypes DEF PlaceInv, Steps
<1>3. at = Len(Rows[row].probe) + 1
  BY <1>1, <1>2
<1> QED BY <1>1, <1>2, <1>3

-----------------------------------------------------------------------------
(* Reports and exceptions.                                                 *)

\* What a row reports is what it saw, until the next row begins.
ReportInv ==
  report = IF phase = "release"
           THEN [row |-> row, hit |-> hit, level |-> level, failed |-> failed, heard |-> heard]
           ELSE NoReport

LEMMA ReportInit == Init => ReportInv
BY DEF Init, ReportInv

LEMMA ReportStep == ReportInv /\ [Next]_vars => ReportInv'
<1> SUFFICES ASSUME ReportInv, [Next]_vars PROVE ReportInv'
  OBVIOUS
<1>1. CASE RowStep
  <2>1. UNCHANGED <<phase, report>> /\ phase \in {"prep", "probe"}
    BY <1>1, RowStepDoes
  <2> QED BY <2>1 DEF ReportInv
<1>2. CASE Exit \/ Begin \/ Reject \/ Raise
  <2>1. UNCHANGED report /\ phase \in {"prep", "probe"} /\ phase' # "release"
    BY <1>2 DEF Exit, Missing, Begin, Reject, Raise
  <2> QED BY <2>1 DEF ReportInv
<1>3. CASE Report
  BY <1>3 DEF Report, ReportInv, seen
<1>4. CASE Release
  BY <1>4 DEF Release, ReportInv
<1>5. CASE Sensor \/ UNCHANGED vars
  BY <1>5 DEF Sensor, vars, toolVars, seen, ReportInv
<1> QED BY <1>1, <1>2, <1>3, <1>4, <1>5, StepKinds

LEMMA RaisesAt ==
  ASSUME PlaceInv, Raise
  PROVE  at \in DOMAIN Steps
BY StepsTyped DEF PlaceInv, Raise

\* An exception in a preparation that is caught is one of the preparation's.
LEMMA CaughtInPrep ==
  ASSUME PlaceInv, Raise, phase = "prep", phase' = "fail"
  PROVE  "prep" \in Rows[row].caught
<1>1. /\ Steps = Rows[row].prep /\ row \in DOMAIN Rows /\ at \in DOMAIN Rows[row].prep
  BY StepsTyped, RaisesAt
<1>2. Steps[at] \in Drives \cup {"drop", "nap", "settle", "unbind", "bind", "suspend", "check",
                                 "glance"}
  BY <1>1, PrepAssumption
<1>3. (IF Steps[at] \in {"open", "check", "verify"} THEN Steps[at] ELSE "prep")
        \in Rows[row].caught
  BY DEF Raise
<1>4. Steps[at] # "check"
  BY <1>1, <1>3, CatchAssumption
<1> QED BY <1>2, <1>3, <1>4 DEF Drives

LEMMA RejectsFirst ==
  ASSUME PlaceInv, Reject, phase = "prep"
  PROVE  at = 1 /\ Rows[row].prep[1] = "check" /\ Rows[row].prep # <<>>
<1>1. Steps = Rows[row].prep /\ row \in DOMAIN Rows /\ Rows[row].prep \in Seq(STRING)
  BY StepsTyped, RowTypes
<1>2. Steps[at] \in {"check", "verify"} /\ at \in DOMAIN Steps
  BY <1>1 DEF Reject, PlaceInv
<1>3. Steps[at] = "check"
  BY <1>1, <1>2, PrepAssumption DEF Drives
<1>4. at = 1
  BY <1>1, <1>2, <1>3, PrepAssumption
<1> QED BY <1>1, <1>2, <1>3, <1>4

\* A row or a preparation that is cut short.
LEMMA CutsShort ==
  ASSUME Reject \/ Raise
  PROVE  /\ phase \in {"prep", "probe"} /\ phase' \in {"fail", "crash"}
         /\ failed' = (failed \/ phase = "prep")
         /\ UNCHANGED <<sensorVars, row, inverted, wiring, seen, asked, from>>
BY DEF Reject, Raise, CutShort

-----------------------------------------------------------------------------
(* What a row counts as an answer.                                         *)

\* The steps that may change what the row has seen.
LEMMA SeenSteps ==
  ASSUME RowStep
  PROVE  \/ UNCHANGED <<hit, heard>>
         \/ (Get \/ GetPart) /\ (Read \/ Window \/ Peek)
         \/ Noise /\ (Read \/ Window \/ Peek)
         \/ Peek /\ hit' = (hit \/ idle # "ff") /\ UNCHANGED heard
         \/ Watch /\ UNCHANGED heard
         \/ Pulse
<1>1. CASE (\E high \in BOOLEAN : SetLine(high) \/ Take(high)) \/ Drop \/ Sleep
           \/ Unbind \/ Bind \/ Suspend \/ Open \/ SendHdr \/ SendBody \/ PeekFails \/ Glance
  BY <1>1 DEF SetLine, Take, Drop, Sleep, Unbind, Bind, Suspend, Open, SendHdr, SendBody,
              PeekFails, Glance, seen
<1>2. CASE Read \/ Window \/ Peek
  BY <1>2 DEF Read, Window, Peek, Nothing
<1>3. CASE Watch
  BY <1>3 DEF Watch
<1> QED BY <1>1, <1>2, <1>3 DEF RowStep

\* A preparation sees nothing, and sends nothing.
LEMMA PrepSeesNothing ==
  ASSUME PlaceInv, RowStep, phase = "prep"
  PROVE  UNCHANGED <<hit, heard>> /\ ~SendBody
<1>1. at \in DOMAIN Rows[row].prep /\ Steps = Rows[row].prep /\ row \in DOMAIN Rows
  BY NextStep, StepsTyped
<1>2. Steps[at] \in Drives \cup {"drop", "nap", "settle", "unbind", "bind", "suspend", "check",
                                 "glance"}
  BY <1>1, PrepAssumption
<1>3. ~(SendHdr \/ SendBody \/ Read \/ Window \/ Peek \/ PeekFails \/ Watch \/ Pulse)
  BY <1>2 DEF Drives, SendHdr, SendBody, Read, Window, Peek, PeekFails, Watch, Pulse, Do
<1> QED
  BY <1>3 DEF RowStep, SetLine, Take, Drop, Sleep, Unbind, Bind, Suspend, Open, Glance, seen

BlindInv == phase = "prep" => ~hit /\ heard = {}

LEMMA BlindStep == PlaceInv /\ BlindInv /\ [Next]_vars => BlindInv'
<1> SUFFICES ASSUME PlaceInv, BlindInv, [Next]_vars, phase' = "prep"
             PROVE  ~hit' /\ heard' = {}
  BY DEF BlindInv
<1>1. CASE RowStep
  BY <1>1, RowStepDoes, PrepSeesNothing DEF BlindInv
<1>2. CASE Exit \/ Begin \/ Reject \/ Raise \/ Report
  BY <1>2 DEF Exit, Begin, Reject, Raise, Report
<1>3. CASE Release
  BY <1>3 DEF Release
<1>4. CASE Sensor \/ UNCHANGED vars
  BY <1>4 DEF Sensor, vars, toolVars, seen, BlindInv
<1> QED BY <1>1, <1>2, <1>3, <1>4, StepKinds

\* What holds of the line and of the sensor, whatever the script.
BenchInv == /\ PlaceInv /\ HeldInv /\ FromInv /\ RestInv /\ ResetQuiet /\ LineInv
            /\ ReportInv /\ BlindInv

LEMMA BenchCorrect == Spec => []BenchInv
<1>1. Init => BenchInv
  <2>1. Init => BlindInv
    BY DEF Init, BlindInv
  <2> QED
    BY <2>1, PlaceInit, HeldInit, FromInit, RestInit, ResetQuietInit, LineInit, ReportInit
       DEF BenchInv
<1>2. BenchInv /\ [Next]_vars => BenchInv'
  BY PlaceStep, HeldStep, FromStep, RestStep, ResetQuietStep, LineStep, ReportStep, BlindStep
     DEF BenchInv
<1> QED BY <1>1, <1>2, PTL DEF Spec

\* The exchange leaves the line alone.
LEMMA ProbeLeavesLine ==
  ASSUME PlaceInv, RowStep, phase = "probe", Rows[row].name # "control"
  PROVE  UNCHANGED <<reset, mcu>>
<1>1. at \in DOMAIN Rows[row].probe /\ Steps = Rows[row].probe /\ row \in DOMAIN Rows
  BY NextStep, StepsTyped
<1>2. Steps[at] \notin Moves
  BY <1>1, PrepAssumption DEF Moves
<1> QED BY <1>2, OtherSteps

LEMMA NotControls ==
  ASSUME NEW k \in DOMAIN Rows, HighRow(Rows[k]) \/ Rows[k].script \in OldSweeps
  PROVE  Rows[k].name # "control"
BY RunAssumption DEF HighRow, OldSweeps, LowScripts

-----------------------------------------------------------------------------
(* The rows that find, or make, the line HIGH.                             *)

\* The line is as the row says, unless the row found it after a preparation that failed.
Sure == ~Found(Rows[row]) \/ ~failed

HighInv ==
  HighRow(Rows[row]) /\ ~inverted =>
    /\ phase = "prep" /\ Found(Rows[row]) /\ ~failed => reset
    /\ phase \in {"probe", "release"} /\ Sure => reset
    /\ phase = "fail" /\ ~failed => reset

LEMMA HighInit == Init => HighInv
<1> SUFFICES ASSUME Init PROVE HighInv
  OBVIOUS
<1>1. phase = "prep" /\ Opens(row) /\ row \in DOMAIN Rows
  BY StartsAreFirst, StartsAreRows DEF Init
<1>2. HighRow(Rows[row]) => ~Found(Rows[row])
  BY <1>1, HighAssumption
<1> QED BY <1>1, <1>2 DEF HighInv

LEMMA HighStep == BenchInv /\ HighInv /\ [Next]_vars => HighInv'
<1> SUFFICES ASSUME BenchInv, HighInv, [Next]_vars, HighRow(Rows[row']), ~inverted'
             PROVE  /\ phase' = "prep" /\ Found(Rows[row']) /\ ~failed' => reset'
                    /\ phase' \in {"probe", "release"} /\ Sure' => reset'
                    /\ phase' = "fail" /\ ~failed' => reset'
  BY DEF HighInv
<1> USE DEF BenchInv
<1>0. row \in DOMAIN Rows /\ at \in Nat
  BY DEF PlaceInv
<1>1. CASE RowStep
  <2>1. /\ UNCHANGED <<row, phase, inverted, failed>> /\ phase \in {"prep", "probe"}
        /\ HighRow(Rows[row]) /\ ~inverted /\ Sure' = Sure
    BY <1>1, NextStep DEF Sure
  <2>2. CASE phase = "probe"
    <3>1. UNCHANGED reset
      BY <1>0, <1>1, <2>1, <2>2, ProbeLeavesLine, NotControls
    <3> QED BY <2>1, <2>2, <3>1 DEF HighInv
  <2>3. CASE phase = "prep" /\ Found(Rows[row])
    <3>1. at \in DOMAIN Rows[row].prep /\ Steps = Rows[row].prep
      BY <1>1, <2>3, NextStep, StepsTyped
    <3>2. Steps[at] \notin Moves
      BY <1>0, <2>1, <2>3, <3>1, HighAssumption DEF Found, Moves
    <3> QED BY <1>1, <2>1, <2>3, <3>2, OtherSteps DEF HighInv
  <2>4. CASE phase = "prep" /\ ~Found(Rows[row])
    BY <2>1, <2>4
  <2> QED BY <2>1, <2>2, <2>3, <2>4
<1>2. CASE Begin
  <2>1. /\ phase = "prep" /\ at = Len(Rows[row].prep) + 1 /\ Steps = Rows[row].prep
        /\ phase' = "probe" /\ UNCHANGED <<reset, row, inverted, failed>>
    BY <1>2, RowBegins DEF sensorVars
  <2>2. CASE Found(Rows[row])
    BY <2>1, <2>2 DEF HighInv, Sure
  <2>3. CASE ~Found(Rows[row])
    <3>1. Since(Steps, at, Highs(FALSE), Moves \ Highs(FALSE))
      BY <1>0, <2>1, <2>3, HighAssumption DEF LeavesHigh
    <3>2. inverted = FALSE
      BY <2>1 DEF PlaceInv
    <3> QED BY <2>1, <3>1, <3>2 DEF LineInv
  <2> QED BY <2>2, <2>3
<1>3. CASE Report
  BY <1>3, RowReports DEF HighInv, sensorVars, Sure
<1>4. CASE Exit
  BY <1>4 DEF Exit
<1>5. CASE Reject \/ Raise
  BY <1>5, CutsShort DEF HighInv, sensorVars, Sure
<1>6. CASE Release
  <2>1. phase' = "prep" /\ reset' = reset /\ phase \in {"release", "fail", "crash"}
    BY <1>6 DEF Release, sensorVars
  <2>2. SUFFICES ASSUME Found(Rows[row']), ~failed' PROVE reset'
    BY <2>1
  <2>3. row' \in DOMAIN Rows
    BY PlaceStep DEF PlaceInv
  <2>4. ~Opens(row') /\ HighRow(Rows[row' - 1])
    BY <2>2, <2>3, HighAssumption
  <2>5. CASE \E k \in DOMAIN Rows : Start(k)
    BY <2>4, <2>5, StartsAreFirst DEF Start
  <2>6. CASE ~\E k \in DOMAIN Rows : Start(k)
    <3>1. /\ row' = row + 1 /\ ~Rows[row].last /\ phase # "crash" /\ inverted' = inverted
      BY <1>6, <2>6, OnwardKinds
    <3>2. row' - 1 = row
      BY <1>0, <3>1, RowTypes
    <3>3. ~failed
      BY <1>6, <2>2, <3>1 DEF Release, ScriptEnds
    <3> QED BY <2>1, <2>4, <3>1, <3>2, <3>3 DEF HighInv, Sure
  <2> QED BY <2>5, <2>6
<1>7. CASE Sensor \/ UNCHANGED vars
  <2>1. UNCHANGED <<phase, row, inverted, failed, reset>>
    BY <1>7, QuietRests DEF Sensor, Boot, Answer, vars, sensorVars, toolVars
  <2> QED BY <2>1 DEF HighInv, Sure
<1> QED BY <1>1, <1>2, <1>3, <1>4, <1>5, <1>6, <1>7, StepKinds

\* A row that finds the line HIGH, and the wire at ones, sees nothing.
SilentInv ==
  HighRow(Rows[row]) /\ ~inverted /\ Sure /\ idle = "ff" /\ phase \in {"probe", "release"} =>
    /\ ~hit
    /\ Rows[row].script = "touch" /\ phase = "probe" /\ at > 1 => level

LEMMA HighScripts ==
  ASSUME NEW k \in DOMAIN Rows, HighRow(Rows[k])
  PROVE  Rows[k].script \in Readers \cup {"sigfrodr", "touch"}
BY DEF HighRow, OldSweeps, Readers

LEMMA SilentProbeStep ==
  ASSUME BenchInv, HighInv, SilentInv, RowStep, phase = "probe",
         HighRow(Rows[row]), ~inverted, Sure, idle = "ff"
  PROVE  ~hit' /\ (Rows[row].script = "touch" => level')
<1> USE DEF BenchInv
<1>1. /\ at \in DOMAIN Rows[row].probe /\ Steps = Rows[row].probe /\ row \in DOMAIN Rows
      /\ at \in Nat \ {0}
  BY NextStep, StepsTyped DEF PlaceInv
<1>2. reset /\ pending = 0 /\ IrqHigh /\ ~Get /\ ~GetPart /\ ~Noise
  BY DEF HighInv, HeldInv, ResetQuiet, Quiet, IrqHigh, Get, GetPart, Noise, Waiting
<1>3. ~Pulse
  <2>1. Steps[at] # "pulse"
    BY <1>1, HighScripts, ReadersAssumption, HighAssumption DEF StepsOf
  <2> QED BY <2>1 DEF Pulse, Do
<1>4. ASSUME Rows[row].script # "touch" PROVE ~hit'
  <2>1. Steps[at] # "watch"
    BY <1>1, <1>4, HighScripts, ReadersAssumption DEF StepsOf
  <2>2. ~Watch
    BY <2>1 DEF Watch, Do
  <2> QED BY <1>2, <1>3, <2>2, SeenSteps DEF SilentInv
<1>5. ASSUME Rows[row].script = "touch" PROVE ~hit' /\ level'
  <2>1. CASE at = 1
    <3>1. Steps[at] = "glance"
      BY <1>1, <1>5, <2>1, HighAssumption
    <3>2. Glance
      BY <3>1 DEF RowStep, SetLine, Take, Drop, Sleep, Unbind, Bind, Suspend, Open, SendHdr,
           SendBody, Read, Window, Peek, PeekFails, Glance, Watch, Pulse, Do
    <3>3. level' = IrqHigh /\ hit' = hit
      BY <3>2 DEF Glance
    <3> QED BY <1>2, <3>3 DEF SilentInv
  <2>2. CASE at > 1
    <3>1. level /\ ~hit
      BY <1>5, <2>2 DEF SilentInv
    <3>2. CASE Watch
      <4>1. level' = IrqHigh /\ hit' = (hit \/ level # IrqHigh)
        BY <3>2 DEF Watch
      <4>2. level = TRUE /\ IrqHigh = TRUE
        BY <1>2, <3>1 DEF IrqHigh, RestInv
      <4> QED BY <3>1, <4>1, <4>2
    <3>3. CASE ~Watch
      <4>1. ~hit'
        BY <1>2, <1>3, <3>1, <3>3, SeenSteps
      <4>2. level' = level \/ Glance
        BY <1>3, <3>3 DEF RowStep, SetLine, Take, Drop, Sleep, Unbind, Bind, Suspend, Open,
             SendHdr, SendBody, Read, Window, Peek, PeekFails, seen
      <4>3. Glance => level' = IrqHigh
        BY DEF Glance
      <4> QED BY <1>2, <3>1, <4>1, <4>2, <4>3
    <3> QED BY <3>2, <3>3
  <2> QED BY <1>1, <2>1, <2>2
<1> QED BY <1>4, <1>5

LEMMA SilentStep == BenchInv /\ HighInv /\ SilentInv /\ [Next]_vars => SilentInv'
<1> SUFFICES ASSUME BenchInv, HighInv, SilentInv, [Next]_vars, HighRow(Rows[row']), ~inverted',
                    Sure', idle' = "ff", phase' \in {"probe", "release"}
             PROVE  /\ ~hit'
                    /\ Rows[row'].script = "touch" /\ phase' = "probe" /\ at' > 1 => level'
  BY DEF SilentInv
<1> USE DEF BenchInv
<1>1. CASE RowStep
  <2>1. UNCHANGED <<row, phase, inverted, idle>> /\ Sure /\ phase = "probe"
    BY <1>1, NextStep DEF wiring, Sure
  <2> QED BY <1>1, <2>1, SilentProbeStep
<1>2. CASE Begin
  <2>1. phase = "prep" /\ at' = 1 /\ hit' = hit
    BY <1>2, RowBegins DEF seen
  <2> QED BY <2>1 DEF BlindInv
<1>3. CASE Report
  BY <1>3, RowReports DEF SilentInv, Sure, seen, wiring
<1>4. CASE Exit \/ Reject \/ Raise \/ Release
  BY <1>4 DEF Exit, Reject, Raise, Release
<1>5. CASE Sensor \/ UNCHANGED vars
  <2>1. UNCHANGED <<row, phase, at, inverted, idle, failed, hit, level>>
    BY <1>5 DEF Sensor, vars, toolVars, wiring, seen
  <2> QED BY <2>1 DEF SilentInv, Sure
<1> QED BY <1>1, <1>2, <1>3, <1>4, <1>5, StepKinds

\* A row run with the line HIGH, as every legacy pulse leaves it, reports nothing the
\* sensor said.
THEOREM HighIsSilent == Spec => []HighSilent
<1>1. Init => HighInv /\ SilentInv
  BY HighInit DEF Init, SilentInv
<1>2. BenchInv /\ SilentInv => HighSilent
  <2> SUFFICES ASSUME BenchInv, SilentInv, report.hit PROVE HighSilent
    BY DEF HighSilent
  <2>1. /\ phase = "release" /\ hit
        /\ report.row = row /\ report.failed = failed
    BY DEF BenchInv, ReportInv, NoReport
  <2>2. Rows[row].script \notin OldSweeps => ~inverted
    BY DEF BenchInv, PlaceInv
  <2>3. OldSweeps \cap {"recover", "touch", "refseq", "suspend"} = {}
    BY DEF OldSweeps
  <2> QED BY <2>1, <2>2, <2>3 DEF HighSilent, SilentInv, HighRow, Sure
<1> QED BY <1>1, <1>2, BenchCorrect, HighStep, SilentStep, PTL DEF Spec

-----------------------------------------------------------------------------
(* The scripts that keep the line LOW have a sensor that runs.             *)

LowRow == Rows[row].script \in LowScripts /\ Rows[row].name # "control"

\* A sensor that does not hear them owes nothing.
LowInv ==
  LowRow =>
    /\ phase # "fail"
    /\ phase \in {"probe", "release"} \/ (phase = "prep" /\ ~Opens(row)) =>
         mcu = "up" /\ (~needsCsHigh \/ Quiet)

\* A sensor that runs stays up until the line is driven.
LEMMA StaysUp ==
  ASSUME mcu = "up", Sensor \/ UNCHANGED vars
  PROVE  mcu' = "up"
BY DEF Sensor, Boot, Answer, vars, sensorVars

LEMMA BootedIsUp ==
  ASSUME HeldInv, ~reset, mcu # "booting"
  PROVE  mcu = "up"
BY DEF HeldInv, SensorTypeOK

\* Rows that leave the sensor running, and reset it, leave it without commands.
LEMMA RunsQuiet ==
  ASSUME HeldInv, LineInv, phase \in {"prep", "probe"}, at = Len(Steps) + 1, inverted = FALSE,
         LeavesRunning(Steps, FALSE), LeavesReset(Steps, FALSE)
  PROVE  mcu = "up" /\ Quiet
<1>1. ~reset /\ mcu # "booting" /\ Quiet
  BY DEF LineInv, LeavesRunning, LeavesReset
<1> QED BY <1>1, BootedIsUp

LEMMA LowFacts ==
  ASSUME PlaceInv, LowRow
  PROVE  /\ inverted = FALSE /\ row \in DOMAIN Rows
         /\ Rows[row].csHigh = FALSE /\ Rows[row].caught = {}
         /\ StepsOf(Rows[row]) \cap {"check", "verify", "watch"} = {}
         /\ IF Opens(row)
            THEN LeavesRunning(Rows[row].prep, FALSE) /\ LeavesReset(Rows[row].prep, FALSE)
            ELSE Rows[row].prep = <<>>
<1>1. row \in DOMAIN Rows /\ Rows[row].script \in LowScripts /\ Rows[row].name # "control"
  BY DEF LowRow, PlaceInv
<1>2. inverted = FALSE
  BY <1>1 DEF PlaceInv, LowScripts, OldSweeps
<1>3. Rows[row].csHigh = FALSE
  <2>1. Rows[row].csHigh \in BOOLEAN
    BY <1>1, RowTypes
  <2> QED BY <1>1, <2>1, LowAssumption
<1> QED BY <1>1, <1>2, <1>3, LowAssumption

LEMMA LowInit == Init => LowInv
<1> SUFFICES ASSUME Init PROVE LowInv
  OBVIOUS
<1>1. phase = "prep" /\ Opens(row)
  BY StartsAreFirst DEF Init
<1> QED BY <1>1 DEF LowInv

LEMMA LowStep == BenchInv /\ LowInv /\ [Next]_vars => LowInv'
<1> SUFFICES ASSUME BenchInv, LowInv, [Next]_vars, LowRow'
             PROVE  /\ phase' # "fail"
                    /\ phase' \in {"probe", "release"} \/ (phase' = "prep" /\ ~Opens(row')) =>
                         mcu' = "up" /\ (~needsCsHigh' \/ Quiet')
  BY DEF LowInv
<1> USE DEF BenchInv
<1>0. row \in DOMAIN Rows
  BY DEF PlaceInv
<1>1. CASE RowStep
  <2>1. /\ LowRow /\ UNCHANGED <<row, phase, needsCsHigh>> /\ phase \in {"prep", "probe"}
        /\ at \in DOMAIN Steps
    BY <1>1, NextStep DEF LowRow, wiring
  <2>2. CASE phase = "probe"
    <3>1. mcu = "up" /\ (~needsCsHigh \/ Quiet)
      BY <2>1, <2>2 DEF LowInv
    <3>2. mcu' = mcu
      BY <1>1, <2>1, <2>2, ProbeLeavesLine DEF LowRow
    <3>3. needsCsHigh => ~Hears
      BY <2>1, LowFacts DEF Hears
    <3>4. needsCsHigh => Quiet'
      BY <1>1, <3>1, <3>3, QuietSteps
    <3> QED BY <2>1, <2>2, <3>1, <3>2, <3>4
  <2>3. CASE phase = "prep"
    <3>1. ~Opens(row) => Steps = <<>>
      BY <2>1, <2>3, LowFacts, StepsTyped
    <3>2. Opens(row)
      BY <2>1, <3>1
    <3> QED BY <2>1, <2>3, <3>2
  <2> QED BY <2>1, <2>2, <2>3
<1>2. CASE Reject \/ Raise
  <2>1. LowRow /\ phase \in {"prep", "probe"} /\ phase' \in {"fail", "crash"}
    BY <1>2, CutsShort DEF LowRow
  <2>2. ~Reject
    <3>1. SUFFICES ASSUME Reject PROVE FALSE
      OBVIOUS
    <3>2. Steps[at] \in {"check", "verify"} /\ at \in DOMAIN Steps
      BY <3>1, StepsTyped DEF Reject, PlaceInv
    <3>3. Steps[at] \in StepsOf(Rows[row])
      BY <2>1, <3>2, StepsTyped DEF StepsOf
    <3> QED BY <2>1, <3>2, <3>3, LowFacts
  <2>3. phase' = "crash"
    BY <1>2, <2>1, <2>2, LowFacts DEF Raise
  <2> QED BY <2>3
<1>3. CASE Exit
  BY <1>3 DEF Exit
<1>4. CASE Begin
  <2>1. /\ LowRow /\ phase = "prep" /\ at = Len(Steps) + 1 /\ Steps = Rows[row].prep
        /\ phase' = "probe" /\ UNCHANGED <<sensorVars, needsCsHigh>>
    BY <1>4, RowBegins DEF LowRow, wiring
  <2>2. CASE Opens(row)
    <3>1. mcu = "up" /\ Quiet
      BY <2>1, <2>2, LowFacts, RunsQuiet
    <3> QED BY <2>1, <3>1 DEF sensorVars, Quiet
  <2>3. CASE ~Opens(row)
    BY <2>1, <2>3 DEF LowInv, sensorVars, Quiet
  <2> QED BY <2>2, <2>3
<1>5. CASE Report
  BY <1>5, RowReports DEF LowInv, LowRow, sensorVars, wiring, Quiet
<1>6. CASE Release
  <2>1. /\ phase' = "prep" /\ UNCHANGED <<sensorVars, needsCsHigh>>
        /\ phase \in {"release", "fail", "crash"}
    BY <1>6 DEF Release, wiring
  <2>2. CASE \E k \in DOMAIN Rows : Start(k)
    BY <2>1, <2>2, StartsAreFirst DEF Start
  <2>3. CASE ~\E k \in DOMAIN Rows : Start(k)
    <3>1. /\ row' = row + 1 /\ ~Rows[row].last /\ phase # "crash"
          /\ Rows[row'].script = Rows[row].script
      BY <1>6, <2>3, OnwardKinds
    <3>2. LowRow
      BY <1>0, <3>1, LowAssumption DEF LowRow
    <3>3. phase = "release"
      BY <2>1, <3>1, <3>2 DEF LowInv
    <3> QED BY <2>1, <3>2, <3>3 DEF LowInv, sensorVars, Quiet
  <2> QED BY <2>2, <2>3
<1>7. CASE Sensor \/ UNCHANGED vars
  <2>1. LowRow /\ UNCHANGED <<row, phase, needsCsHigh>>
    BY <1>7 DEF Sensor, LowRow, vars, toolVars, wiring
  <2> QED BY <1>7, <2>1, StaysUp, QuietRests DEF LowInv
<1> QED BY <1>1, <1>2, <1>3, <1>4, <1>5, <1>6, <1>7, StepKinds

\* The rows whose answers WinsHonest vouches for.
Vouched ==
  /\ Rows[row].name # "control"
  /\ \/ Rows[row].script \in Readers
     \/ Rows[row].script \in LowScripts \cup {"sigfrodr"} /\ idle = "ff"

HitInv == Vouched /\ hit => Hears /\ mcu # "held"

LEMMA HitProbeStep ==
  ASSUME BenchInv, LowInv, HitInv, RowStep, phase = "probe", Vouched, hit', ~hit
  PROVE  Hears /\ mcu # "held"
<1> USE DEF BenchInv
<1>0. row \in DOMAIN Rows /\ Steps[at] \in StepsOf(Rows[row])
  BY StepIsOfRow DEF PlaceInv
<1>1. Waiting => Hears /\ mcu # "held"
  BY DEF Waiting, ResetQuiet, HeldInv, Quiet
<1>2. CASE Get \/ GetPart
  BY <1>1, <1>2 DEF Get, GetPart
<1>3. CASE Noise
  BY <1>3 DEF Noise
<1>4. CASE Peek /\ hit' = (hit \/ idle # "ff")
  <2>1. Steps[at] \in {"peek", "trypeek"}
    BY <1>4 DEF Peek, Do
  <2>2. Rows[row].script \notin Readers
    BY <1>0, <2>1, ReadersAssumption
  <2> QED BY <1>4, <2>2 DEF Vouched
<1>5. ASSUME Steps[at] \in {"watch", "pulse"} PROVE LowRow
  <2>1. Rows[row].script \notin Readers \cup {"sigfrodr"}
    BY <1>0, <1>5, ReadersAssumption
  <2> QED BY <2>1 DEF Vouched, LowRow
<1>6. CASE Watch
  <2>1. Steps[at] = "watch"
    BY <1>6 DEF Watch, Do
  <2> QED BY <1>0, <1>5, <2>1, LowFacts
<1>7. CASE Pulse
  <2>1. Steps[at] = "pulse"
    BY <1>7 DEF Pulse, Do
  <2>2. mcu = "up" /\ (~needsCsHigh \/ Quiet)
    BY <1>5, <2>1 DEF LowInv
  <2>3. pending > 0
    BY <1>7, <2>2 DEF Pulse, IrqHigh
  <2> QED BY <2>2, <2>3 DEF Hears, Quiet
<1> QED BY <1>2, <1>3, <1>4, <1>6, <1>7, SeenSteps

LEMMA HitStep == BenchInv /\ LowInv /\ HitInv /\ [Next]_vars => HitInv'
<1> SUFFICES ASSUME BenchInv, LowInv, HitInv, [Next]_vars, Vouched', hit'
             PROVE  Hears' /\ mcu' # "held"
  BY DEF HitInv
<1> USE DEF BenchInv
<1>1. CASE RowStep
  <2>1. /\ UNCHANGED <<row, phase, needsCsHigh, idle>> /\ phase \in {"prep", "probe"}
        /\ Vouched /\ Hears' = Hears
    BY <1>1, NextStep DEF wiring, Vouched, Hears
  <2>2. CASE phase = "prep"
    BY <1>1, <2>2, PrepSeesNothing DEF BlindInv
  <2>3. CASE phase = "probe"
    <3>1. Hears /\ mcu # "held"
      BY <1>1, <2>1, <2>3, HitProbeStep DEF HitInv
    <3>2. mcu' = mcu
      BY <1>1, <2>1, <2>3, ProbeLeavesLine DEF Vouched
    <3> QED BY <2>1, <3>1, <3>2
  <2> QED BY <2>1, <2>2, <2>3
<1>2. CASE Exit \/ Begin \/ Reject \/ Raise \/ Report
  <2>1. UNCHANGED <<sensorVars, row, wiring, seen>>
    BY <1>2 DEF Exit, Begin, Reject, Raise, Report
  <2> QED BY <2>1 DEF sensorVars, wiring, seen, HitInv, Vouched, Hears
<1>3. CASE Release
  BY <1>3 DEF Release
<1>4. CASE Sensor \/ UNCHANGED vars
  <2>1. UNCHANGED <<row, wiring, hit>> /\ (mcu # "held" => mcu' # "held")
    BY <1>4 DEF Sensor, Boot, Answer, vars, toolVars, seen, sensorVars
  <2> QED BY <2>1 DEF wiring, HitInv, Vouched, Hears
<1> QED BY <1>1, <1>2, <1>3, <1>4, StepKinds

\* A row that reports an answer had the chip select that suits the sensor, and the
\* reset released.
THEOREM WinsAreHonest == Spec => []WinsHonest
<1>1. Init => LowInv /\ HitInv
  BY LowInit DEF Init, HitInv
<1>2. BenchInv /\ HitInv => WinsHonest
  <2> SUFFICES ASSUME BenchInv, HitInv, report.hit PROVE WinsHonest
    BY DEF WinsHonest, Win
  <2>1. hit /\ report.row = row
    BY DEF BenchInv, ReportInv, NoReport
  <2> QED BY <2>1 DEF WinsHonest, Win, HitInv, Vouched, Hears
<1> QED BY <1>1, <1>2, BenchCorrect, LowStep, HitStep, PTL DEF Spec

-----------------------------------------------------------------------------
(* Whose replies the sensor owes.                                          *)

\* The waiting replies, and the one to the last command, are these askers'.
Owes(who) == (todo => asked \in who) /\ from \in Seq(who)

LEMMA QuietOwes ==
  ASSUME FromInv, Quiet, NEW who
  PROVE  Owes(who)
<1>1. from \in Seq(Askers) /\ Len(from) = 0
  BY DEF FromInv, Quiet
<1>2. from = <<>>
  BY <1>1
<1> QED BY <1>2 DEF Owes, Quiet

LEMMA NoneNew ==
  ASSUME NEW who, NEW e
  PROVE  [k \in 1..0 |-> e] \in Seq(who)
<1>1. 1..0 = {}
  OBVIOUS
<1>2. [k \in 1..0 |-> e] \in [1..0 -> who]
  BY <1>1
<1> QED BY <1>2, SeqDef

LEMMA TrackOwes ==
  ASSUME FromInv, NEW who, Owes(who), pending' \in Nat,
         pending' = 0 \/ pending' + 1 >= pending, pending' > pending => todo, Track
  PROVE  from' \in Seq(who)
<1>1. pending \in Nat /\ from \in Seq(who) /\ Len(from) = pending
  BY DEF FromInv, Owes
<1>2. CASE pending' = 0
  <2>1. from' = <<>>
    BY <1>2 DEF Track
  <2> QED BY <2>1
<1>3. CASE pending' # 0 /\ pending' < pending
  <2>1. from' = Tail(from)
    BY <1>3 DEF Track
  <2>2. pending > 0
    BY <1>1, <1>3
  <2> QED BY <1>1, <2>1, <2>2
<1>4. CASE pending' # 0 /\ ~(pending' < pending)
  <2> DEFINE n == pending' - pending
             new == [k \in 1..n |-> asked]
  <2>1. from' = from \o new
    BY <1>4 DEF Track
  <2>2. n \in Nat /\ pending + n = pending'
    BY <1>1, <1>4, Differences, Zenon
  <2>3. new \in Seq(who)
    <3>1. CASE n = 0
      <4> HIDE DEF n
      <4> QED BY <3>1, NoneNew
    <3>2. CASE n # 0
      <4>1. \A p, q \in Nat : ~(q < p) /\ q - p # 0 => q > p
        OBVIOUS
      <4>2. pending' > pending
        BY <1>1, <1>4, <3>2, <4>1, Zenon
      <4>3. asked \in who
        BY <4>2 DEF Owes
      <4> HIDE DEF n
      <4> QED BY <2>2, <4>3, AllAlike
    <3> QED BY <3>1, <3>2
  <2> HIDE DEF n, new
  <2> QED BY <1>1, <2>1, <2>3, ConcatProperties
<1> QED BY <1>2, <1>3, <1>4

\* Only an answer makes replies, and only a command a promise.
LEMMA SensorOwes ==
  ASSUME HeldInv, RowStep \/ Sensor \/ UNCHANGED vars
  PROVE  /\ pending' > pending => todo
         /\ todo' => todo \/ (SendBody /\ Hears /\ mcu = "up")
         /\ SendBody \/ UNCHANGED asked
         /\ Track \/ UNCHANGED <<pending, from>>
<1>0. pending \in Nat
  BY MaxPendingAssumption DEF HeldInv, SensorTypeOK
<1>1. CASE Sensor
  <2>1. pending' > pending => todo
    BY <1>0, <1>1 DEF Sensor, Boot, Answer
  <2> QED BY <1>1, <2>1 DEF Sensor, Boot, Answer
<1>2. CASE UNCHANGED vars
  BY <1>0, <1>2 DEF vars, sensorVars
<1>3. CASE \E high \in BOOLEAN : SetLine(high) \/ Take(high)
  <2>1. PICK high \in BOOLEAN : DriveReset(high # inverted)
    BY <1>3 DEF SetLine, Take
  <2>2. pending' \in {0, pending} /\ (todo' => todo)
    BY <2>1 DEF DriveReset
  <2> QED BY <1>0, <1>3, <2>2 DEF SetLine, Take
<1>4. CASE Suspend
  <2>1. pending' \in {0, pending} /\ (todo' => todo)
    BY <1>4 DEF Suspend, DriveReset
  <2>2. asked' = asked /\ Track
    BY <1>4 DEF Suspend
  <2> QED BY <1>0, <2>1, <2>2
<1>5. CASE Drop \/ Sleep \/ Unbind \/ Bind \/ Open \/ PeekFails \/ Glance \/ Watch \/ Pulse
  <2>1. UNCHANGED <<sensorVars, asked, from>>
    BY <1>5 DEF Drop, Sleep, Unbind, Bind, Open, PeekFails, Glance, Watch, Pulse
  <2>2. pending' = pending /\ (todo' => todo)
    BY <2>1 DEF sensorVars
  <2> QED BY <1>0, <2>1, <2>2
<1>6. CASE SendHdr \/ Read \/ Window \/ Peek
  <2>1. Clocked \/ GiveFrame \/ UNCHANGED sensorVars
    BY <1>6 DEF SendHdr, Read, Window, Peek, Get, GetPart, Noise, Nothing
  <2>2. pending' \in {pending, FrameTaken} /\ todo' = todo
    BY <2>1 DEF Clocked, GiveFrame, sensorVars
  <2> QED BY <1>0, <1>6, <2>2 DEF SendHdr, Read, Window, Peek, FrameTaken
<1>7. CASE SendBody
  <2>1. pending' \in {pending, FrameTaken} /\ (todo' => todo \/ (Hears /\ mcu = "up"))
    BY <1>7 DEF SendBody, HearCommand, sensorVars
  <2> QED BY <1>0, <1>7, <2>1 DEF SendBody, FrameTaken
<1> QED BY <1>1, <1>2, <1>3, <1>4, <1>5, <1>6, <1>7 DEF RowStep

\* What the sensor owes to a set of askers with the row in it stays so.
LEMMA OwesStep ==
  ASSUME PlaceInv, HeldInv, FromInv, NEW who, row \in who, Owes(who),
         [Next]_vars, RowStep \/ Sensor \/ UNCHANGED vars
  PROVE  Owes(who)'
<1>1. todo' => asked' \in who
  <2>1. CASE SendBody
    <3>1. asked' = IF Hears /\ mcu = "up" THEN row ELSE asked
      BY <2>1 DEF SendBody
    <3> QED BY <3>1, SensorOwes DEF Owes
  <2>2. CASE ~SendBody
    BY <2>2, SensorOwes DEF Owes
  <2> QED BY <2>1, <2>2
<1>2. from' \in Seq(who)
  <2>1. pending' \in Nat
    <3>1. HeldInv'
      BY HeldStep
    <3> QED BY <3>1, MaxPendingAssumption DEF HeldInv, SensorTypeOK
  <2>2. CASE UNCHANGED <<pending, from>>
    BY <2>2 DEF Owes
  <2>3. CASE Track
    <3>1. pending' = 0 \/ pending' + 1 >= pending
      <4>1. CASE Next
        BY <4>1, PendingSteps DEF HeldInv
      <4>2. CASE UNCHANGED vars
        BY <4>2, MaxPendingAssumption DEF vars, sensorVars, HeldInv, SensorTypeOK
      <4> QED BY <4>1, <4>2
    <3> QED BY <2>1, <2>3, <3>1, SensorOwes, TrackOwes
  <2> QED BY <2>2, <2>3, SensorOwes
<1> QED BY <1>1, <1>2 DEF Owes

\* A reply that is read is owed.
LEMMA HeardOwed ==
  ASSUME HeldInv, FromInv, NEW who, Owes(who), heard \subseteq who, RowStep
  PROVE  heard' \subseteq who
<1>1. pending > 0 => Head(from) \in who
  <2>1. from \in Seq(who) /\ Len(from) = pending /\ pending \in Nat
    BY MaxPendingAssumption DEF HeldInv, SensorTypeOK, FromInv, Owes
  <2> QED BY <2>1
<1>2. Get \/ GetPart => heard' \subseteq who
  BY <1>1 DEF Get, GetPart, Waiting
<1>3. Pulse => heard' \subseteq who
  BY <1>1 DEF Pulse
<1>4. Noise => heard' = heard
  BY DEF Noise
<1> QED BY <1>2, <1>3, <1>4, SeenSteps

-----------------------------------------------------------------------------
(* The replies a row is credited with.                                     *)

LEMMA Wraps ==
  ASSUME PlaceInv
  PROVE  inverted \in {FALSE} \cup {Rows[row].script \in OldSweeps}
<1>1. CASE inverted = FALSE
  BY <1>1
<1>2. CASE inverted = TRUE
  <2>1. (Rows[row].script \in OldSweeps) = TRUE
    BY <1>2 DEF PlaceInv
  <2> QED BY <1>2, <2>1
<1> QED BY <1>1, <1>2 DEF PlaceInv

\* After a preparation that resets the sensor nothing is owed.
LEMMA ResetLeavesQuiet ==
  ASSUME PlaceInv, LineInv, Begin, LeavesReset(Rows[row].prep, inverted)
  PROVE  Quiet
BY RowBegins DEF LeavesReset, LineInv

LEMMA OwesUnchanged ==
  ASSUME NEW who, Owes(who), UNCHANGED <<sensorVars, asked, from>>
  PROVE  Owes(who)'
BY DEF Owes, sensorVars

OwnInv ==
  \A r \in DOMAIN Rows :
    r = row /\ Rows[r].script \in ResettingScripts /\ Sure =>
      /\ phase \in {"probe", "release"} => heard \subseteq {r}
      /\ phase = "probe" => Owes({r})

LEMMA OwnStep == BenchInv /\ HighInv /\ OwnInv /\ [Next]_vars => OwnInv'
<1> SUFFICES ASSUME BenchInv, HighInv, OwnInv, [Next]_vars, NEW r \in DOMAIN Rows,
                    r = row', Rows[r].script \in ResettingScripts, Sure'
             PROVE  /\ phase' \in {"probe", "release"} => heard' \subseteq {r}
                    /\ (phase' = "probe" => Owes({r})')
  BY DEF OwnInv
<1> USE DEF BenchInv
<1>1. CASE RowStep
  <2>1. r = row /\ UNCHANGED phase /\ Sure /\ phase \in {"prep", "probe"}
    BY <1>1, NextStep DEF Sure
  <2>2. CASE phase = "probe"
    <3>1. heard \subseteq {r} /\ Owes({r})
      BY <2>1, <2>2 DEF OwnInv
    <3>2. heard' \subseteq {r}
      BY <1>1, <3>1, HeardOwed
    <3>3. Owes({r})'
      BY <1>1, <2>1, <3>1, OwesStep
    <3> QED BY <3>2, <3>3
  <2> QED BY <2>1, <2>2
<1>2. CASE Begin
  <2>1. r = row /\ UNCHANGED <<sensorVars, heard, asked, from, inverted>>
        /\ phase = "prep" /\ phase' = "probe"
    BY <1>2, RowBegins DEF seen
  <2>2. Quiet
    <3>1. CASE LeavesReset(Rows[row].prep, inverted)
      BY <1>2, <3>1, ResetLeavesQuiet
    <3>2. CASE HighRow(Rows[row]) /\ ~inverted
      <4>1. HighInv'
        BY HighStep
      <4>2. reset'
        BY <2>1, <3>2, <4>1 DEF HighInv
      <4> QED BY <2>1, <4>2 DEF ResetQuiet, sensorVars
    <3> QED BY <2>1, <3>1, <3>2, Wraps, ResetAssumption
  <2>3. Owes({r})'
    BY <2>1, <2>2, QuietOwes, OwesUnchanged
  <2> QED BY <2>1, <2>3 DEF BlindInv
<1>3. CASE Report
  <2>1. r = row /\ phase = "probe" /\ phase' = "release" /\ heard' = heard /\ Sure
    BY <1>3, RowReports DEF seen, Sure
  <2> QED BY <2>1 DEF OwnInv
<1>4. CASE Exit \/ Reject \/ Raise \/ Release
  BY <1>4 DEF Exit, Reject, Raise, Release
<1>5. CASE Sensor \/ UNCHANGED vars
  <2>1. r = row /\ UNCHANGED <<phase, heard>> /\ Sure
    BY <1>5 DEF Sensor, vars, toolVars, seen, Sure
  <2>2. Owes({r}) => Owes({r})'
    BY <1>5, <2>1, OwesStep
  <2> QED BY <2>1, <2>2 DEF OwnInv
<1> QED BY <1>1, <1>2, <1>3, <1>4, <1>5, StepKinds

\* Where every row resets the sensor, the replies a row counts answer its own
\* commands; only a row that resets nothing may be credited with others, after a
\* preparation that failed.
THEOREM WinsAreOwn == Spec => []WinsOwn
<1>1. Init => HighInv /\ OwnInv
  BY HighInit DEF Init, OwnInv
<1>2. BenchInv /\ OwnInv => WinsOwn
  <2> SUFFICES ASSUME BenchInv, OwnInv, report.hit,
                      Rows[report.row].script \in ResettingScripts
               PROVE  \/ report.heard \subseteq {report.row}
                      \/ report.failed /\ Found(Rows[report.row])
    BY DEF WinsOwn, Win, ResettingScripts
  <2>1. /\ phase = "release" /\ row \in DOMAIN Rows
        /\ report.row = row /\ report.heard = heard /\ report.failed = failed
    BY DEF BenchInv, ReportInv, NoReport, PlaceInv
  <2> QED BY <2>1 DEF OwnInv, Sure
<1> QED BY <1>1, <1>2, BenchCorrect, HighStep, OwnStep, PTL DEF Spec

SweepInv ==
  Rows[row].script \in SweepScripts =>
    /\ heard \subseteq DOMAIN Rows
    /\ phase \in {"probe", "release", "fail"} \/ (phase = "prep" /\ ~Opens(row)) =>
         Owes(DOMAIN Rows)

LEMMA SweepStep == BenchInv /\ SweepInv /\ [Next]_vars => SweepInv'
<1> SUFFICES ASSUME BenchInv, SweepInv, [Next]_vars, Rows[row'].script \in SweepScripts
             PROVE  /\ heard' \subseteq DOMAIN Rows
                    /\ phase' \in {"probe", "release", "fail"} \/ (phase' = "prep" /\ ~Opens(row'))
                         => Owes(DOMAIN Rows)'
  BY DEF SweepInv
<1> USE DEF BenchInv
<1>0. row \in DOMAIN Rows
  BY DEF PlaceInv
<1>1. CASE RowStep
  <2>1. UNCHANGED <<row, phase>> /\ phase \in {"prep", "probe"}
    BY <1>1, NextStep
  <2>2. Owes(DOMAIN Rows) => Owes(DOMAIN Rows)'
    BY <1>0, <1>1, OwesStep
  <2>3. CASE phase = "probe"
    <3>1. Owes(DOMAIN Rows) /\ heard \subseteq DOMAIN Rows
      BY <2>1, <2>3 DEF SweepInv
    <3>2. heard' \subseteq DOMAIN Rows
      BY <1>1, <3>1, HeardOwed
    <3> QED BY <2>2, <3>1, <3>2
  <2>4. CASE phase = "prep"
    BY <1>1, <2>1, <2>2, <2>4, PrepSeesNothing DEF SweepInv
  <2> QED BY <2>1, <2>3, <2>4
<1>2. CASE Begin
  <2>1. UNCHANGED <<sensorVars, row, heard, asked, from>> /\ phase = "prep"
    BY <1>2, RowBegins DEF seen
  <2>2. Owes(DOMAIN Rows)
    <3>1. CASE Opens(row)
      <4>1. LeavesReset(Rows[row].prep, inverted)
        BY <1>0, <2>1, <3>1, Wraps, ResetAssumption
      <4> QED BY <1>2, <4>1, ResetLeavesQuiet, QuietOwes
    <3>2. CASE ~Opens(row)
      BY <2>1, <3>2 DEF SweepInv
    <3> QED BY <3>1, <3>2
  <2> QED BY <2>1, <2>2, OwesUnchanged DEF SweepInv
<1>3. CASE Exit \/ Reject \/ Raise \/ Report
  <2>1. /\ UNCHANGED <<sensorVars, row, heard, asked, from>>
        /\ phase' \in {"release", "fail", "crash"}
    BY <1>3 DEF Exit, Reject, Raise, Report, seen
  <2>2. CASE phase = "prep" /\ phase' # "crash"
    <3>1. ~Report /\ ~Exit
      BY <2>2 DEF Report, Exit
    <3>2. ~Reject
      <4>1. SUFFICES ASSUME Reject PROVE FALSE
        OBVIOUS
      <4>2. Rows[row].prep[1] = "check" /\ Rows[row].prep # <<>> /\ Rows[row].prep \in Seq(STRING)
        BY <1>0, <2>2, <4>1, RejectsFirst, RowTypes
      <4>3. 1 \in DOMAIN Rows[row].prep
        BY <4>2
      <4> QED BY <1>0, <2>1, <4>2, <4>3, Wraps, ResetAssumption
    <3>3. phase' = "fail" /\ Raise
      BY <1>3, <2>1, <2>2, <3>1, <3>2 DEF Raise
    <3>4. "prep" \in Rows[row].caught
      BY <2>2, <3>3, CaughtInPrep
    <3> QED BY <1>0, <2>1, <3>4, Wraps, ResetAssumption
  <2>3. CASE phase = "probe" \/ phase' = "crash"
    BY <2>1, <2>3, OwesUnchanged DEF SweepInv
  <2>4. phase \in {"prep", "probe"}
    BY <1>3 DEF Exit, Missing, Reject, Raise, Report
  <2> QED BY <2>2, <2>3, <2>4
<1>4. CASE Release
  <2>1. phase' = "prep" /\ heard' = {} /\ UNCHANGED sensorVars
        /\ phase \in {"release", "fail", "crash"}
    BY <1>4 DEF Release
  <2>2. CASE \E k \in DOMAIN Rows : Start(k)
    BY <2>1, <2>2, StartsAreFirst DEF Start
  <2>3. CASE ~\E k \in DOMAIN Rows : Start(k)
    <3>1. /\ row' = row + 1 /\ ~Rows[row].last /\ phase # "crash"
          /\ Rows[row'].script = Rows[row].script
      BY <1>4, <2>3, OnwardKinds
    <3>2. UNCHANGED <<asked, from>>
      BY <1>4, <3>1 DEF Release, Onward, ScriptEnds
    <3>3. Owes(DOMAIN Rows)
      BY <2>1, <3>1 DEF SweepInv
    <3> QED BY <2>1, <3>2, <3>3, OwesUnchanged
  <2> QED BY <2>2, <2>3
<1>5. CASE Sensor \/ UNCHANGED vars
  <2>1. UNCHANGED <<row, phase, heard>>
    BY <1>5 DEF Sensor, vars, toolVars, seen
  <2>2. Owes(DOMAIN Rows) => Owes(DOMAIN Rows)'
    BY <1>0, <1>5, OwesStep
  <2> QED BY <2>1, <2>2 DEF SweepInv
<1> QED BY <1>1, <1>2, <1>3, <1>4, <1>5, StepKinds

\* A reply to what an earlier script sent never reaches a row of a sweep.
THEOREM SweepsAreOwn == Spec => []SweepsOwn
<1>1. Init => SweepInv
  <2>1. Init => heard = {} /\ phase = "prep" /\ Opens(row)
    BY StartsAreFirst DEF Init
  <2> QED BY <2>1 DEF SweepInv
<1>2. BenchInv /\ SweepInv => SweepsOwn
  <2> SUFFICES ASSUME BenchInv, SweepInv, report.hit PROVE SweepsOwn
    BY DEF SweepsOwn, Win
  <2>1. report.row = row /\ report.heard = heard
    BY DEF BenchInv, ReportInv, NoReport
  <2>2. 0 \notin DOMAIN Rows
    BY RowTypes
  <2> QED BY <2>1, <2>2 DEF SweepsOwn, Win, SweepInv, SweepScripts
<1> QED BY <1>1, <1>2, BenchCorrect, SweepStep, PTL DEF Spec

-----------------------------------------------------------------------------
(* The rows that need a sensor that runs, or leave one.                    *)

\* Under the wrapper the sensor runs from the end of a preparation on, up to the next
\* row that drives the line.
RunInv ==
  inverted =>
    /\ phase \in {"probe", "release", "fail"} => mcu = "up"
    /\ phase = "prep" /\ ~Opens(row) /\ at = 1 => mcu = "up"

LEMMA RunStep == BenchInv /\ RunInv /\ [Next]_vars => RunInv'
<1> SUFFICES ASSUME BenchInv, RunInv, [Next]_vars, inverted'
             PROVE  /\ phase' \in {"probe", "release", "fail"} => mcu' = "up"
                    /\ phase' = "prep" /\ ~Opens(row') /\ at' = 1 => mcu' = "up"
  BY DEF RunInv
<1> USE DEF BenchInv
<1>0. row \in DOMAIN Rows /\ at \in Nat \ {0} /\ (inverted => Rows[row].script \in OldSweeps)
      /\ inverted \in BOOLEAN
  BY DEF PlaceInv
<1>1. CASE RowStep
  <2>1. /\ inverted /\ UNCHANGED <<row, phase>> /\ phase \in {"prep", "probe"} /\ at' = at + 1
    BY <1>1, NextStep
  <2>2. at' # 1
    BY <1>0, <2>1
  <2>3. CASE phase = "probe"
    <3>1. mcu = "up" /\ UNCHANGED mcu
      BY <1>0, <1>1, <2>1, <2>3, ProbeLeavesLine, NotControls DEF RunInv
    <3> QED BY <2>2, <3>1
  <2> QED BY <2>1, <2>2, <2>3
<1>2. CASE Begin
  <2>1. /\ inverted /\ phase = "prep" /\ at = Len(Rows[row].prep) + 1 /\ Steps = Rows[row].prep
        /\ phase' = "probe" /\ UNCHANGED mcu
    BY <1>2, RowBegins DEF sensorVars
  <2>2. CASE LeavesRunning(Rows[row].prep, TRUE)
    <3>1. inverted = TRUE
      BY <1>0, <2>1
    <3>2. ~reset /\ mcu # "booting"
      BY <2>1, <2>2, <3>1 DEF LeavesRunning, LineInv
    <3> QED BY <2>1, <3>2, BootedIsUp
  <2>3. CASE Rows[row].prep = <<>> /\ ~Opens(row)
    <3>1. at = 1
      BY <2>1, <2>3
    <3> QED BY <2>1, <2>3, <3>1 DEF RunInv
  <2> QED BY <1>0, <2>1, <2>2, <2>3, RunAssumption
<1>3. CASE Exit
  BY <1>3 DEF Exit
<1>4. CASE Report
  BY <1>4, RowReports DEF RunInv, sensorVars
<1>5. CASE Reject
  <2>1. inverted /\ phase' = "fail" /\ UNCHANGED mcu /\ phase \in {"prep", "probe"}
    BY <1>5 DEF Reject, sensorVars
  <2>2. CASE phase = "prep"
    <3>1. at = 1 /\ Rows[row].prep[1] = "check" /\ Rows[row].prep # <<>>
      BY <1>5, <2>2, RejectsFirst
    <3>2. 1 \in DOMAIN Rows[row].prep
      BY <1>0, <3>1, RowTypes
    <3>3. ~Opens(row)
      BY <1>0, <2>1, <3>1, <3>2, RunAssumption
    <3> QED BY <2>1, <2>2, <3>1, <3>3 DEF RunInv
  <2> QED BY <2>1, <2>2 DEF RunInv
<1>6. CASE Raise
  <2>1. inverted /\ phase' \in {"fail", "crash"} /\ UNCHANGED mcu /\ phase \in {"prep", "probe"}
    BY <1>6 DEF Raise, sensorVars
  <2>2. CASE phase = "prep" /\ phase' = "fail"
    BY <1>0, <1>6, <2>1, <2>2, CaughtInPrep, RunAssumption
  <2> QED BY <2>1, <2>2 DEF RunInv
<1>7. CASE Release
  <2>1. phase' = "prep" /\ UNCHANGED mcu /\ phase \in {"release", "fail", "crash"}
    BY <1>7 DEF Release, sensorVars
  <2>2. CASE \E k \in DOMAIN Rows : Start(k)
    BY <2>1, <2>2, StartsAreFirst DEF Start
  <2>3. CASE ~\E k \in DOMAIN Rows : Start(k)
    <3>1. phase # "crash" /\ inverted
      BY <1>7, <2>3, OnwardKinds
    <3> QED BY <2>1, <3>1 DEF RunInv
  <2> QED BY <2>2, <2>3
<1>8. CASE Sensor \/ UNCHANGED vars
  <2>1. UNCHANGED <<row, phase, at, inverted>>
    BY <1>8 DEF Sensor, vars, toolVars
  <2> QED BY <1>8, <2>1, StaysUp DEF RunInv
<1> QED BY <1>1, <1>2, <1>3, <1>4, <1>5, <1>6, <1>7, <1>8, StepKinds

\* The last row of cshigh_repro.py, and the control of the scripts that keep the line
\* LOW: both drive the line themselves, and the control has seen the interrupt line high.
LastInv ==
  /\ Rows[row].name = "left" /\ phase \in {"probe", "release"} => mcu = "up" /\ Quiet
  /\ Rows[row].name = "control" /\ phase = "probe" /\ Since(Steps, at, {"pulse"}, {}) => hit
  /\ Rows[row].name = "control" /\ phase = "release" => mcu = "up" /\ Quiet /\ hit

LEMMA HitStays ==
  ASSUME RowStep, hit
  PROVE  hit'
BY SeenSteps DEF Get, GetPart, Noise, Watch, Pulse

LEMMA LastStep == BenchInv /\ LastInv /\ [Next]_vars => LastInv'
<1> SUFFICES ASSUME BenchInv, LastInv, [Next]_vars PROVE LastInv'
  OBVIOUS
<1> USE DEF BenchInv
<1>0. row \in DOMAIN Rows
  BY DEF PlaceInv
<1>a. Rows[row].name \in {"left", "control"} => inverted = FALSE
  <2>1. Rows[row].name \in {"left", "control"} => Rows[row].script \notin OldSweeps
    BY <1>0, RunAssumption
  <2> QED BY <2>1 DEF PlaceInv
<1>1. CASE RowStep
  <2>1. /\ UNCHANGED <<row, phase, inverted>> /\ phase \in {"prep", "probe"}
        /\ at \in DOMAIN Steps /\ at' = at + 1 /\ Steps' = Steps /\ Steps \in Seq(STRING)
    BY <1>1, NextStep, StepsTyped
  <2>2. ~(Rows[row].name = "left" /\ phase = "probe")
    <3>1. SUFFICES ASSUME Rows[row].name = "left", phase = "probe" PROVE FALSE
      OBVIOUS
    <3>2. Steps = <<>>
      BY <1>0, <3>1, StepsTyped, RunAssumption
    <3> QED BY <2>1, <3>2
  <2>3. ASSUME Rows[row].name = "control", phase = "probe", Since(Steps, at + 1, {"pulse"}, {})
        PROVE  hit'
    <3>1. CASE Steps[at] = "pulse"
      <4>1. Since(Steps, at, Highs(FALSE), Moves \ Highs(FALSE))
        BY <1>0, <2>1, <2>3, <3>1, StepsTyped, RunAssumption
      <4>2. reset
        BY <1>a, <2>3, <4>1 DEF LineInv
      <4>3. IrqHigh
        BY <4>2 DEF HeldInv, IrqHigh
      <4>4. Pulse
        BY <1>1, <3>1 DEF RowStep, SetLine, Take, Drop, Sleep, Unbind, Bind, Suspend, Open,
             SendHdr, SendBody, Read, Window, Peek, PeekFails, Glance, Watch, Pulse, Do
      <4> QED BY <4>3, <4>4 DEF Pulse
    <3>2. CASE Steps[at] # "pulse"
      <4>1. Since(Steps, at, {"pulse"}, {})
        BY <2>1, <2>3, <3>2, SinceOneMore
      <4>2. hit
        BY <2>3, <4>1 DEF LastInv
      <4> QED BY <1>1, <4>2, HitStays
    <3> QED BY <3>1, <3>2
  <2> QED BY <2>1, <2>2, <2>3 DEF LastInv
<1>2. CASE Begin
  <2>1. /\ phase = "prep" /\ at = Len(Steps) + 1 /\ Steps = Rows[row].prep
        /\ phase' = "probe" /\ at' = 1 /\ UNCHANGED <<sensorVars, row>>
    BY <1>2, RowBegins
  <2>2. Rows[row].name = "left" => mcu' = "up" /\ Quiet'
    <3>1. SUFFICES ASSUME Rows[row].name = "left" PROVE mcu' = "up" /\ Quiet'
      OBVIOUS
    <3>2. mcu = "up" /\ Quiet
      BY <1>0, <1>a, <2>1, <3>1, RunAssumption, RunsQuiet
    <3> QED BY <2>1, <3>2 DEF sensorVars, Quiet
  <2>3. ~Since(Steps, 1, {"pulse"}, {})'
    <3>1. Steps' \in Seq(STRING)
      BY <1>0, <2>1, RowTypes DEF Steps
    <3> QED BY <3>1, SinceNone
  <2> QED BY <2>1, <2>2, <2>3 DEF LastInv
<1>3. CASE Report
  <2>1. /\ phase = "probe" /\ at = Len(Steps) + 1 /\ Steps = Rows[row].probe
        /\ phase' = "release" /\ UNCHANGED <<sensorVars, row, hit>>
    BY <1>3, RowReports DEF seen
  <2>2. Quiet /\ mcu = "up" => Quiet' /\ mcu' = "up"
    BY <2>1 DEF sensorVars, Quiet
  <2>3. Rows[row].name = "control" => mcu = "up" /\ Quiet /\ hit
    <3>1. SUFFICES ASSUME Rows[row].name = "control" PROVE mcu = "up" /\ Quiet /\ hit
      OBVIOUS
    <3>2. mcu = "up" /\ Quiet
      BY <1>0, <1>a, <2>1, <3>1, RunAssumption, RunsQuiet
    <3>3. hit
      BY <1>0, <2>1, <3>1, RunAssumption DEF LastInv
    <3> QED BY <3>2, <3>3
  <2> QED BY <2>1, <2>2, <2>3 DEF LastInv
<1>4. CASE Exit \/ Reject \/ Raise \/ Release
  <2>1. phase' \notin {"probe", "release"}
    BY <1>4 DEF Exit, Reject, Raise, Release
  <2> QED BY <2>1 DEF LastInv
<1>5. CASE Sensor \/ UNCHANGED vars
  <2>1. UNCHANGED <<row, phase, at, hit>> /\ Steps' = Steps
    BY <1>5 DEF Sensor, vars, toolVars, seen, Steps
  <2>2. mcu = "up" /\ Quiet => mcu' = "up" /\ Quiet'
    BY <1>5, StaysUp, QuietRests
  <2> QED BY <2>1, <2>2 DEF LastInv
<1> QED BY <1>1, <1>2, <1>3, <1>4, <1>5, StepKinds

\* Under the wrapper the sensor runs whenever a row sends, and the scripts that say so
\* leave it running.
THEOREM SensorIsLeftRunning == Spec => []LeftRunning
<1>1. Init => RunInv /\ LastInv
  <2>1. Init => phase = "prep" /\ Opens(row)
    BY StartsAreFirst DEF Init
  <2> QED BY <2>1 DEF RunInv, LastInv
<1>2. BenchInv /\ RunInv /\ LastInv => LeftRunning
  <2> SUFFICES ASSUME BenchInv, RunInv, LastInv PROVE LeftRunning
    OBVIOUS
  <2>1. Sending /\ inverted => mcu = "up"
    BY DEF Sending, RunInv
  <2>2. ASSUME phase = "release", inverted \/ Rows[row].name \in {"control", "left"}
        PROVE  /\ mcu = "up"
               /\ ~inverted => ~IrqHigh
               /\ Rows[row].name = "control" => report.hit
    <3>1. mcu = "up" /\ (Rows[row].name \in {"control", "left"} => Quiet)
          /\ (Rows[row].name = "control" => report.hit)
      BY <2>2 DEF RunInv, LastInv, BenchInv, ReportInv
    <3> QED BY <2>2, <3>1 DEF Quiet, IrqHigh
  <2> QED BY <2>1, <2>2 DEF LeftRunning
<1> QED BY <1>1, <1>2, BenchCorrect, RunStep, LastStep, PTL DEF Spec

-----------------------------------------------------------------------------
(* cshigh_repro.py: every case starts from its own reset, and its table of *)
(* controls means what it says.                                            *)

CaseRow == Rows[row].script = "cshigh" /\ Rows[row].name # "left"
HeldRow == Rows[row].name = "C"

\* After its own reset a case knows the sensor: held or running, and without commands
\* and replies until it sends one.
CaseInv ==
  CaseRow /\ phase = "probe" =>
    /\ mcu = IF HeldRow THEN "held" ELSE "up"
    /\ at <= 2 \/ Rows[row].name \in {"C", "D"} => Quiet

\* Only a case that is heard and runs sees anything, and it hears a reply if it asks.
ControlInv ==
  Rows[row].script = "cshigh" =>
    /\ Rows[row].name = "left" => ~hit /\ heard = {}
    /\ needsCsHigh /\ hit => Rows[row].name \in {"A", "D", "E"}
    /\ needsCsHigh /\ heard # {} => Rows[row].name \in {"A", "E"}

LEMMA CaseFacts ==
  ASSUME PlaceInv, CaseRow
  PROVE  /\ IF HeldRow THEN LeavesHigh(Rows[row].prep, FALSE)
            ELSE LeavesRunning(Rows[row].prep, FALSE)
         /\ LeavesReset(Rows[row].prep, FALSE)
         /\ Rows[row].probe[1] = "open"
         /\ \A i \in DOMAIN Rows[row].probe : Rows[row].probe[i] \in
              {"open", "window"} \cup IF Rows[row].name = "D" THEN {} ELSE {"hdr", "body"}
         /\ Rows[row].name \in {"A", "B", "C", "D", "E"}
         /\ Rows[row].csHigh => Rows[row].name # "B"
         /\ inverted = FALSE
<1>1. row \in DOMAIN Rows /\ Rows[row].script = "cshigh" /\ Rows[row].name # "left"
  BY DEF PlaceInv, CaseRow
<1>2. inverted = FALSE
  BY <1>1 DEF PlaceInv, OldSweeps
<1>3. LeavesReset(Rows[row].prep, FALSE)
  BY <1>1, ResetAssumption DEF ResettingScripts, HighRow, OldSweeps
<1> QED BY <1>1, <1>2, <1>3, CaseAssumption DEF HeldRow

LEMMA CaseSteps ==
  ASSUME PlaceInv, CaseRow, RowStep, phase = "probe"
  PROVE  /\ at = 1 => ~SendBody
         /\ Rows[row].name = "D" => ~SendBody
         /\ UNCHANGED <<hit, heard>> \/ Get \/ GetPart \/ Noise
         /\ UNCHANGED mcu
<1>1. at \in DOMAIN Rows[row].probe /\ Steps = Rows[row].probe
  BY NextStep, StepsTyped
<1>2. Steps[at] \in {"open", "window"} \cup IF Rows[row].name = "D" THEN {} ELSE {"hdr", "body"}
  BY <1>1, CaseFacts
<1>3. at = 1 => Steps[at] = "open"
  BY <1>1, CaseFacts
<1>4. ~(Peek \/ Watch \/ Pulse)
  BY <1>2 DEF Peek, Watch, Pulse, Do
<1>5. Rows[row].name # "control"
  BY CaseFacts
<1> QED
  BY <1>2, <1>3, <1>4, <1>5, SeenSteps, ProbeLeavesLine DEF SendBody, Do

LEMMA CaseStep == BenchInv /\ CaseInv /\ [Next]_vars => CaseInv'
<1> SUFFICES ASSUME BenchInv, CaseInv, [Next]_vars, CaseRow', phase' = "probe"
             PROVE  /\ mcu' = IF HeldRow' THEN "held" ELSE "up"
                    /\ at' <= 2 \/ Rows[row'].name \in {"C", "D"} => Quiet'
  BY DEF CaseInv
<1> USE DEF BenchInv
<1>1. CASE RowStep
  <2>1. CaseRow /\ HeldRow' = HeldRow /\ row' = row /\ phase = "probe" /\ at' = at + 1
        /\ at \in Nat \ {0}
    BY <1>1, NextStep DEF CaseRow, HeldRow, PlaceInv
  <2>2. mcu = (IF HeldRow THEN "held" ELSE "up") /\ UNCHANGED mcu
    BY <1>1, <2>1, CaseSteps DEF CaseInv
  <2>3. ASSUME at' <= 2 \/ Rows[row].name \in {"C", "D"} PROVE Quiet'
    <3>1. at = 1 \/ Rows[row].name \in {"C", "D"}
      BY <2>1, <2>3
    <3>2. Quiet
      BY <2>1, <3>1 DEF CaseInv
    <3>3. Rows[row].name = "C" => mcu # "up"
      BY <2>2 DEF HeldRow
    <3> QED BY <1>1, <2>1, <3>1, <3>2, <3>3, CaseSteps, QuietSteps
  <2> QED BY <2>1, <2>2, <2>3
<1>2. CASE Begin
  <2>1. /\ CaseRow /\ HeldRow' = HeldRow /\ phase = "prep" /\ at = Len(Steps) + 1
        /\ Steps = Rows[row].prep /\ UNCHANGED sensorVars
    BY <1>2, RowBegins DEF CaseRow, HeldRow
  <2>2. inverted = FALSE /\ LeavesReset(Steps, FALSE)
        /\ IF HeldRow THEN LeavesHigh(Steps, FALSE) ELSE LeavesRunning(Steps, FALSE)
    BY <2>1, CaseFacts
  <2>3. Quiet
    BY <2>1, <2>2 DEF LeavesReset, LineInv
  <2>4. CASE HeldRow
    <3>1. reset
      BY <2>1, <2>2, <2>4 DEF LeavesHigh, LineInv
    <3> QED BY <2>1, <2>3, <2>4, <3>1 DEF HeldInv, Quiet, sensorVars
  <2>5. CASE ~HeldRow
    <3>1. mcu = "up"
      BY <2>1, <2>2, <2>5, RunsQuiet
    <3> QED BY <2>1, <2>3, <2>5, <3>1 DEF Quiet, sensorVars
  <2> QED BY <2>4, <2>5
<1>3. CASE Exit \/ Reject \/ Raise \/ Report \/ Release
  BY <1>3 DEF Exit, Reject, Raise, Report, Release
<1>4. CASE Sensor \/ UNCHANGED vars
  <2>1. CaseRow /\ HeldRow' = HeldRow /\ UNCHANGED <<row, phase, at>>
    BY <1>4 DEF Sensor, vars, toolVars, CaseRow, HeldRow
  <2>2. mcu \in {"up", "held"} => UNCHANGED mcu
    BY <1>4 DEF Sensor, Boot, Answer, vars, sensorVars
  <2> QED BY <1>4, <2>1, <2>2, QuietRests DEF CaseInv
<1> QED BY <1>1, <1>2, <1>3, <1>4, StepKinds

\* Each case of cshigh_repro.py starts from its own reset (run_case).
THEOREM CasesStartFresh == Spec => []CaseFresh
<1>1. Init => CaseInv
  BY DEF Init, CaseInv
<1>2. BenchInv /\ CaseInv => CaseFresh
  <2> SUFFICES ASSUME BenchInv, CaseInv, Starting, Rows[row].script = "cshigh"
               PROVE  /\ pending = 0 /\ ~todo
                      /\ mcu = IF Rows[row].name = "C" THEN "held" ELSE "up"
    BY DEF CaseFresh
  <2>1. phase = "probe" /\ at = 2 /\ row \in DOMAIN Rows /\ 2 <= Len(Rows[row].probe) + 1
    BY DEF Starting, BenchInv, PlaceInv
  <2>2. CaseRow
    <3>1. Rows[row].name = "left" => Rows[row].probe = <<>>
      BY <2>1, CaseAssumption
    <3>2. Len(<<>>) = 0
      OBVIOUS
    <3> QED BY <2>1, <3>1, <3>2 DEF CaseRow
  <2> QED BY <2>1, <2>2 DEF CaseInv, Quiet, HeldRow
<1> QED BY <1>1, <1>2, BenchCorrect, CaseStep, PTL DEF Spec

LEMMA ControlStep == BenchInv /\ CaseInv /\ ControlInv /\ [Next]_vars => ControlInv'
<1> SUFFICES ASSUME BenchInv, CaseInv, ControlInv, [Next]_vars, Rows[row'].script = "cshigh"
             PROVE  ControlInv'
  BY DEF ControlInv
<1> USE DEF BenchInv
<1>1. CASE RowStep
  <2>1. UNCHANGED <<row, phase, needsCsHigh>> /\ phase \in {"prep", "probe"}
        /\ row \in DOMAIN Rows
    BY <1>1, NextStep DEF wiring, PlaceInv
  <2>2. CASE UNCHANGED <<hit, heard>>
    BY <2>1, <2>2 DEF ControlInv
  <2>3. CASE phase = "prep"
    BY <1>1, <2>2, <2>3, PrepSeesNothing
  <2>4. CASE phase = "probe" /\ ~UNCHANGED <<hit, heard>>
    <3>1. CaseRow
      <4>1. SUFFICES ASSUME Rows[row].name = "left" PROVE FALSE
        BY <2>1 DEF CaseRow
      <4>2. Steps = <<>> /\ at \in DOMAIN Steps
        BY <1>1, <2>1, <2>4, <4>1, CaseAssumption, StepsTyped, NextStep
      <4> QED BY <4>2
    <3>2. Rows[row].name \in {"A", "B", "C", "D", "E"} /\ (Hears /\ needsCsHigh => Rows[row].name # "B")
      BY <3>1, CaseFacts DEF Hears
    <3>3. CASE Get \/ GetPart
      <4>1. pending > 0 /\ Hears
        BY <3>3 DEF Get, GetPart, Waiting
      <4>2. Rows[row].name \notin {"C", "D"}
        BY <2>4, <3>1, <4>1 DEF CaseInv, Quiet
      <4> QED BY <2>1, <3>2, <4>1, <4>2 DEF ControlInv
    <3>4. CASE Noise
      <4>1. Hears /\ mcu # "held" /\ heard' = heard
        BY <3>4 DEF Noise
      <4>2. Rows[row].name # "C"
        BY <2>4, <3>1, <4>1 DEF CaseInv, HeldRow
      <4> QED BY <2>1, <3>1, <3>2, <4>1, <4>2 DEF ControlInv, CaseRow
    <3> QED BY <1>1, <2>4, <3>1, <3>3, <3>4, CaseSteps
  <2> QED BY <2>1, <2>2, <2>3, <2>4
<1>2. CASE Exit \/ Begin \/ Reject \/ Raise \/ Report
  <2>1. UNCHANGED <<row, hit, heard, needsCsHigh>>
    BY <1>2 DEF Exit, Begin, Reject, Raise, Report, seen, wiring
  <2> QED BY <2>1 DEF ControlInv
<1>3. CASE Release
  BY <1>3 DEF Release, ControlInv
<1>4. CASE Sensor \/ UNCHANGED vars
  BY <1>4 DEF Sensor, vars, toolVars, seen, wiring, ControlInv
<1> QED BY <1>1, <1>2, <1>3, <1>4, StepKinds

\* Its table of controls: if the sensor needs SPI_CS_HIGH, only the cases that use it
\* and release the reset see anything, and only those that send commands read a reply.
THEOREM ControlsMeanIt == Spec => []ControlsTable
<1>1. Init => CaseInv /\ ControlInv
  BY DEF Init, CaseInv, ControlInv
<1>2. BenchInv /\ ControlInv => ControlsTable
  <2> SUFFICES ASSUME BenchInv, ControlInv, phase = "release" PROVE ControlsTable
    BY DEF ControlsTable
  <2>1. report.row = row /\ report.hit = hit /\ report.heard = heard
    BY DEF BenchInv, ReportInv
  <2> QED BY <2>1 DEF ControlsTable, ControlInv
<1> QED BY <1>1, <1>2, BenchCorrect, CaseStep, ControlStep, PTL DEF Spec

-----------------------------------------------------------------------------
(* sigfrodr_exact.py: what its control, the interrupt line after the       *)
(* preparation, says of the sensor.                                        *)

SigfrodrRow == Rows[row].script = "sigfrodr" /\ Rows[row].name # "check"

SigfrodrInv ==
  SigfrodrRow /\ (phase \in {"probe", "release"} \/ (phase = "prep" /\ at > Len(Steps))) =>
    /\ reset => level
    /\ Rows[row].name = "cycle" /\ level => reset

LEMMA SigfrodrFacts ==
  ASSUME PlaceInv, SigfrodrRow
  PROVE  LET prep == Rows[row].prep
             done == Len(prep)
         IN  /\ row \in DOMAIN Rows /\ prep \in Seq(STRING)
             /\ prep # <<>> /\ prep[done] = "glance"
             /\ Since(prep, done, {"settle"}, Moves)
             /\ inverted = FALSE => Since(prep, done, Highs(inverted), Moves \ Highs(inverted))
             /\ inverted = TRUE => Since(prep, done, Lows(inverted), Moves \ Lows(inverted))
             /\ Rows[row].name = "cycle" /\ inverted = TRUE =>
                  Since(prep, done, Highs(inverted), {"body"})
             /\ "glance" \notin {Rows[row].probe[i] : i \in DOMAIN Rows[row].probe}
<1>1. row \in DOMAIN Rows /\ Rows[row].script = "sigfrodr" /\ Rows[row].name # "check"
  BY DEF PlaceInv, SigfrodrRow
<1> QED BY <1>1, SigfrodrAssumption, RowTypes, Zenon

\* The glance that ends a preparation.
LEMMA SigfrodrGlance ==
  ASSUME BenchInv, RowStep, SigfrodrRow, phase = "prep", at = Len(Steps)
  PROVE  /\ reset' => level'
         /\ Rows[row].name = "cycle" /\ level' => reset'
<1> USE DEF BenchInv
<1>1. Steps = Rows[row].prep /\ Steps[at] = "glance"
  BY StepsTyped, SigfrodrFacts
<1>2. Glance
  BY <1>1 DEF RowStep, SetLine, Take, Drop, Sleep, Unbind, Bind, Suspend, Open, SendHdr,
       SendBody, Read, Window, Peek, PeekFails, Glance, Watch, Pulse, Do
<1>3. level' = IrqHigh /\ reset' = reset
  BY <1>2 DEF Glance, sensorVars
<1>4. reset => IrqHigh
  BY DEF HeldInv, IrqHigh
<1>5. ASSUME Rows[row].name = "cycle", ~reset PROVE ~IrqHigh
  <2>1. inverted \in BOOLEAN
    BY DEF PlaceInv
  <2>2. inverted = TRUE
    BY <1>1, <1>5, <2>1, SigfrodrFacts DEF LineInv
  <2>3. Quiet /\ mcu # "booting"
    BY <1>1, <1>5, <2>2, SigfrodrFacts DEF LineInv
  <2>4. mcu = "up"
    BY <1>5, <2>3, BootedIsUp
  <2> QED BY <2>3, <2>4 DEF Quiet, IrqHigh
<1> QED BY <1>3, <1>4, <1>5

LEMMA SigfrodrStep == BenchInv /\ SigfrodrInv /\ [Next]_vars => SigfrodrInv'
<1> SUFFICES ASSUME BenchInv, SigfrodrInv, [Next]_vars, SigfrodrRow',
                    phase' \in {"probe", "release"} \/ (phase' = "prep" /\ at' > Len(Steps'))
             PROVE  /\ reset' => level'
                    /\ Rows[row'].name = "cycle" /\ level' => reset'
  BY DEF SigfrodrInv
<1> USE DEF BenchInv
<1>1. CASE RowStep
  <2>1. /\ SigfrodrRow /\ UNCHANGED <<row, phase>> /\ phase \in {"prep", "probe"}
        /\ at \in DOMAIN Steps /\ at' = at + 1 /\ Steps' = Steps /\ Steps \in Seq(STRING)
    BY <1>1, NextStep, StepsTyped DEF SigfrodrRow
  <2>2. CASE phase = "prep"
    <3>1. at = Len(Steps)
      BY <2>1, <2>2
    <3> QED BY <1>1, <2>1, <2>2, <3>1, SigfrodrGlance
  <2>3. CASE phase = "probe"
    <3>1. Rows[row].name # "control" /\ row \in DOMAIN Rows
      BY <2>1, SigfrodrAssumption DEF SigfrodrRow, PlaceInv
    <3>2. UNCHANGED reset
      BY <1>1, <2>3, <3>1, ProbeLeavesLine
    <3>3. Steps[at] \notin {"glance", "watch"}
      <4>1. Steps = Rows[row].probe
        BY <2>3, StepsTyped
      <4>2. Steps[at] # "glance"
        BY <2>1, <4>1, SigfrodrFacts
      <4>3. Steps[at] \in StepsOf(Rows[row])
        BY <1>1, StepIsOfRow
      <4> QED BY <2>1, <3>1, <4>2, <4>3, ReadersAssumption DEF SigfrodrRow
    <3>4. UNCHANGED level
      BY <1>1, <3>3 DEF RowStep, SetLine, Take, Drop, Sleep, Unbind, Bind, Suspend, Open,
           SendHdr, SendBody, Read, Window, Peek, PeekFails, Glance, Watch, Pulse, Do, seen
    <3> QED BY <2>1, <2>3, <3>2, <3>4 DEF SigfrodrInv
  <2> QED BY <2>1, <2>2, <2>3
<1>2. CASE Begin
  <2>1. /\ SigfrodrRow /\ phase = "prep" /\ UNCHANGED <<sensorVars, row, level>>
        /\ at > Len(Steps)
    BY <1>2, RowBegins DEF SigfrodrRow, seen, Begin
  <2> QED BY <2>1 DEF SigfrodrInv, sensorVars
<1>3. CASE Report
  BY <1>3, RowReports DEF SigfrodrInv, SigfrodrRow, sensorVars, seen
<1>4. CASE Exit \/ Reject \/ Raise
  BY <1>4 DEF Exit, Reject, Raise
<1>5. CASE Release
  <2>1. phase' = "prep" /\ at' = 1
    BY <1>5 DEF Release
  <2>2. Steps' = Rows[row'].prep /\ PlaceInv'
    BY <2>1, PlaceStep DEF Steps
  <2>3. Rows[row'].prep # <<>> /\ Rows[row'].prep \in Seq(STRING)
    <3>1. row' \in DOMAIN Rows
      BY <2>2 DEF PlaceInv
    <3> QED BY <3>1, SigfrodrAssumption, RowTypes DEF SigfrodrRow
  <2> QED BY <2>1, <2>2, <2>3
<1>6. CASE Sensor \/ UNCHANGED vars
  <2>1. UNCHANGED <<row, phase, at, level, reset>> /\ Steps' = Steps
    BY <1>6, QuietRests DEF Sensor, Boot, Answer, vars, sensorVars, toolVars, seen, Steps
  <2> QED BY <2>1 DEF SigfrodrInv, SigfrodrRow
<1> QED BY <1>1, <1>2, <1>3, <1>4, <1>5, <1>6, StepKinds

\* The control of a row of sigfrodr_exact.py passes when the sensor is held in reset,
\* and after a power cycle only then.
THEOREM ControlsMeanHeld == Spec => []ControlMeansHeld
<1>1. Init => SigfrodrInv
  <2> SUFFICES ASSUME Init PROVE SigfrodrInv
    OBVIOUS
  <2>1. phase = "prep" /\ at = 1 /\ PlaceInv
    BY PlaceInit DEF Init
  <2>2. SigfrodrRow => Steps # <<>> /\ Steps \in Seq(STRING)
    BY <2>1, SigfrodrFacts, StepsTyped
  <2> QED BY <2>1, <2>2 DEF SigfrodrInv
<1>2. BenchInv /\ SigfrodrInv => ControlMeansHeld
  <2> SUFFICES ASSUME BenchInv, SigfrodrInv, phase = "release" PROVE ControlMeansHeld
    BY DEF ControlMeansHeld
  <2>1. report.row = row /\ report.level = level
    BY DEF BenchInv, ReportInv
  <2> QED BY <2>1 DEF ControlMeansHeld, SigfrodrInv, SigfrodrRow
<1> QED BY <1>1, <1>2, BenchCorrect, SigfrodrStep, PTL DEF Spec

=============================================================================
