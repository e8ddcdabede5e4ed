-------------------------- MODULE ToolBench_proofs --------------------------
(***************************************************************************)
(* What holds of the bench tools however many replies the sensor holds and *)
(* whichever calls raise.  Of the tables the proofs use only the facts     *)
(* that ToolTables states about them.                                      *)
(***************************************************************************)
EXTENDS ToolBench, SequenceTheorems, TLAPS

-----------------------------------------------------------------------------
(* The tables.                                                             *)

LEMMA RowTypes ==
  /\ Len(Rows) \in Nat \ {0}
  /\ DOMAIN Rows = 1..Len(Rows)
  /\ 1 \in DOMAIN Rows
  /\ \A k \in DOMAIN Rows : /\ Rows[k].prep \in Seq(STRING) /\ Rows[k].probe \in Seq(STRING)
                            /\ Rows[k].csHigh \in BOOLEAN
<1> DEFINE RowSet == [script : STRING, name : STRING, prep : Seq(STRING), probe : Seq(STRING),
                     csHigh : BOOLEAN, caught : SUBSET Everything, keep : BOOLEAN,
                     last : BOOLEAN]
<1>1. Rows \in Seq(RowSet) /\ Rows # <<>>
  BY RowsAssumption
<1> HIDE DEF RowSet
<1>2. Len(Rows) \in Nat /\ DOMAIN Rows = 1..Len(Rows) /\ Len(Rows) # 0
  BY <1>1
<1>3. ASSUME NEW k \in DOMAIN Rows
      PROVE  /\ Rows[k].prep \in Seq(STRING) /\ Rows[k].probe \in Seq(STRING)
             /\ Rows[k].csHigh \in BOOLEAN
  <2>1. Rows[k] \in RowSet
    BY <1>1, <1>2
  <2> QED BY <2>1 DEF RowSet
<1> QED BY <1>2, <1>3

LEMMA StartsAreRows == Starts \subseteq DOMAIN Rows
BY DEF Starts

-----------------------------------------------------------------------------
(* The sensor.                                                             *)

LEMMA SensorActions ==
  ASSUME SensorTypeOK,
         (\E high \in BOOLEAN : DriveReset(high)) \/ Boot \/ Answer \/ Clocked
           \/ HearCommand \/ GiveFrame \/ UNCHANGED sensorVars
  PROVE  SensorTypeOK'
<1> USE MaxPendingAssumption DEF SensorTypeOK
<1>1. ASSUME NEW high \in BOOLEAN, DriveReset(high) PROVE SensorTypeOK'
  <2>1. reset' \in BOOLEAN /\ todo' \in BOOLEAN
    BY <1>1, Zenon DEF DriveReset
  <2>2. mcu' \in {"held", "booting", "up"} /\ pending' \in 0..MaxPending
    BY <1>1 DEF DriveReset
  <2> QED BY <2>1, <2>2
<1>2. CASE Boot
  BY <1>2 DEF Boot
<1>3. CASE Answer
  <2>1. PICK frames \in 1..2 : pending + frames <= MaxPending /\ pending' = pending + frames
    BY <1>3 DEF Answer
  <2>2. pending' \in 0..MaxPending
    BY <2>1
  <2> QED BY <1>3, <2>2 DEF Answer
<1>4. CASE Clocked
  BY <1>4 DEF Clocked, FrameTaken
<1>5. CASE HearCommand
  BY <1>5 DEF HearCommand, FrameTaken
<1>6. CASE GiveFrame
  BY <1>6 DEF GiveFrame, FrameTaken
<1>7. CASE UNCHANGED sensorVars
  BY <1>7 DEF sensorVars
<1> QED
  BY <1>1, <1>2, <1>3, <1>4, <1>5, <1>6, <1>7

-----------------------------------------------------------------------------
(* What a step of the bench can be.                                        *)

Ends(to) == /\ phase' = to /\ at' = 1
            /\ UNCHANGED <<row, inverted, wiring>>

\* The steps of a row, and the others.
RowStep == \/ \E high \in BOOLEAN : SetLine(high) \/ Take(high)
           \/ Drop \/ Sleep \/ Unbind \/ Bind \/ Suspend
           \/ Open \/ SendHdr \/ SendBody \/ Read \/ Window
           \/ Peek \/ PeekFails \/ Glance \/ Watch \/ Pulse

LEMMA StepKinds ==
  ASSUME Next
  PROVE RowStep \/ Exit \/ Begin \/ Reject \/ Raise \/ Report \/ Release \/ Sensor
BY DEF Next, Run, Line, Exchange, RowStep

\* A step of a row is the next one of its prep or its probe.
LEMMA RowStepDoes ==
  ASSUME RowStep
  PROVE  /\ phase \in {"prep", "probe"} /\ at <= Len(Steps)
         /\ at' = at + 1
         /\ UNCHANGED <<row, phase, inverted, wiring, failed, report>>
BY DEF RowStep, SetLine, Take, Drop, Sleep, Unbind, Bind, Suspend, Open, SendHdr, SendBody,
       Read, Window, Peek, PeekFails, Glance, Watch, Pulse, Do

LEMMA OthersEnd ==
  ASSUME Exit \/ Reject \/ Raise \/ Report
  PROVE  \E to \in {"release", "fail", "crash"} : Ends(to)
<1>1. CASE Exit
  BY <1>1 DEF Exit, Ends
<1>2. CASE Reject
  BY <1>2 DEF Reject, Ends
<1>3. CASE Raise
  BY <1>3 DEF Raise, Ends
<1>4. CASE Report
  <2>1. phase' = "release" /\ at' = 1
    BY <1>4 DEF Report
  <2> QED
    BY <1>4, <2>1 DEF Report, Ends
<1> QED BY <1>1, <1>2, <1>3, <1>4

-----------------------------------------------------------------------------
(* The place in the script.                                                *)

PlaceInv ==
  /\ row \in DOMAIN Rows
  /\ phase \in {"prep", "probe", "release", "fail", "crash"}
  /\ at \in Nat \ {0}
  /\ phase = "prep" => at <= Len(Rows[row].prep) + 1
  /\ phase = "probe" => at <= Len(Rows[row].probe) + 1
  /\ phase \notin {"prep", "probe"} => at = 1
  /\ inverted \in BOOLEAN
  /\ inverted => Rows[row].script \in OldSweeps

\* The first step of a script's row.
LEMMA StartsRight ==
  ASSUME NEW k, Start(k), phase' = "prep", at' = 1
  PROVE  PlaceInv'
<1>1. k \in DOMAIN Rows /\ row' = k
  BY StartsAreRows DEF Start
<1>2. Len(Rows[k].prep) \in Nat
  BY <1>1, RowTypes
<1>3. inverted' \in BOOLEAN /\ (inverted' => Rows[k].script \in OldSweeps)
  BY DEF Start
<1> QED BY <1>1, <1>2, <1>3 DEF PlaceInv

\* The row after a release.
LEMMA OnwardKinds ==
  ASSUME PlaceInv, Release
  PROVE  /\ phase' = "prep" /\ at' = 1
         /\ \/ \E k \in DOMAIN Rows : Start(k)
            \/ /\ row' = row + 1 /\ ~Rows[row].last /\ phase # "crash"
               /\ row + 1 \in DOMAIN Rows /\ Rows[row + 1].script = Rows[row].script
               /\ inverted' = inverted
<1>1. CASE ScriptEnds
  BY <1>1 DEF Release, Onward
<1>2. CASE ~ScriptEnds
  <2>1. ~Rows[row].last /\ phase # "crash"
    BY <1>2 DEF ScriptEnds
  <2> QED
    BY <1>2, <2>1, RowsAssumption DEF Release, Onward, PlaceInv
<1> QED BY <1>1, <1>2

LEMMA PlaceInit == Init => PlaceInv
<1> SUFFICES ASSUME Init PROVE PlaceInv
  OBVIOUS
<1>1. row \in DOMAIN Rows /\ Len(Rows[row].prep) \in Nat
  BY StartsAreRows, RowTypes DEF Init
<1>2. inverted \in BOOLEAN /\ (inverted => Rows[row].script \in OldSweeps)
  BY DEF Init
<1> QED BY <1>1, <1>2 DEF Init, PlaceInv

LEMMA PlaceStep == PlaceInv /\ [Next]_vars => PlaceInv'
<1> SUFFICES ASSUME PlaceInv, [Next]_vars PROVE PlaceInv'
  OBVIOUS
<1>0. Len(Rows[row].prep) \in Nat /\ Len(Rows[row].probe) \in Nat
  BY RowTypes DEF PlaceInv
<1>1. CASE RowStep
  BY <1>0, <1>1, RowStepDoes DEF PlaceInv, Steps
<1>2. CASE Exit \/ Reject \/ Raise \/ Report
  <2>1. PICK to \in {"release", "fail", "crash"} : Ends(to)
    BY <1>2, OthersEnd
  <2> QED BY <2>1 DEF Ends, PlaceInv
<1>3. CASE Begin
  BY <1>0, <1>3 DEF Begin, PlaceInv
<1>4. CASE Release
  <2>1. CASE \E k \in DOMAIN Rows : Start(k)
    BY <1>4, <2>1, OnwardKinds, StartsRight
  <2>2. CASE ~\E k \in DOMAIN Rows : Start(k)
    <3>1. /\ phase' = "prep" /\ at' = 1 /\ row' = row + 1 /\ inverted' = inverted
          /\ row + 1 \in DOMAIN Rows /\ Rows[row + 1].script = Rows[row].script
      BY <1>4, <2>2, OnwardKinds
    <3>2. Len(Rows[row + 1].prep) \in Nat
      BY <3>1, RowTypes
    <3> QED BY <3>1, <3>2 DEF PlaceInv
  <2> QED BY <2>1, <2>2
<1>5. CASE Sensor \/ UNCHANGED vars
  BY <1>5 DEF Sensor, toolVars, vars, PlaceInv
<1> QED BY <1>1, <1>2, <1>3, <1>4, <1>5, StepKinds

\* The step that is next is one of the row's.
LEMMA StepIsOfRow ==
  ASSUME PlaceInv, RowStep
  PROVE  /\ Steps[at] \in StepsOf(Rows[row])
         /\ phase = "prep" => at \in DOMAIN Rows[row].prep /\ Steps = Rows[row].prep
         /\ phase = "probe" => at \in DOMAIN Rows[row].probe /\ Steps = Rows[row].probe
<1>1. /\ at \in Nat \ {0} /\ at <= Len(Steps) /\ phase \in {"prep", "probe"}
      /\ row \in DOMAIN Rows
  BY RowStepDoes DEF PlaceInv
<1>2. phase = "prep" => at \in DOMAIN Rows[row].prep /\ Steps = Rows[row].prep
  BY <1>1, RowTypes DEF Steps
<1>3. phase = "probe" => at \in DOMAIN Rows[row].probe /\ Steps = Rows[row].probe
  BY <1>1, RowTypes DEF Steps
<1> QED BY <1>1, <1>2, <1>3 DEF StepsOf

-----------------------------------------------------------------------------
(* The sensor under the bench.                                             *)

Handled == (\E high \in BOOLEAN : DriveReset(high)) \/ Boot \/ Answer \/ Clocked
           \/ HearCommand \/ GiveFrame \/ UNCHANGED sensorVars

LEMMA SensorKinds ==
  ASSUME Next
  PROVE  Handled \/ Suspend
<1>1. CASE RowStep
  <2>1. CASE \E high \in BOOLEAN : SetLine(high) \/ Take(high)
    <3>1. PICK high \in BOOLEAN : SetLine(high) \/ Take(high)
      BY <2>1
    <3>2. DriveReset(high # inverted)
      BY <3>1 DEF SetLine, Take
    <3> QED BY <3>2 DEF Handled
  <2>2. CASE Drop \/ Sleep \/ Unbind \/ Bind \/ Open \/ PeekFails \/ Glance \/ Watch \/ Pulse
    BY <2>2 DEF Drop, Sleep, Unbind, Bind, Open, PeekFails, Glance, Watch, Pulse, Handled
  <2>3. CASE SendHdr \/ SendBody
    BY <2>3 DEF SendHdr, SendBody, Handled
  <2>4. CASE Read \/ Window \/ Peek
    BY <2>4 DEF Read, Window, Peek, Get, GetPart, Noise, Nothing, Handled
  <2> QED BY <1>1, <2>1, <2>2, <2>3, <2>4 DEF RowStep
<1>2. CASE Exit \/ Begin \/ Reject \/ Raise \/ Report \/ Release
  BY <1>2 DEF Exit, Begin, Reject, Raise, Report, Release, Handled
<1>3. CASE Sensor
  BY <1>3 DEF Sensor, Handled
<1> QED BY <1>1, <1>2, <1>3, StepKinds

\* The MCU is held exactly while the line is HIGH.
HeldInv == SensorTypeOK /\ (reset <=> mcu = "held")

LEMMA HeldInit == Init => HeldInv
<1> SUFFICES ASSUME Init PROVE HeldInv
  OBVIOUS
<1>1. PICK line \in BOOLEAN : SensorInit(line)
  BY DEF Init
<1>2. pending \in 0..MaxPending
  BY <1>1, MaxPendingAssumption DEF SensorInit
<1> QED BY <1>1, <1>2 DEF SensorInit, HeldInv, SensorTypeOK

LEMMA HeldStep == HeldInv /\ [Next]_vars => HeldInv'
<1> SUFFICES ASSUME HeldInv, [Next]_vars PROVE HeldInv'
  OBVIOUS
<1>1. CASE Handled
  <2>1. SensorTypeOK'
    BY <1>1, SensorActions DEF Handled, HeldInv
  <2>2. CASE \E high \in BOOLEAN : DriveReset(high)
    BY <2>1, <2>2 DEF DriveReset, HeldInv
  <2>3. CASE Boot \/ Answer \/ Clocked \/ HearCommand \/ GiveFrame \/ UNCHANGED sensorVars
    BY <2>1, <2>3 DEF Boot, Answer, Clocked, HearCommand, GiveFrame, sensorVars, HeldInv
  <2> QED BY <1>1, <2>2, <2>3 DEF Handled
<1>2. CASE Suspend
  <2>1. 0 \in 0..MaxPending
    BY MaxPendingAssumption
  <2>2. CASE \E high \in BOOLEAN : DriveReset(high)
    <3>1. SensorTypeOK'
      BY <2>2, SensorActions DEF HeldInv
    <3> QED BY <2>2, <3>1 DEF DriveReset, HeldInv
  <2>3. CASE reset' = FALSE /\ mcu' = "booting" /\ todo' = FALSE /\ pending' = 0
    BY <2>1, <2>3 DEF HeldInv, SensorTypeOK
  <2> QED BY <1>2, <2>2, <2>3 DEF Suspend
<1>3. CASE UNCHANGED vars
  BY <1>3 DEF vars, sensorVars, HeldInv, SensorTypeOK
<1> QED BY <1>1, <1>2, <1>3, SensorKinds

\* A script starts with its first row.
LEMMA StartsAreFirst ==
  ASSUME NEW k \in Starts
  PROVE  Opens(k)
BY RowTypes DEF Starts, Opens

-----------------------------------------------------------------------------
(* Types and histories.                                                    *)

Askers == 0..Len(Rows)

\* A history with one asker for each waiting reply.
FromInv == /\ from \in Seq(Askers) /\ Len(from) = pending
           /\ asked \in Askers

LEMMA EmptyHistory == <<>> \in Seq(Askers) /\ Len(<<>>) = 0
<1>1. <<>> \in Seq(Askers)
  OBVIOUS
<1> QED BY <1>1

LEMMA AllAlike ==
  ASSUME NEW S, NEW e \in S, NEW n \in Nat
  PROVE  [k \in 1..n |-> e] \in Seq(S) /\ Len([k \in 1..n |-> e]) = n
<1> DEFINE s == [k \in 1..n |-> e]
<1>1. s \in [1..n -> S]
  OBVIOUS
<1>2. s \in Seq(S)
  BY <1>1, SeqDef
<1>3. DOMAIN s = 1..n
  OBVIOUS
<1>4. Len(s) \in Nat /\ DOMAIN s = 1..Len(s)
  BY <1>2, LenProperties
<1> HIDE DEF s
<1>5. Len(s) = n
  BY <1>3, <1>4
<1> QED
  BY <1>2, <1>5 DEF s

LEMMA Differences ==
  \A p, q \in Nat :
    /\ q < p /\ q + 1 >= p => q = p - 1
    /\ ~(q < p) => q - p \in Nat /\ p + (q - p) = q
OBVIOUS

LEMMA TrackKeeps ==
  ASSUME FromInv, pending' \in Nat, pending' = 0 \/ pending' + 1 >= pending, Track
  PROVE  from' \in Seq(Askers) /\ Len(from') = pending'
<1>1. pending \in Nat /\ from \in Seq(Askers) /\ Len(from) = pending /\ asked \in Askers
  BY DEF FromInv
<1>2. CASE pending' = 0
  BY <1>2, EmptyHistory DEF Track
<1>3. CASE pending' # 0 /\ pending' < pending
  <2>1. from' = Tail(from)
    BY <1>3 DEF Track
  <2>2. from \in Seq(Askers) /\ Len(from) = pending /\ pending > 0
    BY <1>1, <1>3
  <2>3. Tail(from) \in Seq(Askers) /\ Len(Tail(from)) = pending - 1
    BY <1>1, <2>2
  <2>4. pending' = pending - 1
    BY <1>1, <1>3, Differences, Zenon
  <2> QED
    BY <2>1, <2>3, <2>4
<1>4. CASE pending' # 0 /\ ~(pending' < pending)
  <2> DEFINE n == pending' - pending
             new == [k \in 1..n |-> asked]
  <2>1. from' = from \o new
    BY <1>4 DEF Track
  <2>2. n \in Nat /\ pending + n = pending'
    BY <1>1, <1>4, Differences, Zenon
  <2>3. new \in Seq(Askers) /\ Len(new) = n
    <3> HIDE DEF n
    <3> QED BY <1>1, <2>2, AllAlike
  <2> HIDE DEF n, new
  <2>5. from \o new \in Seq(Askers) /\ Len(from \o new) = pending + n
    BY <1>1, <2>2, <2>3, ConcatProperties
  <2> QED
    BY <2>1, <2>2, <2>5
<1> QED
  BY <1>2, <1>3, <1>4

LEMMA PendingSteps ==
  ASSUME SensorTypeOK, Next
  PROVE  pending' = 0 \/ pending' + 1 >= pending
<1>0. pending \in Nat
  BY MaxPendingAssumption DEF SensorTypeOK
<1>1. CASE Suspend
  BY <1>0, <1>1 DEF Suspend, DriveReset
<1>2. CASE \E high \in BOOLEAN : DriveReset(high)
  BY <1>0, <1>2 DEF DriveReset
<1>3. CASE Boot \/ UNCHANGED sensorVars
  BY <1>0, <1>3 DEF Boot, sensorVars
<1>4. CASE Answer
  BY <1>0, <1>4 DEF Answer
<1>5. CASE Clocked \/ HearCommand \/ GiveFrame
  BY <1>0, <1>5 DEF Clocked, HearCommand, GiveFrame, FrameTaken
<1> QED
  BY <1>1, <1>2, <1>3, <1>4, <1>5, SensorKinds DEF Handled

LEMMA FromInit == Init => FromInv
<1> SUFFICES ASSUME Init PROVE FromInv
  OBVIOUS
<1>1. from = <<>> /\ pending = 0 /\ asked = 0
  BY DEF Init, SensorInit
<1>2. 0 \in Askers
  BY RowTypes DEF Askers
<1> QED BY <1>1, <1>2, EmptyHistory DEF FromInv

\* Who asks is a row, or an earlier script.
LEMMA AskedStep ==
  ASSUME PlaceInv, asked \in Askers, Next
  PROVE  asked' \in Askers
<1>1. row \in Askers /\ 0 \in Askers
  BY RowTypes DEF PlaceInv, Askers
<1>2. CASE SendBody
  BY <1>1, <1>2 DEF SendBody
<1>3. CASE Release
  BY <1>1, <1>3 DEF Release, Onward
<1>4. CASE RowStep /\ ~SendBody
  BY <1>4 DEF RowStep, SetLine, Take, Drop, Sleep, Unbind, Bind, Suspend, Open, SendHdr, Read,
              Window, Peek, PeekFails, Glance, Watch, Pulse
<1>5. CASE Exit \/ Begin \/ Reject \/ Raise \/ Report \/ Sensor
  BY <1>5 DEF Exit, Begin, Reject, Raise, Report, Sensor
<1> QED BY <1>2, <1>3, <1>4, <1>5, StepKinds

LEMMA FromStep == HeldInv /\ PlaceInv /\ FromInv /\ [Next]_vars => FromInv'
<1> SUFFICES ASSUME HeldInv, PlaceInv, FromInv, [Next]_vars PROVE FromInv'
  OBVIOUS
<1>1. CASE UNCHANGED vars
  BY <1>1 DEF vars, sensorVars, FromInv
<1>2. ASSUME Next, Track PROVE FromInv'
  <2>1. pending' \in Nat
    BY HeldStep, MaxPendingAssumption DEF HeldInv, SensorTypeOK
  <2>2. pending' = 0 \/ pending' + 1 >= pending
    BY <1>2, PendingSteps DEF HeldInv
  <2>3. asked' \in Askers
    BY <1>2, AskedStep DEF FromInv
  <2> QED BY <1>2, <2>1, <2>2, <2>3, TrackKeeps DEF FromInv
<1>3. ASSUME Next, UNCHANGED <<sensorVars, from>> PROVE FromInv'
  BY <1>3, AskedStep DEF sensorVars, FromInv
<1>4. CASE Release
  <2>1. pending \in Nat /\ from \in Seq(Askers) /\ Len(from) = pending
    BY MaxPendingAssumption DEF HeldInv, SensorTypeOK, FromInv
  <2>2. DOMAIN from = 1..pending
    BY <2>1
  <2>3. 0 \in Askers
    BY RowTypes DEF Askers
  <2>4. pending' = pending
    BY <1>4 DEF Release, sensorVars
  <2>5. CASE ScriptEnds
    <3>1. from' = [k \in 1..pending |-> 0] /\ asked' = 0
      BY <1>4, <2>2, <2>5 DEF Release, Onward
    <3>2. from' \in Seq(Askers) /\ Len(from') = pending
      BY <2>1, <2>3, <3>1, AllAlike
    <3> QED BY <2>3, <2>4, <3>1, <3>2 DEF FromInv
  <2>6. CASE ~ScriptEnds
    BY <1>4, <2>4, <2>6 DEF Release, Onward, FromInv
  <2> QED BY <2>5, <2>6
<1>5. CASE RowStep
  <2>1. CASE (\E high \in BOOLEAN : SetLine(high) \/ Take(high)) \/ Suspend \/ SendHdr
             \/ SendBody \/ Read \/ Window \/ Peek
    <3>1. Track
      BY <2>1 DEF SetLine, Take, Suspend, SendHdr, SendBody, Read, Window, Peek
    <3>2. Next \/ UNCHANGED vars
      OBVIOUS
    <3> QED BY <1>1, <1>2, <3>1, <3>2
  <2>2. CASE Drop \/ Sleep \/ Unbind \/ Bind \/ Open \/ PeekFails \/ Glance \/ Watch \/ Pulse
    <3>1. UNCHANGED <<sensorVars, from>>
      BY <2>2 DEF Drop, Sleep, Unbind, Bind, Open, PeekFails, Glance, Watch, Pulse
    <3> QED BY <1>1, <1>3, <3>1
  <2> QED BY <1>5, <2>1, <2>2 DEF RowStep
<1>6. CASE Exit \/ Begin \/ Reject \/ Raise \/ Report
  <2>1. UNCHANGED <<sensorVars, from>>
    BY <1>6 DEF Exit, Begin, Reject, Raise, Report
  <2> QED BY <1>1, <1>3, <2>1
<1>7. CASE Sensor
  <2>1. Track
    BY <1>7 DEF Sensor
  <2> QED BY <1>1, <1>2, <2>1
<1> QED BY <1>1, <1>4, <1>5, <1>6, <1>7, StepKinds

ReportSet == [row : DOMAIN Rows, hit : BOOLEAN, level : BOOLEAN, failed : BOOLEAN,
              heard : SUBSET Askers]

\* The rest of the types.
RestInv ==
  /\ needsCsHigh \in BOOLEAN /\ idle \in {"ff", "00"}
  /\ owner \in {"none", "script", "lost"}
  /\ node \in BOOLEAN /\ failed \in BOOLEAN /\ hit \in BOOLEAN /\ level \in BOOLEAN
  /\ heard \subseteq Askers
  /\ report \in ReportSet

LEMMA NoReportTyped == NoReport \in ReportSet
BY RowTypes DEF NoReport, ReportSet

LEMMA RestInit == Init => RestInv
<1> SUFFICES ASSUME Init PROVE RestInv
  OBVIOUS
<1>1. report \in ReportSet
  BY NoReportTyped DEF Init
<1>2. /\ needsCsHigh \in BOOLEAN /\ idle \in {"ff", "00"} /\ owner = "none"
      /\ node \in BOOLEAN /\ failed = FALSE /\ hit = FALSE /\ level = FALSE /\ heard = {}
  BY DEF Init
<1> QED BY <1>1, <1>2 DEF RestInv

\* A reply that waits has an asker.
LEMMA HeadAsked ==
  ASSUME SensorTypeOK, FromInv, pending > 0
  PROVE  Head(from) \in Askers
<1>1. pending \in Nat
  BY MaxPendingAssumption DEF SensorTypeOK
<1>2. from \in Seq(Askers) /\ Len(from) > 0
  BY <1>1 DEF FromInv
<1> QED BY <1>2

LEMMA RestStep == HeldInv /\ PlaceInv /\ FromInv /\ RestInv /\ [Next]_vars => RestInv'
<1> SUFFICES ASSUME HeldInv, PlaceInv, FromInv, RestInv, [Next]_vars PROVE RestInv'
  OBVIOUS
<1> USE DEF RestInv
<1>1. CASE RowStep
  <2>1. UNCHANGED <<needsCsHigh, idle, failed, report>>
    BY <1>1, RowStepDoes DEF wiring
  <2>2. CASE (\E high \in BOOLEAN : SetLine(high) \/ Take(high)) \/ Drop \/ Sleep
             \/ Unbind \/ Bind \/ Suspend \/ Open \/ SendHdr \/ SendBody \/ PeekFails
    <3>1. UNCHANGED <<hit, level, heard>>
      BY <2>2 DEF SetLine, Take, Drop, Sleep, Unbind, Bind, Suspend, Open, SendHdr, SendBody,
                  PeekFails, seen
    <3>2. owner' \in {"none", "script", "lost"} /\ node' \in BOOLEAN
      BY <2>2 DEF SetLine, Take, Drop, Sleep, Unbind, Bind, Suspend, Open, SendHdr, SendBody,
                  PeekFails
    <3> QED BY <2>1, <3>1, <3>2
  <2>3. ASSUME Get \/ GetPart \/ Noise PROVE hit' \in BOOLEAN /\ heard' \subseteq Askers
    BY <2>3, HeadAsked DEF Get, GetPart, Noise, Waiting, HeldInv
  <2>4. CASE Read \/ Window \/ Peek
    <3>1. hit' \in BOOLEAN /\ heard' \subseteq Askers
      BY <2>3, <2>4 DEF Read, Window, Peek, Nothing
    <3> QED BY <2>1, <2>4, <3>1 DEF Read, Window, Peek
  <2>5. CASE Glance \/ Watch
    <3>1. level' \in BOOLEAN /\ hit' \in BOOLEAN
      BY <2>5, Zenon DEF Glance, Watch, IrqHigh
    <3> QED BY <2>1, <2>5, <3>1 DEF Glance, Watch
  <2>6. CASE Pulse
    <3>1. hit' \in BOOLEAN
      BY <2>6, Zenon DEF Pulse
    <3>2. heard' \subseteq Askers
      BY <2>6, HeadAsked DEF Pulse, HeldInv
    <3> QED BY <2>1, <2>6, <3>1, <3>2 DEF Pulse
  <2> QED BY <1>1, <2>2, <2>4, <2>5, <2>6 DEF RowStep
<1>2. CASE Exit \/ Begin \/ Reject
  BY <1>2 DEF Exit, Begin, Reject, CutShort, seen, wiring
<1>3. CASE Raise
  BY <1>3 DEF Raise, CutShort, seen, wiring
<1>4. CASE Report
  <2>1. row \in DOMAIN Rows
    BY DEF PlaceInv
  <2>2. report' \in ReportSet
    BY <1>4, <2>1 DEF Report, ReportSet
  <2> QED BY <1>4, <2>2 DEF Report, seen, wiring
<1>5. CASE Release
  <2>1. report' \in ReportSet
    BY <1>5, NoReportTyped DEF Release
  <2>2. owner' \in {"none", "script", "lost"} /\ failed' \in BOOLEAN
    BY <1>5 DEF Release, Owner
  <2>3. hit' = FALSE /\ level' = FALSE /\ heard' = {}
        /\ UNCHANGED <<needsCsHigh, idle, node>>
    BY <1>5 DEF Release, wiring
  <2> QED BY <2>1, <2>2, <2>3
<1>6. CASE Sensor
  BY <1>6 DEF Sensor, toolVars, seen, wiring
<1>7. CASE UNCHANGED vars
  BY <1>7 DEF vars, toolVars, seen, wiring
<1> QED BY <1>1, <1>2, <1>3, <1>4, <1>5, <1>6, <1>7, StepKinds

\* The variables keep their types; every reply that waits has one asker.
THEOREM TypeCorrect == Spec => []TypeOK
<1>1. HeldInv /\ PlaceInv /\ FromInv /\ RestInv => TypeOK
  <2> SUFFICES ASSUME HeldInv, PlaceInv, FromInv, RestInv PROVE TypeOK
    OBVIOUS
  <2>1. Len(Rows[row].prep) \in Nat /\ Len(Rows[row].probe) \in Nat
    BY RowTypes DEF PlaceInv
  <2>2. at \in Nat /\ at # 0
        /\ (at <= Len(Rows[row].prep) + 1 \/ at <= Len(Rows[row].probe) + 1 \/ at = 1)
    BY DEF PlaceInv
  <2>3. \A a, p, q \in Nat : a # 0 /\ (a <= p + 1 \/ a <= q + 1 \/ a = 1)
                            => a \in 1..(p + q + 1)
    OBVIOUS
  <2>4. at \in 1..(Len(Rows[row].prep) + Len(Rows[row].probe) + 1)
    BY <2>1, <2>2, <2>3, Zenon
  <2> QED
    BY <2>4 DEF HeldInv, PlaceInv, FromInv, RestInv, TypeOK, Askers, ReportSet
<1> QED
  BY <1>1, HeldInit, HeldStep, PlaceInit, PlaceStep, FromInit, FromStep, RestInit, RestStep,
     PTL DEF Spec

-----------------------------------------------------------------------------
(* Who holds the reset line.                                               *)

HoldInv ==
  owner = "script" =>
    \/ HeldOver(row)
    \/ phase = "prep" /\ \E i \in DOMAIN Rows[row].prep : i < at /\ Rows[row].prep[i] \in Takes
    \/ phase # "prep" /\ TakesLine(Rows[row])

\* The line is taken in a preparation only.
LEMMA TakesInPrep ==
  ASSUME PlaceInv, NEW high \in BOOLEAN, Take(high)
  PROVE  /\ phase = "prep" /\ at \in DOMAIN Rows[row].prep /\ Rows[row].prep[at] \in Takes
         /\ at' = at + 1 /\ UNCHANGED <<row, phase>>
<1>1. RowStep
  BY DEF RowStep
<1>2. Steps[at] \in Takes /\ at' = at + 1 /\ UNCHANGED <<row, phase>>
  BY DEF Take, Do, Takes
<1>3. phase # "probe"
  BY <1>1, <1>2, StepIsOfRow, TakesAssumption DEF PlaceInv
<1> QED BY <1>1, <1>2, <1>3, StepIsOfRow, RowStepDoes

LEMMA HoldStep == PlaceInv /\ HoldInv /\ [Next]_vars => HoldInv'
<1> SUFFICES ASSUME PlaceInv, HoldInv, [Next]_vars, owner' = "script"
             PROVE  \/ HeldOver(row')
                    \/ phase' = "prep" /\ \E i \in DOMAIN Rows[row'].prep :
                                            i < at' /\ Rows[row'].prep[i] \in Takes
                    \/ phase' # "prep" /\ TakesLine(Rows[row'])
  BY DEF HoldInv
<1>0. at \in Nat /\ row \in DOMAIN Rows
  BY DEF PlaceInv
<1>a. Len(Rows[row].prep) \in Nat /\ DOMAIN Rows[row].prep = 1..Len(Rows[row].prep)
  BY <1>0, RowTypes
<1>1. CASE RowStep
  <2>1. at' = at + 1 /\ UNCHANGED <<row, phase>>
    BY <1>1, RowStepDoes
  <2>2. CASE \E high \in BOOLEAN : Take(high)
    <3>1. phase = "prep" /\ at \in DOMAIN Rows[row].prep /\ Rows[row].prep[at] \in Takes
      BY <2>2, TakesInPrep
    <3>2. at < at'
      BY <1>0, <2>1
    <3> QED BY <2>1, <3>1, <3>2
  <2>3. CASE ~\E high \in BOOLEAN : Take(high)
    <3>1. owner = "script"
      BY <1>1, <2>3 DEF RowStep, SetLine, Drop, Sleep, Unbind, Bind, Suspend, Open, SendHdr,
           SendBody, Read, Window, Peek, PeekFails, Glance, Watch, Pulse
    <3>2. CASE \E i \in DOMAIN Rows[row].prep : i < at /\ Rows[row].prep[i] \in Takes
      <4>1. PICK i \in DOMAIN Rows[row].prep : i < at /\ Rows[row].prep[i] \in Takes
        BY <3>2
      <4>2. i < at'
        BY <1>0, <1>a, <2>1, <4>1
      <4> QED BY <2>1, <4>1, <4>2 DEF TakesLine
    <3> QED BY <2>1, <3>1, <3>2 DEF HoldInv
  <2> QED BY <2>2, <2>3
<1>2. CASE Exit \/ Begin \/ Reject \/ Raise \/ Report
  <2>1. owner = "script" /\ row' = row /\ phase' # "prep"
    BY <1>2 DEF Exit, Begin, Reject, Raise, Report
  <2> QED BY <2>1 DEF HoldInv, TakesLine
<1>3. CASE Release
  <2>1. /\ owner = "script" /\ ~ScriptEnds /\ Rows[row].keep
    BY <1>3 DEF Release, Owner
  <2>2. row' = row + 1 /\ ~Rows[row].last /\ phase # "prep"
    BY <1>3, <2>1 DEF Release, Onward, ScriptEnds
  <2>3. PICK j \in DOMAIN Rows :
          /\ j <= row /\ TakesLine(Rows[j])
          /\ \A i \in DOMAIN Rows : j <= i /\ i < row => Rows[i].keep /\ ~Rows[i].last
    <3>1. CASE HeldOver(row)
      <4>1. PICK k \in DOMAIN Rows :
              /\ k < row /\ TakesLine(Rows[k])
              /\ \A i \in DOMAIN Rows : k <= i /\ i < row => Rows[i].keep /\ ~Rows[i].last
        BY <3>1 DEF HeldOver
      <4>2. k <= row
        BY <1>0, <4>1, RowTypes
      <4> QED BY <4>1, <4>2
    <3>2. CASE TakesLine(Rows[row])
      BY <1>0, <3>2, RowTypes
    <3>3. HeldOver(row) \/ TakesLine(Rows[row])
      BY <2>1, <2>2 DEF HoldInv
    <3> QED BY <3>1, <3>2, <3>3
  <2>4. HeldOver(row + 1)
    <3>1. j < row + 1
      BY <1>0, <2>3, RowTypes
    <3>2. ASSUME NEW i \in DOMAIN Rows, j <= i, i < row + 1
          PROVE  Rows[i].keep /\ ~Rows[i].last
      <4>1. i \in Nat /\ row \in Nat
        BY <1>0, <3>2, RowTypes
      <4>2. i < row \/ i = row
        BY <3>2, <4>1
      <4> QED BY <2>1, <2>2, <2>3, <3>2, <4>2
    <3> QED BY <2>3, <3>1, <3>2 DEF HeldOver
  <2> QED BY <2>2, <2>4
<1>4. CASE Sensor \/ UNCHANGED vars
  BY <1>4 DEF Sensor, vars, toolVars, HoldInv
<1> QED BY <1>1, <1>2, <1>3, <1>4, StepKinds

\* An object is lost with a preparation that fails.
LostInv == owner = "lost" => failed

LEMMA LostStep == LostInv /\ [Next]_vars => LostInv'
<1> SUFFICES ASSUME LostInv, [Next]_vars, owner' = "lost" PROVE failed'
  BY DEF LostInv
<1>1. CASE RowStep
  <2>1. owner = "lost"
    BY <1>1 DEF RowStep, SetLine, Take, Drop, Sleep, Unbind, Bind, Suspend, Open, SendHdr,
         SendBody, Read, Window, Peek, PeekFails, Glance, Watch, Pulse
  <2> QED BY <1>1, <2>1, RowStepDoes DEF LostInv
<1>2. CASE Raise
  BY <1>2 DEF Raise, CutShort, LostInv
<1>3. CASE Exit \/ Begin \/ Reject \/ Report
  BY <1>3 DEF Exit, Begin, Reject, CutShort, Report, LostInv
<1>4. CASE Release
  BY <1>4 DEF Release, Owner, LostInv
<1>5. CASE Sensor \/ UNCHANGED vars
  BY <1>5 DEF Sensor, vars, toolVars, LostInv
<1> QED BY <1>1, <1>2, <1>3, <1>4, <1>5, StepKinds

\* A row that takes the reset line finds no object of its own script on it, unless one
\* was lost with a preparation that failed.
THEOREM LineIsFree == Spec => []LineFree
<1>1. Init => PlaceInv /\ HeldInv /\ FromInv /\ RestInv /\ HoldInv /\ LostInv
  BY PlaceInit, HeldInit, FromInit, RestInit DEF Init, HoldInv, LostInv
<1>2. PlaceInv /\ HoldInv /\ LostInv /\ [Next]_vars => (PlaceInv /\ HoldInv /\ LostInv)'
  BY PlaceStep, HoldStep, LostStep
<1>3. PlaceInv /\ RestInv /\ HoldInv /\ LostInv => LineFree
  <2> SUFFICES ASSUME PlaceInv, RestInv, HoldInv, LostInv, phase = "prep", at <= Len(Steps),
                      Steps[at] \in Takes, owner = "script"
               PROVE  FALSE
    BY DEF LineFree, LostInv, RestInv, Takes
  <2>1. at \in DOMAIN Rows[row].prep /\ Rows[row].prep[at] \in Takes /\ row \in DOMAIN Rows
    BY RowTypes DEF PlaceInv, Steps
  <2>2. PICK i \in DOMAIN Rows[row].prep : i < at /\ Rows[row].prep[i] \in Takes
    BY <2>1, TakesAssumption DEF HoldInv, TakesLine
  <2>3. i = at
    BY <2>1, <2>2, TakesAssumption
  <2> QED BY <2>1, <2>2, <2>3, RowTypes
<1> QED
  BY <1>1, <1>2, <1>3, HeldStep, FromStep, RestStep, PTL DEF Spec

=============================================================================
