------------------------------ MODULE ToolBench ------------------------------
(***************************************************************************)
(* The userspace tools against the sensor: one script after another, in    *)
(* any order, each running its table of rows (ToolTables).  A row prepares *)
(* the reset line, opens spidev, exchanges frames, and reports.            *)
(*                                                                         *)
(* The actions run a row's steps as Python does: a step that raises ends   *)
(* the row, and ends the script too if nothing catches the exception.      *)
(***************************************************************************)
EXTENDS MilanSensor, Sequences, ToolTables

CONSTANT
  MayRaise   \* which calls may raise OSError: "spi" (open, ioctl, transfer), "take"
             \* (request the line, which somebody else may hold), "line" (drive it)

VARIABLES
  needsCsHigh,  \* whether the sensor hears spidev only with SPI_CS_HIGH
  idle,     \* what the idle wire reads: "ff" or "00"
  inverted, \* whether the script runs under lowstate.py
  row,      \* the current row
  phase,    \* "prep", "probe", "release", "fail" (caught), "crash" (not)
  at,       \* the next step of the phase
  owner,    \* who holds the reset line: "none", the "script", or a "lost" descriptor
  node,     \* whether the spidev node exists
  failed,   \* history: a preparation of this script was cut short
  hit,      \* the row saw what it takes for an answer
  level,    \* the level of the interrupt line a script remembers
  report,   \* what a row that ran to its end reports
  asked,    \* history: the row that sent the last command heard, 0: an earlier script's
  from,     \* history: the rows that asked for the waiting replies, in order
  heard     \* history: the rows that asked for the replies this row read

wiring == <<needsCsHigh, idle>>
seen == <<hit, level, heard>>
toolVars == <<inverted, row, phase, at, owner, node, failed, report, seen>>
vars == <<sensorVars, wiring, toolVars, asked, from>>

-----------------------------------------------------------------------------
NoReport == [row |-> 1, hit |-> FALSE, level |-> FALSE, failed |-> FALSE, heard |-> {}]

Starts == {k \in DOMAIN Rows : k > 1 => Rows[k - 1].last}

\* A script starts, under the wrapper or by itself.
Start(k) ==
  /\ k \in Starts
  /\ row' = k
  /\ inverted' \in IF Rows[k].script \in OldSweeps THEN BOOLEAN ELSE {FALSE}

Init ==
  /\ \E line \in BOOLEAN : SensorInit(line)
  /\ needsCsHigh \in BOOLEAN /\ idle \in {"ff", "00"}
  /\ row \in Starts
  /\ inverted \in IF Rows[row].script \in OldSweeps THEN BOOLEAN ELSE {FALSE}
  /\ phase = "prep" /\ at = 1
  /\ owner = "none"
  /\ node \in BOOLEAN
  /\ failed = FALSE
  /\ hit = FALSE /\ level = FALSE /\ heard = {}
  /\ report = NoReport
  /\ asked = 0 /\ from = <<>>

Steps == IF phase = "prep" THEN Rows[row].prep ELSE Rows[row].probe

\* The next step is one of those named.
Do(names) ==
  /\ phase \in {"prep", "probe"}
  /\ at <= Len(Steps) /\ Steps[at] \in names
  /\ at' = at + 1
  /\ UNCHANGED <<row, phase, inverted, wiring, failed, report>>

\* A script is about to start without the spidev node it checks for.
Missing ==
  /\ phase = "prep" /\ at = 1 /\ row \in Starts
  /\ ~node /\ Rows[row].script \notin Heedless

\* It exits before it touches anything.
Exit ==
  /\ Missing
  /\ phase' = "crash" /\ at' = 1
  /\ UNCHANGED <<sensorVars, wiring, inverted, row, owner, node, failed, report, seen,
                 asked, from>>

\* The replies that wait keep their order; new ones are the last asker's.
Track ==
  from' = IF pending' = 0 THEN <<>>
          ELSE IF pending' < pending THEN Tail(from)
          ELSE from \o [k \in 1..(pending' - pending) |-> asked]

-----------------------------------------------------------------------------
(* The reset line and the machine.                                         *)

\* Mutant: the wrapper inverts the value the line is taken with, and only that.
SetPlain(high) ==
  /\ Do({IF high THEN "set1" ELSE "set0"})
  /\ DriveReset(high)
  /\ Track
  /\ UNCHANGED <<owner, node, seen, asked>>

\* Mutant: a set that fails is ignored.
SetUnchecked(high) ==
  /\ Do({IF high THEN "set1" ELSE "set0"})
  /\ DriveReset(high # inverted) \/ ("line" \in MayRaise /\ UNCHANGED sensorVars)
  /\ Track
  /\ UNCHANGED <<owner, node, seen, asked>>

\* GpioLine.set; the wrapper of lowstate.py swaps the two levels.
SetLine(high) ==
  /\ Do({IF high THEN "set1" ELSE "set0"})
  /\ DriveReset(high # inverted)
  /\ Track
  /\ UNCHANGED <<owner, node, seen, asked>>

\* Mutant: the line is taken as it is, not driven.
TakeAsIs(high) ==
  /\ Do({step \in {"take1", "takeirq"} : high = (step = "take1" \/ IrqHigh)})
  /\ owner = "none"
  /\ owner' = "script"
  /\ UNCHANGED <<sensorVars, node, seen, asked, from>>

\* GpioLine(..., output=True, value=1); sigfrodr_exact.py takes the line at the
\* level it finds the interrupt line at.
Take(high) ==
  /\ Do({step \in {"take1", "takeirq"} : high = (step = "take1" \/ IrqHigh)})
  /\ owner = "none"
  /\ owner' = "script"
  /\ DriveReset(high # inverted)
  /\ Track
  /\ UNCHANGED <<node, seen, asked>>

\* The line is left as it was driven.
Drop ==
  /\ Do({"drop"})
  /\ owner' = "none"
  /\ UNCHANGED <<sensorVars, node, seen, asked, from>>

\* Mutant: a long sleep is as short as the others.
SleepBriefly ==
  /\ Do({"nap", "settle"})
  /\ UNCHANGED <<sensorVars, owner, node, seen, asked, from>>

Sleep ==
  /\ Do({"nap"} \cup IF mcu # "booting" THEN {"settle"} ELSE {})
  /\ UNCHANGED <<sensorVars, owner, node, seen, asked, from>>

\* A write to the driver's bind and unbind files that fails is reported and ignored.
Unbind ==
  /\ Do({"unbind"})
  /\ node' \in {node, FALSE}
  /\ UNCHANGED <<sensorVars, owner, seen, asked, from>>

Bind ==
  /\ Do({"bind"})
  /\ node' \in {node, TRUE}
  /\ UNCHANGED <<sensorVars, owner, seen, asked, from>>

\* The machine sleeps: the pads may come back at either level, and the sensor may have
\* lost power and boots again.
Suspend ==
  /\ Do({"suspend"})
  /\ \/ \E high \in BOOLEAN : DriveReset(high)
     \/ /\ reset' = FALSE /\ mcu' = "booting"
        /\ todo' = FALSE /\ pending' = 0
  /\ Track
  /\ UNCHANGED <<owner, node, seen, asked>>

-----------------------------------------------------------------------------
(* spidev and the interrupt line.                                          *)

\* The preparation is done.
Begin ==
  /\ phase = "prep" /\ at > Len(Steps)
  /\ phase' = "probe" /\ at' = 1
  /\ UNCHANGED <<sensorVars, wiring, inverted, row, owner, node, failed, report, seen,
                 asked, from>>

Open ==
  /\ Do({"open", "check", "verify"})
  /\ node
  /\ UNCHANGED <<sensorVars, owner, node, seen, asked, from>>

CutShort == failed' = (failed \/ phase = "prep")

\* The driver rejects the mode or the word size, or sets another mode, and the row is
\* skipped.
Reject ==
  /\ phase \in {"prep", "probe"}
  /\ at <= Len(Steps) /\ Steps[at] \in {"check", "verify"} /\ node
  /\ phase' = "fail" /\ at' = 1
  /\ CutShort
  /\ UNCHANGED <<sensorVars, wiring, inverted, row, owner, node, report, seen, asked, from>>

\* The sensor takes part in a transfer if the chip select suits it.
Hears == Rows[row].csHigh \/ ~needsCsHigh

SendHdr ==
  /\ Do({"hdr", "junk"})
  /\ IF Hears THEN Clocked ELSE UNCHANGED sensorVars
  /\ Track
  /\ UNCHANGED <<owner, node, seen, asked>>

SendBody ==
  /\ Do({"body"})
  /\ IF Hears THEN HearCommand ELSE UNCHANGED sensorVars
  /\ Track
  /\ asked' = IF Hears /\ mcu = "up" THEN row ELSE asked
  /\ UNCHANGED <<owner, node, seen>>

Waiting == Hears /\ pending > 0

\* A waiting reply is read, and counts as an answer.
Get ==
  /\ Waiting
  /\ GiveFrame
  /\ hit' = TRUE
  /\ heard' = heard \cup {Head(from)}

Nothing == UNCHANGED <<sensorVars, hit, heard>>

\* A selected sensor out of reset may put any bytes on the wire, asked or not, and with
\* luck they even pass for a frame.
Noise ==
  /\ Hears /\ mcu # "held"
  /\ Clocked
  /\ hit' = TRUE
  /\ UNCHANGED heard

\* Mutant: a header of zeros, which passes its checksum, leads to an empty body.
ReadEmpty ==
  /\ Do({"read"})
  /\ Get \/ Noise \/ (UNCHANGED <<sensorVars, heard>> /\ hit' = TRUE)
  /\ Track
  /\ UNCHANGED <<owner, node, level, asked>>

\* A reply is read whole, or one is spoiled, or the wire is idle; the wait for the
\* interrupt before it, where there is one, decides nothing.
Read ==
  /\ Do({"read"})
  /\ \/ Get \/ Noise
     \/ Hears /\ Clocked /\ UNCHANGED <<hit, heard>>
     \/ Nothing
  /\ Track
  /\ UNCHANGED <<owner, node, level, asked>>

\* Mutant: the detector counts the bytes of a wire held low.
WindowZeros ==
  /\ Do({"window"})
  /\ Get \/ Noise \/ (~Waiting /\ hit' = TRUE /\ UNCHANGED <<sensorVars, heard>>)
  /\ Track
  /\ UNCHANGED <<owner, node, level, asked>>

\* One long read in which any byte but 00 and ff counts.
Window ==
  /\ Do({"window"})
  /\ Get \/ Noise \/ (~Waiting /\ Nothing)
  /\ Track
  /\ UNCHANGED <<owner, node, level, asked>>

\* Four bytes of a waiting reply: the rest of it may be left for the next read.
GetPart ==
  /\ Waiting
  /\ Clocked
  /\ hit' = TRUE
  /\ heard' = heard \cup {Head(from)}

\* A short read in which any byte but ff counts, so an idle wire may.
Peek ==
  /\ Do({"peek", "trypeek"})
  /\ \/ GetPart \/ Noise
     \/ /\ ~Waiting
        /\ hit' = (hit \/ idle # "ff")
        /\ UNCHANGED <<sensorVars, heard>>
  /\ Track
  /\ UNCHANGED <<owner, node, level, asked>>

\* touchwatch.py goes on without spidev, or after a read that failed.
PeekFails ==
  /\ Do({"trypeek"})
  /\ ~node \/ "spi" \in MayRaise
  /\ UNCHANGED <<sensorVars, owner, node, seen, asked, from>>

\* The level of the interrupt line is remembered, and a later one compared with it.
Glance ==
  /\ Do({"glance"})
  /\ level' = IrqHigh
  /\ UNCHANGED <<sensorVars, owner, node, hit, heard, asked, from>>

Watch ==
  /\ Do({"watch"})
  /\ hit' = (hit \/ level # IrqHigh)
  /\ level' = IrqHigh
  /\ UNCHANGED <<sensorVars, owner, node, heard, asked, from>>

\* The interrupt line is polled: a high level counts as an answer.
Pulse ==
  /\ Do({"pulse"})
  /\ hit' = (hit \/ IrqHigh)
  /\ heard' = heard \cup IF pending > 0 THEN {Head(from)} ELSE {}
  /\ UNCHANGED <<sensorVars, owner, node, level, asked, from>>

-----------------------------------------------------------------------------
(* The end of a row.                                                       *)

Risky ==
  LET step == Steps[at]
  IN  \/ step \in {"take1", "takeirq"} /\ (owner # "none" \/ "take" \in MayRaise)
      \/ step \in {"set0", "set1"} /\ "line" \in MayRaise
      \/ step \in {"open", "check", "verify"} /\ ~node
      \/ step \in {"open", "check", "verify", "hdr", "junk", "body", "read", "window", "peek"}
           /\ "spi" \in MayRaise

\* A step raises: the line is busy, because this script or somebody else still holds
\* it, or a call fails.  The object that holds the line is lost with the preparation's
\* frame, its descriptors are not.
Raise ==
  /\ phase \in {"prep", "probe"} /\ at <= Len(Steps) /\ Risky
  /\ LET where == IF Steps[at] \in {"open", "check", "verify"} THEN Steps[at] ELSE phase
     IN  phase' = IF where \in Rows[row].caught THEN "fail" ELSE "crash"
  /\ at' = 1
  /\ owner' = IF phase = "prep" /\ owner = "script" THEN "lost" ELSE owner
  /\ CutShort
  /\ UNCHANGED <<sensorVars, wiring, inverted, row, node, report, seen, asked, from>>

Report ==
  /\ phase = "probe" /\ at > Len(Steps)
  /\ report' = [row |-> row, hit |-> hit, level |-> level, failed |-> failed, heard |-> heard]
  /\ phase' = "release" /\ at' = 1
  /\ UNCHANGED <<sensorVars, wiring, inverted, row, owner, node, failed, seen, asked, from>>

ScriptEnds == Rows[row].last \/ phase = "crash"

\* Mutant: the held line is not closed after the row.
OwnerStill == IF ScriptEnds THEN "none" ELSE owner

\* The row's "finally" closes the line it holds; a script that ends, after its
\* last row or by an exception nobody catches, loses every descriptor.
Owner ==
  IF ScriptEnds THEN "none"
  ELSE IF owner = "script" /\ ~Rows[row].keep THEN "none" ELSE owner

\* Mutant: one row too many.
OnwardPastEnd == row' = row + 1 /\ UNCHANGED <<inverted, asked, from>>

\* The script's next row, or another script, to whom all replies are old.
Onward ==
  IF ScriptEnds
  THEN /\ \E k \in DOMAIN Rows : Start(k)
       /\ asked' = 0
       /\ from' = [k \in DOMAIN from |-> 0]
  ELSE row' = row + 1 /\ UNCHANGED <<inverted, asked, from>>

Release ==
  /\ phase \in {"release", "fail", "crash"}
  /\ owner' = Owner
  /\ Onward
  /\ failed' = (failed /\ ~ScriptEnds)
  /\ phase' = "prep" /\ at' = 1
  /\ hit' = FALSE /\ level' = FALSE /\ heard' = {}
  /\ report' = NoReport
  /\ UNCHANGED <<sensorVars, wiring, node>>

Sensor ==
  /\ Boot \/ Answer
  /\ Track
  /\ UNCHANGED <<wiring, toolVars, asked>>

Line == Drop \/ Sleep \/ \E high \in BOOLEAN : SetLine(high) \/ Take(high)

Exchange ==
  \/ Open \/ Reject \/ SendHdr \/ SendBody \/ Read \/ Window
  \/ Peek \/ PeekFails \/ Glance \/ Watch \/ Pulse

Run == ~Missing /\ (Line \/ Unbind \/ Bind \/ Suspend \/ Begin \/ Exchange \/ Raise)

Next == Exit \/ Run \/ Report \/ Release \/ Sensor

Spec == Init /\ [][Next]_vars

-----------------------------------------------------------------------------
(* Properties.                                                             *)

TypeOK ==
  /\ SensorTypeOK
  /\ needsCsHigh \in BOOLEAN /\ idle \in {"ff", "00"} /\ inverted \in BOOLEAN
  /\ row \in DOMAIN Rows
  /\ phase \in {"prep", "probe", "release", "fail", "crash"}
  /\ at \in 1..(Len(Rows[row].prep) + Len(Rows[row].probe) + 1)
  /\ owner \in {"none", "script", "lost"}
  /\ node \in BOOLEAN /\ hit \in BOOLEAN /\ level \in BOOLEAN
  /\ failed \in BOOLEAN
  /\ report \in [row : DOMAIN Rows, hit : BOOLEAN, level : BOOLEAN, failed : BOOLEAN,
                 heard : SUBSET (0..Len(Rows))]
  /\ asked \in 0..Len(Rows)
  /\ from \in Seq(0..Len(Rows)) /\ Len(from) = pending
  /\ heard \subseteq 0..Len(Rows)

\* A row of one of these scripts reports an answer.
Win(scripts) ==
  LET r == Rows[report.row]
  IN  report.hit /\ r.script \in scripts /\ r.name # "control"

\* The first command of a row is about to go out.
Starting == phase = "probe" /\ at = 2 /\ Steps[1] = "open"

\* A row is about to send.
Sending == phase = "probe" /\ at <= Len(Steps) /\ Steps[at] \in {"hdr", "body", "junk"}

\* A row that reports an answer had the two conditions that matter: the chip select
\* that suits the sensor, and the reset released.  A wait that timed out, an idle wire
\* or zeros that pass for a header never count, nor does the interrupt line of a sensor
\* in reset.  The scripts that count zeros are right if the wire idles at ones.
WinsHonest ==
  \/ Win(Readers)
  \/ Win(LowScripts \cup {"sigfrodr"}) /\ idle = "ff"
  => /\ Rows[report.row].csHigh \/ ~needsCsHigh
     /\ mcu # "held"

\* Where every row resets the sensor, the replies a row counts answer that row's
\* own commands, not those of a row before it: no late reply is credited to
\* another reset shape.  The rows that reset nothing are excused in a script in which
\* a preparation before them failed.
WinsOwn ==
  Win({"refseq", "recover", "wider", "cshigh"}) =>
    \/ report.heard \subseteq {report.row}
    \/ report.failed /\ Found(Rows[report.row])

\* A sweep may credit a late reply to a later row, but a reply to what an earlier
\* script sent never reaches it.
SweepsOwn ==
  Win({"framing", "brute", "dialects"} \cup LowScripts) => 0 \notin report.heard

\* A row run with the line HIGH, as every legacy pulse leaves it, reports nothing
\* the sensor said: its silence says nothing about the sensor.  It takes the wrapper
\* for such a row to hear anything, or, for a row that uses the line as it finds it,
\* a preparation before it that failed half way.
HighSilent ==
  LET r == Rows[report.row]
  IN  /\ \/ r.script \in {"recover", "touch"}
         \/ r.script = "refseq" /\ r.name \in {"release-only", "legacy", "baseline"}
         \/ r.script = "suspend" /\ r.name \in {"powered", "powered again", "reset"}
         \/ r.script \in OldSweeps /\ ~inverted
      /\ idle = "ff" /\ (report.failed => ~Found(r))
      => ~report.hit

\* A row that takes the reset line finds no object of its own script on it, unless one
\* was lost with a preparation that failed.
LineFree ==
  phase = "prep" /\ at <= Len(Steps) /\ Steps[at] \in {"take1", "takeirq"} =>
    owner = "none" \/ (owner = "lost" /\ failed)

\* "Each case started from its own reset": no reply and no command of an earlier
\* case is left, and the sensor runs exactly in the cases that release the reset.
CaseFresh ==
  Starting /\ Rows[row].script = "cshigh" =>
    /\ pending = 0 /\ ~todo
    /\ mcu = IF Rows[row].name = "C" THEN "held" ELSE "up"

\* Its table of controls: if the sensor needs SPI_CS_HIGH, only the cases with it and
\* the reset released see anything but an idle wire, and only those that also send
\* commands read a reply.
ControlsTable ==
  needsCsHigh /\ phase = "release" /\ Rows[report.row].script = "cshigh" =>
    /\ report.hit => Rows[report.row].name \in {"A", "D", "E"}
    /\ report.heard # {} => Rows[report.row].name \in {"A", "E"}

\* The sensor runs where a script says so: under the wrapper, whose inverted reset
\* pulses end LOW, it is booted whenever a row sends; and a script that keeps the line
\* LOW, or runs under the wrapper, leaves it running.  The control of the former has
\* seen the interrupt line high and leaves it low.
LeftRunning ==
  LET r == Rows[row]
  IN  /\ Sending /\ inverted => mcu = "up"
      /\ phase = "release" /\ r.last /\ (inverted \/ r.name \in {"control", "left"}) =>
           /\ mcu = "up"
           /\ ~inverted => ~IrqHigh
           /\ r.name = "control" => report.hit

\* sigfrodr_exact.py takes a high interrupt line for the proof that the sensor has
\* power, and calls a row without it INVALID.  In fact the row's control passes when
\* the sensor is held in reset; when it runs, after a power cycle, the control fails
\* and an answer it gives is called INVALID.
ControlMeansHeld ==
  LET r == Rows[report.row]
  IN  phase = "release" /\ r.script = "sigfrodr" =>
        /\ r.name \in {"no reset", "cycle"} /\ reset => report.level
        /\ r.name = "cycle" /\ report.level => reset

=============================================================================
