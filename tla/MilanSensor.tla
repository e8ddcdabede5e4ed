---------------------------- MODULE MilanSensor ----------------------------
(***************************************************************************)
(* The Goodix Milan-SPI sensor as the host sees it: a reset line, an       *)
(* interrupt line that is high while a reply waits, and replies that are   *)
(* clocked out over SPI.  The part is external to the repository; what is  *)
(* modelled is what gxfp.c and the tools rely on, as measured in           *)
(* docs/FIRST-CONTACT.md.                                                  *)
(***************************************************************************)
EXTENDS Integers

CONSTANT MaxPending    \* bound: reply frames the sensor holds at once

ASSUME MaxPendingAssumption == MaxPending \in Nat \ {0}

VARIABLES
  reset,     \* level of the enable/reset line; TRUE (HIGH) holds the MCU in reset
  mcu,       \* "held" in reset, "booting" (about 90 ms), "up"
  todo,      \* a complete command has arrived and is not answered yet
  pending    \* reply frames waiting to be read

sensorVars == <<reset, mcu, todo, pending>>

SensorTypeOK ==
  /\ reset \in BOOLEAN
  /\ mcu \in {"held", "booting", "up"}
  /\ todo \in BOOLEAN
  /\ pending \in 0..MaxPending

\* Undriven (in reset, or not booted yet) the line reads high; running firmware
\* drives it low and raises it for a reply.
IrqHigh == mcu # "up" \/ pending > 0

SensorInit(level) ==
  /\ reset = level
  /\ mcu \in IF level THEN {"held"} ELSE {"booting", "up"}
  /\ todo = FALSE
  /\ pending = 0

\* The host drives the reset line: HIGH discards all state of the MCU.
DriveReset(level) ==
  /\ reset' = level
  /\ mcu' = IF level THEN "held" ELSE IF mcu = "held" THEN "booting" ELSE mcu
  /\ todo' = (todo /\ ~level)
  /\ pending' = IF level THEN 0 ELSE pending

Boot ==
  /\ mcu = "booting"
  /\ mcu' = "up"
  /\ UNCHANGED <<reset, todo, pending>>

\* A command is answered with an ACK, or an ACK and a reply; a sensor that does
\* not answer (wrong chip-select polarity, gated command) takes no such step.
Answer ==
  /\ mcu = "up" /\ todo
  /\ \E frames \in 1..2 :
       /\ pending + frames <= MaxPending
       /\ pending' = pending + frames
  /\ todo' = FALSE
  /\ UNCHANGED <<reset, mcu>>

FrameTaken == IF pending > 0 THEN pending - 1 ELSE 0

\* SPI is full duplex: whatever the host clocks may clock a waiting reply out.
Clocked ==
  /\ pending' \in {pending, FrameTaken}
  /\ UNCHANGED <<reset, mcu, todo>>

\* The last write of a command, which the MCU takes up if it runs.
HearCommand ==
  /\ pending' \in {pending, FrameTaken}
  /\ todo' = (todo \/ mcu = "up")
  /\ UNCHANGED <<reset, mcu>>

\* The host reads a waiting frame, or idle bytes.
GiveFrame ==
  /\ pending' = FrameTaken
  /\ UNCHANGED <<reset, mcu, todo>>

=============================================================================
