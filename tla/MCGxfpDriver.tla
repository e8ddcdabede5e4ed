---------------------------- MODULE MCGxfpDriver ----------------------------
(***************************************************************************)
(* Instances of GxfpDriver for TLC: which knobs each thread uses in which  *)
(* run.                                                                    *)
(***************************************************************************)
EXTENDS GxfpDriver, TLC

CONSTANTS t1, t2

\* Commands and raw transfers against a reader that also drives the reset line, by both
\* of its knobs; one raw writer.
OpsLocked == (t1 :> {"cmd", "raw"}) @@ (t2 :> {"cmd", "rawread", "enable", "reset"})

\* Every knob that waits for the interrupt, the bus or the SPI core; the raw reader, who
\* waits for the mutex only, and the two knobs that drive the line are in OpsLocked.
OpsWaiting == (t1 :> {"cmd"}) @@ (t2 :> {"replay", "raw", "padprobe"})

OpsReset == (t1 :> {"reset"}) @@ (t2 :> {})

OpsCmd == (t1 :> {"cmd"}) @@ (t2 :> {})

OpsRawTwice == (t1 :> {"raw"}) @@ (t2 :> {"raw"})

=============================================================================
