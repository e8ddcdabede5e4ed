---------------------------- MODULE DriverBinding ----------------------------
(***************************************************************************)
(* Who has the sensor: gxfp (kernel/gxfp.c) or spidev, and the script that *)
(* hands it over (tools/bind-spidev.sh), run again and again while users   *)
(* load, unload, bind and unbind the drivers and use the debugfs files.    *)
(*                                                                         *)
(* The script runs under set -e: a command that fails ends it, in the      *)
(* place "failed".  What the SPI core does with driver_override, bind and  *)
(* rmmod is external.  The power settings are left out but for the exit    *)
(* they can cause.                                                         *)
(***************************************************************************)
EXTENDS GxfpLifecycle

VARIABLES
  node,       \* the node spidev gives the sensor: "spidev1.0" or another
  flash,      \* on the other board: /dev/spidev1.0 is there, for the BIOS flash
  override,   \* the device's driver_override
  loaded,     \* modules that are loaded
  leaving,    \* whose rmmod gxfp is under way
  script,     \* where bind-spidev.sh is
  alone       \* history: nobody else changed drivers since it started

vars == <<gxfpVars, node, flash, override, loaded, leaving, script, alone>>

Ended    == {"ready", "failed"}
AtScript == {"lsmod", "rmmod", "unloading", "modprobe", "test", "override",
             "bind", "power", "list"} \cup Ended

TypeOK ==
  /\ GxfpTypeOK
  /\ node \in {"spidev1.0", "other"}
  /\ flash \in BOOLEAN
  /\ override \in {"none", "spidev"}
  /\ loaded \in SUBSET {"gxfp", "spidev"}
  /\ leaving \in {"nobody", "user", "script"}
  /\ script \in AtScript
  /\ alone \in BOOLEAN

Init ==
  /\ GxfpInit
  /\ node \in {"spidev1.0", "other"}
  /\ flash \in BOOLEAN /\ (node = "spidev1.0" => ~flash)
  /\ override = "none"
  /\ loaded = {}
  /\ leaving = "nobody"
  /\ script = "failed"    \* it has not run yet
  /\ alone = FALSE

-----------------------------------------------------------------------------
(* The device model, and what users do with it.                            *)

\* Mutant: a driver takes a device another one has.
MatchesTaken(d) == override \in {"none", d}

\* A driver takes a device that no driver has and that is not kept for another.
Matches(d) == driver = "none" /\ override \in {"none", d}

Insmod ==
  /\ "gxfp" \notin loaded
  /\ loaded' = loaded \cup {"gxfp"}
  /\ IF Matches("gxfp")
     THEN driver' = "gxfp" /\ life' = "alloc"
     ELSE UNCHANGED <<driver, life>>
  /\ UNCHANGED <<layout, touch, alive, enable, irqGpio, irq, files, isr, callVars, line,
                 node, flash, override, leaving, script>>
  /\ alone' = FALSE

\* A module that is loading, leaving already or held by an open file stays.
MayLeave ==
  /\ "gxfp" \in loaded /\ leaving = "nobody"
  /\ life \notin Probing
  /\ \A t \in Thread : open[t] = "none"

UserRmmod ==
  /\ MayLeave
  /\ leaving' = "user"
  /\ UNCHANGED <<gxfpVars, node, flash, override, loaded, script>>
  /\ alone' = FALSE

\* The module's exit removes the driver from its device.
Exit ==
  /\ leaving # "nobody"
  /\ \/ /\ StartRemove
        /\ UNCHANGED <<driver, loaded, leaving>>
     \/ /\ life = "none"
        /\ leaving' = "nobody"
        /\ loaded' = loaded \ {"gxfp"}
        /\ UNCHANGED <<driver, life>>
  /\ UNCHANGED <<layout, touch, alive, enable, irqGpio, irq, files, isr, callVars, line,
                 node, flash, override, script, alone>>

\* Through sysfs, open files or not; recover_probe.py does so with spidev.
Unbind ==
  /\ \/ StartRemove /\ UNCHANGED driver
     \/ driver = "spidev" /\ driver' = "none" /\ UNCHANGED life
  /\ UNCHANGED <<layout, touch, alive, enable, irqGpio, irq, files, isr, callVars, line,
                 node, flash, override, loaded, leaving, script>>
  /\ alone' = FALSE

\* The quick start of README.md, and bind() of recover_probe.py: the override, and a
\* write to bind that takes effect or fails.
UserOverride ==
  /\ override' = "spidev"
  /\ UNCHANGED <<gxfpVars, node, flash, loaded, leaving, script>>
  /\ alone' = FALSE

UserModprobe ==
  /\ loaded' = loaded \cup {"spidev"}
  /\ UNCHANGED <<gxfpVars, node, flash, override, leaving, script>>
  /\ alone' = FALSE

UserBind ==
  /\ "spidev" \in loaded /\ life \in {"none", "up"}
  /\ Matches("spidev")
  /\ driver' = "spidev"
  /\ UNCHANGED <<layout, touch, life, alive, enable, irqGpio, irq, files, isr, callVars, line,
                 node, flash, override, loaded, leaving, script>>
  /\ alone' = FALSE

-----------------------------------------------------------------------------
(* bind-spidev.sh.                                                         *)

Step(from, to) == script = from /\ script' = to

\* Mutant: the test looks for the node of the other board.
OtherNodeThere == driver = "spidev" /\ node = "other"

\* /dev/spidev1.0 is there: the sensor's node on one board, the flash's on another.
NodeThere == flash \/ (driver = "spidev" /\ node = "spidev1.0")

\* Without root, or without the device, it ends here.
Start ==
  /\ script \in Ended
  /\ script' \in {"lsmod", "failed"}
  /\ UNCHANGED <<gxfpVars, node, flash, override, loaded, leaving>>
  /\ alone' = TRUE

Lsmod ==
  /\ Step("lsmod", IF "gxfp" \in loaded THEN "rmmod" ELSE "modprobe")
  /\ UNCHANGED <<gxfpVars, node, flash, override, loaded, leaving, alone>>

Rmmod ==
  /\ \/ MayLeave /\ leaving' = "script" /\ Step("rmmod", "unloading")
     \/ ~MayLeave /\ UNCHANGED leaving /\ Step("rmmod", "failed")
  /\ UNCHANGED <<gxfpVars, node, flash, override, loaded, alone>>

\* Mutant: the script waits until the module is gone, also one loaded since.
UnloadedForGood ==
  /\ "gxfp" \notin loaded
  /\ Step("unloading", "modprobe")
  /\ UNCHANGED <<gxfpVars, node, flash, override, loaded, leaving, alone>>

Unloaded ==
  /\ leaving # "script"
  /\ Step("unloading", "modprobe")
  /\ UNCHANGED <<gxfpVars, node, flash, override, loaded, leaving, alone>>

Modprobe ==
  /\ \/ loaded' = loaded \cup {"spidev"} /\ Step("modprobe", "test")
     \/ UNCHANGED loaded /\ Step("modprobe", "failed")
  /\ UNCHANGED <<gxfpVars, node, flash, override, leaving, alone>>

TestNode ==
  /\ Step("test", IF NodeThere THEN "power" ELSE "override")
  /\ UNCHANGED <<gxfpVars, node, flash, override, loaded, leaving, alone>>

WriteOverride ==
  /\ Step("override", "bind")
  /\ override' = "spidev"
  /\ UNCHANGED <<gxfpVars, node, flash, loaded, leaving, alone>>

\* The write waits for a probe or removal under way; a bound device is busy.
WriteBind ==
  /\ life \in {"none", "up"}
  /\ IF Matches("spidev")
     THEN driver' = "spidev" /\ Step("bind", "power")
     ELSE UNCHANGED driver /\ Step("bind", "failed")
  /\ UNCHANGED <<layout, touch, life, alive, enable, irqGpio, irq, files, isr, callVars, line,
                 node, flash, override, loaded, leaving, alone>>

\* The controller at 1e.3 may be another one; that of the second file is forgiven.
Power ==
  /\ Step("power", "list") \/ Step("power", "failed")
  /\ UNCHANGED <<gxfpVars, node, flash, override, loaded, leaving, alone>>

List ==
  /\ Step("list", IF NodeThere THEN "ready" ELSE "failed")
  /\ UNCHANGED <<gxfpVars, node, flash, override, loaded, leaving, alone>>

Script == Lsmod \/ Rmmod \/ Unloaded \/ Modprobe \/ TestNode \/ WriteOverride
          \/ WriteBind \/ Power \/ List

-----------------------------------------------------------------------------
bindVars == <<node, flash, override, loaded, leaving, script, alone>>

Caller(t) == InCall(t) /\ UNCHANGED bindVars
Kernel    == (Live /\ UNCHANGED bindVars) \/ Exit
IsrStep   == (IsrStart \/ IsrDone) /\ UNCHANGED bindVars

Use(t) ==
  /\ \/ leaving = "nobody" /\ \E f \in Files : Open(t, f)
     \/ Close(t)
     \/ Call(t)
  /\ UNCHANGED bindVars

Next ==
  \/ Insmod \/ UserRmmod \/ Unbind \/ UserOverride \/ UserModprobe \/ UserBind
  \/ Start \/ Script
  \/ Kernel \/ IsrStep
  \/ \E t \in Thread : Use(t) \/ Caller(t)

Spec == Init /\ [][Next]_vars

\* The kernel goes on with a probe, a removal and a module's exit; a call and the
\* handler, once begun, run to their end (the sleeps of reset are finite), and so
\* does the script.  Users need not do anything, closing files included.
Fairness ==
  /\ WF_vars(Kernel)
  /\ WF_vars(Script)
  /\ WF_vars(IsrDone /\ UNCHANGED bindVars)
  /\ SF_vars(FreeIrq /\ UNCHANGED bindVars)
  /\ \A t \in Thread : WF_vars(Caller(t))

FairSpec == Spec /\ Fairness

-----------------------------------------------------------------------------
(* Properties.                                                             *)

\* A debugfs call and the interrupt handler use struct gxfp: it is there, and so
\* is the reset line, for as long as one of them runs, whatever unbinds the
\* device meanwhile (gxfp_remove removes the files before the release frees it).
InUseAlive ==
  /\ \A t \in Thread : at[t] # "user" => alive /\ enable # 0
  /\ isr => alive

\* gxfp_remove leaves the MCU out of reset: once it has driven the line LOW, no
\* reset call that was under way drives it HIGH again.
RemovedLow == life \in {"freeirq", "free"} /\ enable # 0 => ~line

\* When gxfp no longer has the device, after a removal or a probe that failed at
\* any step, nothing of it is left: no descriptor a tool would find taken
\* (bind-spidev.sh: "our own out-of-tree module would hold the GPIO
\* descriptors"), no handler, no file.
NothingLeft ==
  driver # "gxfp" => /\ enable = 0 /\ irqGpio = 0 /\ ~alive
                     /\ ~irq /\ ~isr /\ files = {}

\* On a machine whose resources are one interrupt line and one output, in either
\* order, the driver drives the output and reads the input.
GpiosRight ==
  {layout[1], layout[2]} = {"in", "out"} /\ enable # 0 =>
    layout[enable] = "out" /\ layout[irqGpio] = "in"

\* Whatever users did before, a run of the script during which nobody else changes
\* drivers finds the device free when it writes to bind: gxfp has been unloaded and
\* is gone, and spidev does not have it already (the write would fail and end the
\* run).  So it is on the board whose node is spidev1.0, for which the script tests.
BindsFree ==
  script = "bind" /\ alone /\ node = "spidev1.0" => driver = "none"

\* Removal ends while users keep files open: it waits for calls, not for files.
RemovalEnds == life = "closing" ~> life = "none"

\* Every run of the script ends, whatever the users do with the modules.
ScriptEnds == script \notin Ended ~> script \in Ended

=============================================================================
