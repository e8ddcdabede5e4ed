---------------------------- MODULE GxfpLifecycle ----------------------------
(***************************************************************************)
(* One instance of the gxfp driver from gxfp_probe to the end of its       *)
(* release (kernel/gxfp.c): which GPIO becomes the reset line, what is     *)
(* undone when probe fails half way, and removal against debugfs calls     *)
(* and an interrupt that are under way.                                    *)
(*                                                                         *)
(* The kernel's part is external: debugfs_remove_recursive refuses new     *)
(* calls on a file, then waits for the ones inside it; devm undoes the     *)
(* requests in reverse order, free_irq waiting for its handler; an open    *)
(* file outlives the instance and pins the module.                         *)
(***************************************************************************)
EXTENDS Integers

CONSTANTS
  Thread,    \* userspace threads that use the debugfs files
  Layouts,   \* what _CRS may list: the two GPIO resources by index
  Touches    \* values of the module parameter touch_enable

Slots == {"out", "in", "absent", "error"}   \* an output, an input, NULL, IS_ERR
Files == {"enable", "reset"}                \* the debugfs files that drive the line

ASSUME LifecycleAssumption ==
  /\ Layouts \subseteq [1..2 -> Slots]
  /\ Touches \subseteq {-1, 0, 1}

VARIABLES
  layout, touch,     \* this machine's resources, this module's parameter
  driver,            \* the driver bound to the SPI device
  life,              \* where gxfp_probe, gxfp_remove or the release is
  alive,             \* struct gxfp is allocated
  enable, irqGpio,   \* g->enable, g->irq_gpio: an index of layout, or 0
  irq,               \* the interrupt handler is requested
  isr,               \* it runs
  files,             \* debugfs files that take calls
  open,              \* the file a thread has open, "stale" once that was removed
  at,                \* where its call is
  line               \* the level of the line behind g->enable

lifeVars == <<life, alive, enable, irqGpio, irq, files, driver>>
callVars == <<open, at>>
gxfpVars == <<layout, touch, lifeVars, isr, callVars, line>>

Probing  == {"alloc", "gpios", "drive", "request", "create"}
Removing == {"closing", "low", "freeirq", "free"}

GxfpTypeOK ==
  /\ layout \in Layouts /\ touch \in Touches
  /\ driver \in {"none", "gxfp", "spidev"}
  /\ life \in {"none", "up"} \cup Probing \cup Removing
  /\ driver = "gxfp" <=> life # "none"
  /\ alive \in BOOLEAN /\ irq \in BOOLEAN /\ isr \in BOOLEAN /\ line \in BOOLEAN
  /\ enable \in 0..2 /\ irqGpio \in 0..2
  /\ files \in SUBSET Files
  /\ open \in [Thread -> Files \cup {"none", "stale"}]
  /\ at \in [Thread -> {"user", "set", "low", "high", "settle"}]

GxfpInit ==
  /\ layout \in Layouts /\ touch \in Touches
  /\ driver = "none" /\ life = "none"
  /\ alive = FALSE /\ irq = FALSE /\ isr = FALSE
  /\ enable = 0 /\ irqGpio = 0
  /\ files = {}
  /\ open = [t \in Thread |-> "none"]
  /\ at = [t \in Thread |-> "user"]
  /\ line \in BOOLEAN

-----------------------------------------------------------------------------
(* gxfp_probe.                                                             *)

Present(k) == layout[k] \in {"out", "in"}

\* Mutant: the first line that is there, whatever its direction.
FirstPresent == CASE Present(1) -> 1
                  [] ~Present(1) /\ Present(2) -> 2
                  [] OTHER -> 0

\* The first output; 0 if there is none.
FirstOutput == CASE layout[1] = "out" -> 1
                 [] layout[1] # "out" /\ layout[2] = "out" -> 2
                 [] OTHER -> 0

\* The first line that is not the reset line, also if it is an output.
FirstOther == CASE Present(1) /\ FirstOutput # 1 -> 1
                [] ~(Present(1) /\ FirstOutput # 1) /\ Present(2) /\ FirstOutput # 2 -> 2
                [] OTHER -> 0

Alloc ==
  /\ life = "alloc"
  /\ \/ life' = "gpios" /\ alive' = TRUE
     \/ life' = "freeirq" /\ UNCHANGED alive    \* -ENOMEM
  /\ UNCHANGED <<layout, touch, enable, irqGpio, irq, files, driver, isr, callVars, line>>

Classify ==
  /\ life = "gpios"
  /\ enable' = FirstOutput
  /\ irqGpio' = FirstOther
  /\ life' = IF FirstOutput = 0 THEN "freeirq" ELSE "drive"   \* -ENODEV
  /\ UNCHANGED <<layout, touch, alive, irq, files, driver, isr, callVars, line>>

DriveEnable ==
  /\ life = "drive"
  /\ life' = "request"
  /\ line' = IF touch >= 0 THEN touch = 1 ELSE line
  /\ UNCHANGED <<layout, touch, alive, enable, irqGpio, irq, files, driver, isr, callVars>>

\* No GpioInt, or the request fails: the driver goes on without an interrupt.
RequestIrq ==
  /\ life = "request"
  /\ life' = "create"
  /\ irq' \in BOOLEAN
  /\ UNCHANGED <<layout, touch, alive, enable, irqGpio, files, driver, isr, callVars, line>>

CreateFiles ==
  /\ life = "create"
  /\ life' = "up"
  /\ files' = Files
  /\ UNCHANGED <<layout, touch, alive, enable, irqGpio, irq, driver, isr, callVars, line>>

-----------------------------------------------------------------------------
(* gxfp_remove and the release.                                            *)

\* Mutant: the debugfs files are not removed.
StartRemoveKeepFiles == life = "up" /\ life' = "low"

\* Unloading the module, or unbinding the device, calls gxfp_remove.
StartRemove == life = "up" /\ life' = "closing"

\* Mutant: removal waits until the files are closed.
AllClosed == \A t \in Thread : open[t] # "stale"

\* No call is inside a file that was removed.
Drained == \A t \in Thread : open[t] = "stale" => at[t] = "user"

\* debugfs_remove_recursive turns to the next file: no new call gets in.
RemoveFile(f) ==
  /\ life = "closing" /\ f \in files /\ Drained
  /\ files' = files \ {f}
  /\ open' = [t \in Thread |-> IF open[t] = f THEN "stale" ELSE open[t]]
  /\ UNCHANGED <<layout, touch, life, alive, enable, irqGpio, irq, driver, isr, at, line>>

FilesGone ==
  /\ life = "closing" /\ files = {} /\ Drained
  /\ life' = "low"
  /\ UNCHANGED <<layout, touch, alive, enable, irqGpio, irq, files, driver, isr, callVars, line>>

\* Whatever touch_enable said.
DriveLow ==
  /\ life = "low"
  /\ life' = "freeirq"
  /\ line' = FALSE
  /\ UNCHANGED <<layout, touch, alive, enable, irqGpio, irq, files, driver, isr, callVars>>

\* Mutant: the interrupt is requested without devm, and nobody frees it.
KeepIrq ==
  /\ life = "freeirq"
  /\ life' = "free"
  /\ UNCHANGED <<layout, touch, alive, enable, irqGpio, irq, files, driver, isr, callVars, line>>

FreeIrq ==
  /\ life = "freeirq" /\ ~isr
  /\ life' = "free"
  /\ irq' = FALSE
  /\ UNCHANGED <<layout, touch, alive, enable, irqGpio, files, driver, isr, callVars, line>>

\* The descriptors, the memory, and the device's link to the driver.
FreeAll ==
  /\ life = "free"
  /\ life' = "none" /\ driver' = "none"
  /\ enable' = 0 /\ irqGpio' = 0 /\ alive' = FALSE
  /\ UNCHANGED <<layout, touch, irq, files, isr, callVars, line>>

Live == \/ Alloc \/ Classify \/ DriveEnable \/ RequestIrq \/ CreateFiles
        \/ (\E f \in Files : RemoveFile(f)) \/ FilesGone \/ DriveLow \/ FreeIrq \/ FreeAll

-----------------------------------------------------------------------------
(* debugfs calls and the interrupt thread.                                 *)

\* Opening pins the module; closing may come long after the instance is gone.
Open(t, f) ==
  /\ open[t] = "none" /\ f \in files
  /\ open' = [open EXCEPT ![t] = f]
  /\ UNCHANGED <<layout, touch, lifeVars, isr, at, line>>

Close(t) ==
  /\ open[t] # "none" /\ at[t] = "user"
  /\ open' = [open EXCEPT ![t] = "none"]
  /\ UNCHANGED <<layout, touch, lifeVars, isr, at, line>>

Call(t) ==
  /\ open[t] \in files /\ at[t] = "user"
  /\ at' = [at EXCEPT ![t] = IF open[t] = "reset" THEN "low" ELSE "set"]
  /\ UNCHANGED <<layout, touch, lifeVars, isr, open, line>>

\* A step of a call: from one place to the next, the line at a level.
CallStep(t, from, to, level) ==
  /\ at[t] = from
  /\ at' = [at EXCEPT ![t] = to]
  /\ line' = level
  /\ UNCHANGED <<layout, touch, lifeVars, isr, open>>

Set(t)     == \E level \in BOOLEAN : CallStep(t, "set", "user", level)
Low(t)     == CallStep(t, "low", "high", FALSE)
High(t)    == CallStep(t, "high", "settle", TRUE)
Settled(t) == CallStep(t, "settle", "user", line)

InCall(t) == Set(t) \/ Low(t) \/ High(t) \/ Settled(t)

IsrStart ==
  /\ irq /\ ~isr
  /\ isr' = TRUE
  /\ UNCHANGED <<layout, touch, lifeVars, callVars, line>>

IsrDone ==
  /\ isr
  /\ isr' = FALSE
  /\ UNCHANGED <<layout, touch, lifeVars, callVars, line>>

=============================================================================
