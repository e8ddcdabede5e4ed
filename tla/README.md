# Verification of the goodix-fingerprint-spi-linux code

This directory holds TLA+ models of the code that talks to the Goodix GXFP51A0
fingerprint sensor over SPI: the `gxfp` kernel driver, the Milan-SPI framing, the
`spisnoop` diagnostic module, board discovery, the script that hands the sensor from
`gxfp` to `spidev`, and the userspace bench tools. TLC
checks small instances of them; TLAPS proves the theorems listed below for every
value of the constants.

Check a model with `tlc -config X.cfg M`, a proof module with `tlapm M_proofs.tla`.
`PROJECT.json` lists the runs, the mutants, the source lines each definition
stands for, the findings, the hazards and the theorems.

## 1. Inventory of the system

| Part | Source | State | Operations | What is hard |
|---|---|---|---|---|
| gxfp driver, exchanges | `kernel/gxfp.c` | mutex, `data_ready`, `txbuf`, `rxbuf`, `rxlen`, callers' locals | debugfs `cmd`, `raw` (write, read), `replay`, `enable`, `reset` | concurrent callers; state touched outside the mutex; SPI errors half way; a wait that an interrupt, a signal or 500 ms ends |
| gxfp driver, interrupt | `kernel/gxfp.c` `gxfp_isr` | `irq_count`, `irq_masked` | threaded level interrupt with a storm mask | free-running level interrupt; a lifetime counter |
| gxfp driver, diagnostics | `kernel/gxfp.c` `cstest`, `padprobe`, `ctlregs`, `dsm` | shared `txbuf`, a message on the stack | one background transfer, register reads | no mutex; the message may outlive its function |
| gxfp driver, lifecycle | `kernel/gxfp.c` `gxfp_probe`, `gxfp_remove` | descriptors, handler, debugfs files, `struct gxfp` | probe and its failures, remove, release, module parameters | which GPIO is which; a removal against calls, open files and the interrupt |
| Milan-SPI framing | `gxfp.c`, `tools/gxfp.py`, `refseq.py`, `framing.py` | none | header, message, checks, parser | wrap-around sums, a length in two bytes, the 0x88 sentinel, idle wires |
| sensor and wire | documents | reset line, MCU, replies | boots, answers, raises its interrupt | replies at any time, lost by full-duplex writes |
| spisnoop | `spisnoop/spisnoop.c` | samples, event table | `snap` | registers read one after the other while the bus runs; a full table |
| board discovery | `tools/board.py` | none | `resolve` | two known boards that differ; nodes that come and go during the lookup; pads of every shape; overrides |
| bench tools | `refseq.py`, `recover_probe.py`, `suspendtest.py`, `framing.py`, `bruteforce.py`, `dialects.py`, `wider.py`, `cshigh_repro.py`, `sigfrodr_exact.py`, `sweep_low.py`, `reset_low.py`, `cs_timing_low.py`, `touchwatch.py` | GPIO descriptors, results | tables of reset shapes, probes and watches | lines left driven, descriptors lost by exceptions, replies credited to a later row, what an idle wire looks like, pulses between polls |
| wrappers | `gpio_raw.py`, `spidev_raw.py`, `lowstate.py` | descriptors | take, set, close; inversion | every call must be inverted |
| pad sampling | `cswatch.py` | levels counted per round | three rounds of samples, a conclusion | samples beside other traffic; unreadable pads |
| spidev binding | `bind-spidev.sh` | sysfs | unload, override, bind | two modules for one device; users in between; `set -e` |
| register dump, decoders | `lpssregs.py`, `pexref.py`, `thumbcalls.py`, `extract_firmware.py`, `pdata.py` | none | read, print | Thumb call decoding |
| TLS, imaging, firmware | documents only | | | no code in the repository |

The parts interact through the hardware: the driver and the tools drive the same
reset line (GPIO 264, HIGH holds the MCU in reset) and the same SPI device, poll or
take the same interrupt line, and must not be loaded at once (`bind-spidev.sh` unloads
`gxfp` and sets `driver_override`). Inside the driver the parts share `struct gxfp`: the mutex guards `cmd`,
`raw` and `replay`; the interrupt thread, the GPIO knobs, the diagnostics and the
filling of `txbuf` run without it. The tools get their nodes and lines from `board.py`
or from constants, and all of them go through `spidev_raw` and `gpio_raw`.

What makes each part correct:

* **driver**: mutual exclusion on every path and its release on every error path; a
  frame's header and body with no other knob's transfer between them; a wakeup that belongs to the
  command that waits; a reader that sees bytes of the transfer whose length it took;
  raw transfers of the writer's own bytes; calls that return whatever the sensor does;
  a storm mask that closes at its limit and only in a storm; a reset that ends with the
  MCU out of reset.
* **framing**: what is sent is what is parsed; a spoiled header or an idle wire never
  leads to a read; a spoiled checksummed body is noticed.
* **lifecycle and binding**: nothing is used after its release; the reset line ends LOW;
  a failed probe or a removal leaves nothing behind; removal and the script end; a script
  that nobody disturbs finds the device free when it binds it.
* **spisnoop, cswatch**: the table lists the changes that were sampled; the verdicts are
  right about the bus, the pads and the chip select.
* **discovery**: the node is the sensor's, the interrupt line one that moves, and no
  wrong reset line is returned in silence.
* **bench tools**: a row that reports an answer had the sensor selected and out of reset,
  and counts replies to its own commands only; a script that promises to leave the sensor
  running does.

## 2. Plan

Order: the driver first, as its concurrency matters most; then what both the driver and
the tools rest on (framing); then the diagnostics whose verdicts steered the project
(spisnoop, the bench tools) and discovery.

| Step | Module | State |
|---|---|---|
| 1 | `MilanSensor` (external), `GxfpDriver`, `StormGate` and the refinement, `GxfpDriver_proofs` | done |
| 2 | `MilanFrame`, `MilanFrame_proofs` | done |
| 3 | `SpiSnoop`, `SpiSnoop_proofs` | done |
| 4 | `BoardResolve`, `BoardResolve_proofs` | done |
| 5 | `ToolTables`, `ToolBench` over `MilanSensor`, `ToolBench_proofs`, `BenchRows_proofs` | done: thirteen scripts and the wrapper |
| 6 | `GxfpLifecycle`: probe with its error paths and GPIO classification, remove against calls and the interrupt | done |
| 7 | `DriverBinding`: `bind-spidev.sh`, `driver_override`, the competition of `gxfp` and `spidev`, over `GxfpLifecycle`; `DriverBinding_proofs` | done |
| 8 | `CsWatch` on the bus of `SpiSnoop`, `CsWatch_proofs` | done |
| 9 | `SensorLink`: an abstract request-reply link, replies named by their command, the driver's and refseq's clients as refinements or counterexamples | open |
| 10 | `GxfpAsync`: the background message against the sleep that is to outlast it, with both times as constants | open |
| 11 | `ThumbCalls`, `FirmwareSearch`: the decoders against a reference definition | open |

The abstract specification stated so far is `StormGate`; `SensorLink` would be the next.
Every safety property of the passing runs is a theorem; what is left to prove comes with
the open modules.

## 3. Modules

**`MilanSensor`** (external). The MCU behind the bus, from how the code uses it: the
reset line (`reset`), the MCU (`mcu`: held, booting, up), a command taken up and not
yet answered (`todo`), and frames that wait (`pending`, at most `MaxPending`). HIGH on
the reset line discards everything; a command is answered with one frame (the ACK) or
two, at any later time or never; anything the host clocks may clock a waiting frame
out, as SPI is full duplex. `IrqHigh` is the interrupt line: undriven and so high
while the MCU does not run, and high while a frame waits. `GxfpDriver` and `ToolBench`
extend it.

**`GxfpDriver`**. One `pc` per userspace thread, one action per step between two
points where another thread, the interrupt or the SPI core can get in. `cmd` is
`Enter, Acquire, ClearReady, SendHeader, SendBody, Woken | GiveUp, ReadHeader,
StartBody, FinishBody, Release`; `replay` goes round `SendHeader .. FinishBody` without
waiting; `raw` is `Fill* , FillDone, Acquire, RawStart, RawFinish, Release` with `Fill`
before the mutex as in the code; reading `raw` is `TakeLength, CopyOut`; `enable` and
`reset` drive the line without the mutex; `cstest` and `padprobe` are `DiagZero,
DiagQueue, RunAsync, DiagDone`. Every step that transfers can fail if `SpiMayFail`.
The interrupt thread is `IsrEnter, IsrCount, IsrReady, IsrStorm`, one action per access
to shared state. Bytes are abstracted to their author (`txbuf`) and to whether they
belong to the transfer `rxlen` describes (`rxbuf`). `rung` and `bus` are histories.

**`StormGate`** is the abstract promise of the storm mask, a gate that lets `Limit`
interrupts pass and then shuts for good. `GxfpDriver!Gate` is the refinement mapping.

**`MilanFrame`**. Headers, messages, checksums and parsers as operators on bytes with
the code's `% 256`, and a wire that may replace one byte of the header or of the body,
or be driven by nobody. `CheckHeader` is the test of the driver, `gxfp.py` and
`framing.py`, `HeaderOK` the one of `refseq.py`.

**`SpiSnoop`**. `snap_show` register by register against a controller that starts and
ends transfers, on a bus whose chip select is driven, never asserted, or stuck. `past`
remembers which states of the bus ended inside the window.

**`CsWatch`** extends it with `cswatch.py`: rounds of samples (`StartWatch, Transfer,
ReadPads, EndRound`), then `Conclude` and `Exit`. Bit 1 of a pad follows the pin or
reads a constant (`live`); a sample may find no pads at all. Its own transfers and
those of others use the same controller. It and a reader of the snap file run one
after the other, as neither changes the other's state.

**`BoardResolve`**. `find_spidev()` in the steps in which it looks at sysfs: `FindDevice`
(the first device named after the sensor, and whether it has a `spidev` directory),
`ListDirectory`, or else `GlobNodes` and `TryNode` for one node after the other, in any
order; between them other programs bind and unbind devices (`Rebind`, at most
`MaxRebinds` times), so that a listing may raise and a node may be gone. Then `resolve()`:
overrides that are no numbers (`BadNumber`), the pads with the gpiochip of the first of
them (`ReadPads`), and two picks with their warnings, which `quiet` keeps from being
printed. A pad is its line and controller, its owner, its mode and the looked-at bits of
PADCFG0, or no PADCFG0 at all; candidates are positions in pinctrl's list, of which the
first is taken. An exception is the place `pc` ends at: `FileNotFoundError`, `ValueError`,
or `TypeError` for the formatting of a missing PADCFG0.

**`GxfpLifecycle`**. One instance of the driver: `Alloc, Classify, DriveEnable,
RequestIrq, CreateFiles` with their failures, then `StartRemove, RemoveFile, FilesGone,
DriveLow` of `gxfp_remove`, then devm's release `FreeIrq, FreeAll`. Threads open, call
and close the two files that drive the line (`Set`; `Low, High, Settled`), and the
handler runs whenever it is requested. The promises of debugfs, devm and `free_irq`
are external. `layout` is what `_CRS` lists: an output, an input, an absent or a failed
entry in each place.

**`DriverBinding`** extends it with the driver core and `bind-spidev.sh`, one action per
command of the script, each of which may end it under `set -e`. Users load, unload,
bind and unbind at any time, by the quick start of `README.md` or by
`recover_probe.py`; `alone` remembers whether anybody did since the script started. On one
board the sensor's node is `spidev1.0`, on the other it is another, and `spidev1.0` may belong to the flash.

**`ToolTables`** states the scripts as data: a script is a sequence of rows, a row the
steps of its preparation (take, set, drop, sleep, unbind, bind, suspend), the steps of
its exchange (open, header, body, read, window, peek, glance, watch, pulse), and which
exceptions the script catches. The module's `ASSUME`s are facts about these fixed
tables, which TLC evaluates and the proofs cite; most of them say with `Since` which step
comes before which, as that a preparation's last drive of the line is HIGH
(`LeavesHigh`), or LOW with a long sleep after it (`LeavesRunning`).

**`ToolBench`** runs the tables against `MilanSensor`. The actions do the steps as Python
does, exceptions included: a preparation that raises loses the object of the line it
took but not its descriptors, an exchange that raises skips the report, an exception
nobody catches ends the script. A take may also fail because another process holds the
line, which the scripts that catch exceptions go on from; `failed` remembers it. After a
script any other starts, on the line, the sensor and the node that one left; the five scripts of `OldSweeps` run as they are or
under `lowstate.py`'s wrapper, which inverts every level (`inverted`). Whether the
sensor hears spidev only with `SPI_CS_HIGH` is open (`needsCsHigh`), and so is what the
idle wire reads (`idle`). A sensor that is selected and out of reset may put any bytes on
the wire, asked or not (`Noise`; `data/cshigh-repro-run.txt:28-45` records some for the
case without commands), and they count wherever the scripts count them. Over a sleep of
the machine the line may come back at either level, or the sensor without power and
booting (`Suspend`). Sleeps count only against the boot of some 90 ms: `settle` is
longer, `nap` shorter. `asked`, `from` and `heard` are histories of which row asked for
each reply; `report` is what the last row reported.

The eight modules `*_proofs` hold the theorems. `ToolBench` has two: `ToolBench_proofs` is
about the bench as such, `BenchRows_proofs` about what the resets of the rows are worth
and what their answers mean.

**`MCGxfpDriver`, `MCGxfpStorm`, `MCMilanFrame`, `MCBoardResolve`, `MCDriverBinding`**
hold the instances for TLC; `MCGxfpStorm` adds a history variable of its own. `CsWatch`
and `ToolBench`, whose tables are the scripts' own, need none.

## 4. Runs

| Run | Question | Bounds |
|---|---|---|
| `GxfpDriver_locked` | mutual exclusion, exact wakeups, coherent reads, own bytes; the interrupt handler implements `StormGate` | 2 threads (`cmd`, `raw` against `cmd`, reading `raw`, `enable`, `reset`), `BufMax` 2, `Storm` 2 |
| `GxfpDriver_return` | every call returns, the gate shuts (liveness); with `padprobe`, only its transfers come into a frame | 2 threads (`cmd` against `replay`, `raw`, `padprobe`), failing SPI transfers, 1 pending frame, `Storm` 1 |
| `GxfpDriver_reset` | violated: after `reset` the MCU is out of reset | |
| `GxfpDriver_rawrace` | violated: raw sends what its writer wrote | 2 writers |
| `GxfpDriver_storm` | violated: the mask means a stuck line | `Storm` 3 |
| `DriverBinding_handover` | no use after release, the line ends LOW, nothing stays behind, the GPIOs found, the device free for the script's bind; removal and script end (liveness) | 1 thread, 5 layouts, `touch_enable` 0 and 1, both boards |
| `MilanFrame_wire` | delivery, refused headers, noticed bodies | 6 payloads whose lengths reach 255 and 256; 4 commands; 5 byte values |
| `SpiSnoop_slow` | events and verdicts of `spisnoop` are right, and so are `cswatch.py`'s conclusions | 3 events, 7 samples, 3 wirings; 3 samples in each of `cswatch.py`'s rounds |
| `SpiSnoop_fast` | violated: "CS NEVER ASSERTED" means that | |
| `BoardResolve_discovery` | the node of the sensor or none; sound picks or warnings | 4 tables of up to 3 devices, any of them bound, 4 changes by others; 3 lines, every pad, 2 tables of chips, overrides, `quiet` |
| `BoardResolve_returns` | violated: `resolve` returns | |
| `ToolBench_bench` | wins with the two conditions that matter, own replies, silence where the sensor is held, a free line, fresh cases, what the controls are worth, inverted pulses that wake the sensor, scripts that leave it running | 67 rows of 13 scripts in any order, with and without the wrapper, calls may raise, lines may be held by others, binding may fail |

Why the bounds are enough. Two threads show every pairwise interleaving, and the
theorems cover more. `BufMax` 2 has a byte inside and a byte outside a transfer, and a
buffer that is full. `Storm` is small so that the mask falls inside a command;
`StormGate` and the proofs cover 200. `MaxPending` 3 in the tools leaves room for an
ACK, its reply and a frame of the row before. The wire's payloads sit on both sides of
the places where the body's length and the length field reach 256. Three events and
seven samples fill the table with samples to spare. Three lines give discovery one known
reset line, one known interrupt line and one other that can be either; every other pad
is one of these to the code. Three devices give the lookup two sensors and the flash,
and four changes suffice to unbind a sensor and bind it again on both of its ways. What
is looked up and what is picked do not meet, so the run (`Focus`, a constraint) goes on
to the pads from one lookup only. Two or three of every tool's speeds and modes are
enough, as they differ for the sensor only in whether the chip select suits it; what a
row leaves behind reaches the next row through the line, the sensor and the waiting
frames only, and two rows in sequence show it. One thread in `DriverBinding` calls each
file at every place of a removal, and the calls of several threads do not depend on each
other; the theorems hold for any set of threads. The five layouts have the two orders of
a sound machine, two outputs, a failed and an absent entry. Three samples of a pad's
round show both levels and an unreadable pad.

Deadlock is checked in every run but those of `BoardResolve`, whose program ends.

### Fairness

`FairSpec` (in `GxfpDriver_return`): weak fairness of each thread's steps inside a
system call, as runnable kernel threads are scheduled, transfers complete and sleeps
and the 500 ms timeout elapse; strong fairness of `Acquire`, as Linux mutexes hand the
lock to a waiter that has waited too long; strong fairness of a queued background
message, as the SPI core works its queue in order; weak fairness of the interrupt
thread, which the kernel runs while its line is asserted and not masked. Entering a
call and the sensor are not fair: the calls must return with a silent sensor and a
masked interrupt.

`FairSpec` (in `DriverBinding_handover`): weak fairness of the kernel's steps in a
probe, a removal and a module's exit, of the script's steps, of a call that has begun
and of a handler that runs, all of which are finite code on runnable threads; strong
fairness of `FreeIrq`, as `free_irq` keeps the handler from starting again while it
waits. Users are not fair: they may keep files open for ever, and load and unload at
will. The runs that look for violations check invariants or a step, for which fairness
does not matter.

## 5. Proofs

| Theorem | Statement | Argument |
|---|---|---|
| `GxfpDriver_proofs!TypeCorrect` | `Spec => []TypeOK` | step by step; the lengths need `n[t] < BufMax` in `Fill` and `i[t] + 1 < ReplayLen` in `EndExchange` |
| `LockCorrect` | `Spec => []LockDiscipline` | inductive over `TypeOK`; lock and program counter change together |
| `ExchangesUnbroken` | `Spec => []ExchangeUnbroken` | with `LockDiscipline`: whoever else would transfer under the mutex would have to hold it too; the transfers without it are the background ones, which the statement allows |
| `WakeupsExact` | `Spec => []WakeupExact` | `WakeupInv` extends the property to the whole of `hdr, body, wait`; only the holder clears, and the interrupt thread sets flag and history in one step |
| `MasksAtStorm` | `Spec => []MaskAtStorm` | `StormInv` relates counter, mask and the place of the interrupt thread |
| `ImplementsGate` | `Spec => GateSpec` | step refinement under `StormInv`; `GateShuts`, its liveness, is only checked |
| `RawTransfersOwn` | `Spec => []RawSendsOwn` | `FilledInv`: what a sole writer has filled is its own |
| `ReadsCoherent` | `Spec => []ReadCoherent` | `ReadInv`: outside a locked transfer the first `rxlen` bytes are own |
| `MilanFrame_proofs!TypeCorrect`, `AlwaysDelivered`, `BadHeadersRefused` | the wire's invariants | `WireInv` keeps what the wire did next to what was framed; `HeaderRoundTrip`, `MessageRoundTrip` and `OneByteSpoils` are facts about the operators, for all bytes and lengths below 65536 |
| `BadBodiesNoticed` | `Spec => []BadBodyNoticed` | `TotalOfChanged`: one byte changed by d changes the sum of a payload by d, and d is never 0 modulo 256, so the checksum differs (`ChecksumsDiffer`); a changed command, checksum or marker is seen as such (`OneOff`, `Announces`) |
| `SpiSnoop_proofs!TypeCorrect` | `Spec => []TypeOK` | step by step; the counts stay below `samples` |
| `SpiSnoop_proofs!VerdictsRight` | `Spec => []VerdictSound` | `SlowInv`: every state of the bus that ended, or is being sampled, left its trace in the counters or the table |
| `EventsAreChanges` | `Spec => []EventsFaithful` | `TableInv`: the table is what the reference definition records of the values sampled so far, cut at its size; `ChangesAppend`: one more sample adds one record or none |
| `CsWatch_proofs!LiveIsRight`, `StuckIsRight` | `BusSpec => []LiveIsLive`, `BusSpec => []NeverHighIsStuck` | `WatchInv`: a dead bit shows one level in every sample; a live one of a chip select that is not stuck was seen high as soon as it was read on an idle bus |
| `BusIsSnooped` | `BusSpec => Spec` | a step of `cswatch.py` is a transfer on the bus or leaves `SpiSnoop`'s variables alone: what is proved of `spisnoop` holds beside the script |
| `BoardResolve_proofs!NodeIsTheSensors`, `IrqFitsTheRule`, `ResetIsFlagged` | the three invariants of discovery | `LookupInv`: the device found is a sensor, and a sensor that was bound all along is still to be tried; `BoardInv` keeps the pads a board of `Boards`; the first candidate is a member of the candidates, as positions are natural numbers |
| `DriverBinding_proofs!TypeCorrect` | `Spec => []TypeOK` | step by step |
| `InUseStaysAlive`, `LeavesNothing`, `FindsItsGpios`, `RemovalLeavesLow` | the instance's invariants | `LifeInv` says what exists at each place of probe, removal and release; `CallInv` that a call is inside a file that is there or being removed, and none once the files are gone |
| `ScriptBindsFree` | `Spec => []BindsFree` | `FreeInv`: if nobody else changes drivers, `gxfp` is gone once the script has passed `rmmod`, and `spidev` has not got the device once it has found no node |
| `ToolBench_proofs!TypeCorrect` | `Spec => []TypeOK` | `PlaceInv` keeps the place inside a row's steps, `FromInv` one asker for each reply that waits |
| `BenchRows_proofs!WinsAreHonest` | `Spec => []WinsHonest` | `HitInv`: what such a row takes for an answer came from a sensor that is selected and out of reset, and stays so to the report; with `LowInv` (in the scripts that keep the line LOW the MCU is up, and one that is not selected owes nothing) also where a pulse counts |
| `ToolBench_proofs!LineIsFree` | `Spec => []LineFree` | `HoldInv`: a line that is held was taken by this row, or by an earlier one that nothing has closed since; no row of the tables takes a line held over or takes one twice; `LostInv`: an object is lost with a preparation that failed only |
| `HighIsSilent` | `Spec => []HighSilent` | `LineInv`: what the steps behind a row say of line, MCU, commands and owner is so; `HighInv`: a row of `HighRow` has the line HIGH from its preparation to its end, by its own last drive or, unless a preparation failed, as the row before left it; so nothing waits (`ResetQuiet`), and `SilentInv` |
| `WinsAreOwn`, `SweepsAreOwn` | `Spec => []WinsOwn`, `Spec => []SweepsOwn` | `Owes(who)`: waiting replies and the command under way are those of `who`. A reset makes it true of any set, a row keeps it of every set it belongs to: `OwnInv` takes the row alone, `SweepInv` all rows but no earlier script |
| `SensorIsLeftRunning` | `Spec => []LeftRunning` | `RunInv`: under the wrapper a preparation ends LOW and booted, and nothing drives the line until the next; `LastInv`: so do the controls, which raise the line and see it high first |
| `CasesStartFresh` | `Spec => []CaseFresh` | `CaseInv`: after its preparation a case knows the sensor, whatever ran before: the line HIGH discards commands and replies, and the sleep after the last set outlasts the boot |
| `ControlsMeanIt` | `Spec => []ControlsTable` | `ControlInv` over `CaseInv`: only a case that sets the chip select right and runs the sensor sees its bytes, and only one that also asks hears a reply |
| `ControlsMeanHeld` | `Spec => []ControlMeansHeld` | `SigfrodrInv`: a held sensor's interrupt line is high when the preparation looks at it, and a booted one's without replies is low; nothing drives the line before the report |

The assumptions are those on the constants in the modules: any set of threads and any
assignment of knobs to them (`DriverAssumption`), any limit of pending frames
(`MaxPendingAssumption`), any commands, payloads and byte values that fit into the
buffer (`FrameAssumption`), any size of table and window and any number of samples
(`SnoopAssumption`, `ReadsAssumption`), any boards whose pads and devices are numbered
(`BoardsAssumption`, `DevicesAssumption`), any threads and layouts
(`LifecycleAssumption`). The theorems of `ToolBench` are about the scripts' own tables:
the facts `RowsAssumption`, `ReadersAssumption`, `LowAssumption`, `TakesAssumption`,
`PrepAssumption`, `CatchAssumption`, `HighAssumption`, `ResetAssumption`,
`RunAssumption`, `CaseAssumption` and `SigfrodrAssumption` have no constant in them, and
TLC evaluates them on every row. A script whose table changes has to pass them again,
and then the theorems hold of it as well. The sensor, debugfs, devm and the driver core
are external models.

Two of the reference definitions are recursive functions: the sum of a payload (`Total`)
and the records of a sequence of samples (`ChangesOf`). The induction theorems of the
library need an operator as their parameter and cannot be used, so the proofs take the
least counterexample (`LeastNumber`, from the well-foundedness of the naturals), and unfold
the function after exhibiting one that satisfies its equation. The rest of the argument
is about one more byte or one more sample.

Only model-checked: the liveness properties `CallsReturn`, `GateShuts`, `RemovalEnds` and
`ScriptEnds`, as fairness and `ENABLED` are out of the prover's reach. That the
tables of `ToolTables` are what the scripts do is neither checked nor proved, but read off
the source.

## 6. What was found

Each of these is a run that TLC finds violated; the quoted lines are in `PROJECT.json`.

* `reset` leaves the line HIGH, that is, the MCU in reset (`gxfp.c:583`).
* Two writers of `raw` mix their bytes (`gxfp.c:662`).
* The storm mask counts interrupts for life, so serviced ones trigger it (`gxfp.c:178`).
* `spisnoop` can report that chip select was never asserted although it was
  (`spisnoop.c:137`).
* `board.py` raises on a pad without PADCFG0 (`board.py:147`).

Noticed while modelling, and not a run: `kernel/README.md:40` gives `touch_enable` the
default 1, `gxfp.c:202` has 0. `cswatch.py:69` says that a transfer runs underneath the
samples, but each sample follows a transfer that has ended (`cswatch.py:72-77`), so the
script's own traffic never moves a pad; and `cswatch.py:137` looks for a high chip
select in two of the three rounds.

`sigfrodr_exact.py` calls a row INVALID unless the interrupt line is high after its
preparation, taking that for the proof of power (lines 84 and 90): the line is high when
the sensor is held in reset, so that of the rows after a power cycle exactly the silent
ones are valid. `ControlMeansHeld` states what the control does mean.

Exceptions that the properties state, and why. `ExchangeUnbroken` allows the background
transfers of `cstest` and `padprobe`, which take no mutex, between header and body, and
nothing else; `RawSendsOwn` and `ReadCoherent` leave these two knobs out, as they also
clear `txbuf`; `ReadCoherent` also leaves out `replay` and failing transfers, which
change `rxbuf` without setting `rxlen`. `WinsOwn` leaves out the sweeps, which reset
the sensor once for all their rows, so that a late reply is credited to the row that
reads it (`SweepsOwn` says what still holds), and a row that resets nothing in a script in which a
preparation before it failed, as by a line that was held. `HighSilent` leaves out such
rows too, and a wire that idles at zeros. `LineFree` is about the script's own objects, one lost with a
failed preparation excepted. `BindsFree` is about the board whose node is `spidev1.0`,
and runs in which nobody else changes drivers. `ResetFlagged` is about calls that are not
`quiet`. `WinsHonest` claims nothing of `sigfrodr_exact.py` and the scripts that keep
the line LOW when the idle wire reads zeros, as they count zeros as a response, nor of
`touchwatch.py`, which watches the interrupt line of a sensor it holds in reset; `HighSilent`
is about that one. `NeverHighIsStuck` leaves out a chip select that was not read on an
idle bus in the first two rounds. `RemovedLow` and `InUseAlive` are about the two files
that drive the line; the other files are removed the same way. `BadBodyNoticed` leaves out the
0x88 marker, and the length field of the message, which is not checked against the
header's; it is about messages with a checksum.

## 7. What is not modelled, and why

Parsing and printing of text, the ioctl structures, and the exact bus timing are left
out, as no property is about them. `ctlregs`, `dsm`, `lpssregs.py` and `pexref.py` only read and
print. The timing parameters of the driver change no state. In `ToolBench` nobody else drives
the reset line or uses spidev while a script runs, though others may hold the line or have
bound and unbound the sensor before; a spoiled or made-up header that passes the 8-bit sum
is part of `Noise`, not worked out byte by byte. In `DriverBinding` other devices of the
SPI bus are represented by whether `spidev1.0` is the flash's. What `driver_override`
keeps out is the driver core's promise and no property of its own. Still open, each for a
reason: which command an ACK or a reply answers in the driver's `cmd` (`SensorLink`: the
driver takes one frame and leaves the matching to the user, so there is little code to
model); whether `cstest`'s message outlives its function (`GxfpAsync`: a matter of the
transfer's time, which the code fixes by a sleep only); the decoders `thumbcalls.py`,
`extract_firmware.py` and `pdata.py`, pure functions of a file. TLS, imaging and firmware
update exist only in the documents.
