----------------------------- MODULE GxfpDriver -----------------------------
(***************************************************************************)
(* The gxfp kernel driver (kernel/gxfp.c): the debugfs knobs cmd, raw,     *)
(* replay, enable and reset used by concurrent threads, the threaded       *)
(* interrupt handler with its storm mask, and the state they share.        *)
(*                                                                         *)
(* Bytes are abstracted to where they came from: txbuf[k] is the thread    *)
(* that put byte k there, rxbuf[k] is "own" when byte k was delivered by   *)
(* the transfer rxlen describes and "stray" otherwise.  A synchronous SPI  *)
(* transfer that only moves a stack buffer is one step (the SPI core runs  *)
(* one message at a time); one that fills rxbuf is two, start and finish,  *)
(* since rxbuf changes while it runs.                                      *)
(***************************************************************************)
EXTENDS MilanSensor

CONSTANTS
  Thread,       \* userspace threads holding debugfs files open
  Ops,          \* Ops[t]: the knobs thread t uses
  NoThread,     \* the free mutex; also the author of a zero byte
  BufMax,       \* GXFP_BUF_MAX
  Storm,        \* GXFP_IRQ_STORM
  DiagLen,      \* bytes of the cstest and padprobe transfers
  ReplayLen,    \* commands in the replay sequence
  TouchEnable,  \* module parameter touch_enable
  SpiMayFail    \* whether SPI transfers may return an error

Diag  == {"cstest", "padprobe"}
Knobs == {"cmd", "raw", "rawread", "replay", "enable", "reset"} \cup Diag

ASSUME DriverAssumption ==
  /\ NoThread \notin Thread
  /\ Ops \in [Thread -> SUBSET Knobs]
  /\ BufMax \in Nat \ {0}
  /\ DiagLen \in 1..BufMax
  /\ Storm \in Nat \ {0}
  /\ ReplayLen \in Nat \ {0}
  /\ TouchEnable \in {-1, 0, 1}
  /\ SpiMayFail \in BOOLEAN

VARIABLES
  pc,          \* where each thread is in its operation
  op,          \* the operation it runs
  n,           \* local n: bytes parsed, received or to be copied
  i,           \* local i: index in the replay sequence
  lock,        \* holder of g->lock
  dataReady,   \* g->data_ready
  irqCount,    \* g->irq_count
  irqMasked,   \* g->irq_masked, and the disable depth behind it
  isr,         \* where the interrupt thread is
  txbuf,       \* g->txbuf
  rxbuf,       \* g->rxbuf
  rxlen,       \* g->rxlen
  bus,         \* the last SPI transfer: who, what, and whether every byte was its own
  async,       \* threads whose spi_async message is queued
  rung         \* history: threads whose data_ready was set since they cleared it

threadVars == <<pc, op, n, i>>
txVars     == <<txbuf, async>>
irqVars    == <<irqCount, irqMasked, isr>>
rxVars     == <<rxbuf, rxlen>>
vars       == <<sensorVars, threadVars, lock, dataReady, irqVars, txVars, rxVars, bus, rung>>

PCs == {"idle", "fill", "lock", "clear", "hdr", "body", "wait", "rhdr", "rbody",
        "rfin", "xfer", "xfin", "len", "copy", "unlock", "low", "high", "settle",
        "zero", "queue", "drain"}

\* Between mutex_lock and mutex_unlock.
Locked == {"clear", "hdr", "body", "wait", "rhdr", "rbody", "rfin",
           "xfer", "xfin", "len", "copy", "unlock"}

Transfers == [by : Thread \cup {NoThread},
              kind : {"none", "hdr", "body", "rhdr", "rbody", "raw", "async"},
              own : BOOLEAN]

TypeOK ==
  /\ SensorTypeOK
  /\ pc \in [Thread -> PCs]
  /\ op \in [Thread -> Knobs \cup {"none"}]
  /\ n \in [Thread -> 0..BufMax]
  /\ i \in [Thread -> 0..ReplayLen]
  /\ lock \in Thread \cup {NoThread}
  /\ dataReady \in BOOLEAN
  /\ irqCount \in Nat
  /\ irqMasked \in BOOLEAN
  /\ isr \in {"off", "count", "ready", "storm"}
  /\ txbuf \in [1..BufMax -> Thread \cup {NoThread}]
  /\ rxbuf \in [1..BufMax -> {"own", "stray"}]
  /\ rxlen \in 0..BufMax
  /\ bus \in Transfers
  /\ async \in SUBSET Thread
  /\ rung \in SUBSET Thread

\* The state gxfp_probe leaves behind.
Init ==
  /\ \E level \in BOOLEAN :
       /\ TouchEnable >= 0 => level = (TouchEnable = 1)
       /\ SensorInit(level)
  /\ pc = [t \in Thread |-> "idle"]
  /\ op = [t \in Thread |-> "none"]
  /\ n = [t \in Thread |-> 0]
  /\ i = [t \in Thread |-> 0]
  /\ lock = NoThread
  /\ dataReady = FALSE
  /\ irqCount = 0
  /\ irqMasked = FALSE
  /\ isr = "off"
  /\ txbuf = [k \in 1..BufMax |-> NoThread]
  /\ rxbuf = [k \in 1..BufMax |-> "stray"]
  /\ rxlen = 0
  /\ bus = [by |-> NoThread, kind |-> "none", own |-> TRUE]
  /\ async = {}
  /\ rung = {}

-----------------------------------------------------------------------------
(* Helpers.                                                                *)

Goto(t, from, to) ==
  /\ pc[t] = from
  /\ pc' = [pc EXCEPT ![t] = to]

Xfer(t, kind) == bus' = [by |-> t, kind |-> kind, own |-> TRUE]

\* The system call ends and its locals are gone.
Return(t, from) ==
  /\ Goto(t, from, "idle")
  /\ op' = [op EXCEPT ![t] = "none"]
  /\ n' = [n EXCEPT ![t] = 0]
  /\ i' = [i EXCEPT ![t] = 0]

\* Where a thread goes when its exchange is over: gxfp_cmd_write unlocks,
\* gxfp_replay_show goes on with the next command of the sequence.
EndExchange(t, from) ==
  IF op[t] = "replay" /\ i[t] + 1 < ReplayLen
  THEN /\ Goto(t, from, "hdr")
       /\ i' = [i EXCEPT ![t] = @ + 1]
  ELSE /\ Goto(t, from, "unlock")
       /\ UNCHANGED i

-----------------------------------------------------------------------------
(* System calls enter and leave.                                           *)

Enter(t, knob) ==
  /\ knob \in Ops[t] \ {"enable"}
  /\ op' = [op EXCEPT ![t] = knob]
  /\ Goto(t, "idle", CASE knob = "raw"   -> "fill"
                       [] knob = "reset" -> "low"
                       [] knob \in Diag  -> "zero"
                       [] OTHER          -> "lock")
  /\ UNCHANGED <<sensorVars, n, i, lock, dataReady, irqVars, txVars, rxVars, bus, rung>>

\* The first step behind mutex_lock.
FirstLocked(t) ==
  CASE op[t] = "cmd"     -> "clear"
    [] op[t] = "replay"  -> "hdr"
    [] op[t] = "raw"     -> "xfer"
    [] op[t] = "rawread" -> "len"
    [] OTHER             -> "unlock"

\* Mutant: reading the raw file takes no mutex.
AcquireButReader(t) ==
  /\ op[t] # "rawread" => lock = NoThread
  /\ lock' = IF op[t] = "rawread" THEN lock ELSE t
  /\ Goto(t, "lock", FirstLocked(t))
  /\ UNCHANGED <<sensorVars, op, n, i, dataReady, irqVars, txVars, rxVars, bus, rung>>

\* Mutant: a raw write takes no mutex.
AcquireButRaw(t) ==
  /\ op[t] # "raw" => lock = NoThread
  /\ lock' = IF op[t] = "raw" THEN lock ELSE t
  /\ Goto(t, "lock", FirstLocked(t))
  /\ UNCHANGED <<sensorVars, op, n, i, dataReady, irqVars, txVars, rxVars, bus, rung>>

Acquire(t) ==
  /\ lock = NoThread
  /\ lock' = t
  /\ Goto(t, "lock", FirstLocked(t))
  /\ UNCHANGED <<sensorVars, op, n, i, dataReady, irqVars, txVars, rxVars, bus, rung>>

Release(t) ==
  /\ Return(t, "unlock")
  /\ lock' = NoThread
  /\ UNCHANGED <<sensorVars, dataReady, irqVars, txVars, rxVars, bus, rung>>

-----------------------------------------------------------------------------
(* cmd: clear data_ready, send a frame, wait for the interrupt, receive.   *)

\* Mutant: data_ready is not cleared.
KeepReady(t) ==
  /\ Goto(t, "clear", "hdr")
  /\ rung' = rung \ {t}
  /\ UNCHANGED <<sensorVars, op, n, i, lock, dataReady, irqVars, txVars, rxVars, bus>>

ClearReady(t) ==
  /\ Goto(t, "clear", "hdr")
  /\ dataReady' = FALSE
  /\ rung' = rung \ {t}
  /\ UNCHANGED <<sensorVars, op, n, i, lock, irqVars, txVars, rxVars, bus>>

\* gxfp_send up to the 2 ms gap: no memory, the header write fails, or it went out.
SendHeader(t) ==
  /\ \/ /\ EndExchange(t, "hdr")
        /\ UNCHANGED <<sensorVars, bus>>
     \/ /\ SpiMayFail
        /\ EndExchange(t, "hdr")
        /\ Xfer(t, "hdr")
        /\ Clocked
     \/ /\ Goto(t, "hdr", "body")
        /\ Xfer(t, "hdr")
        /\ Clocked
        /\ UNCHANGED i
  /\ UNCHANGED <<op, n, lock, dataReady, irqVars, txVars, rxVars, rung>>

\* Mutant: the frame is assembled in txbuf instead of a buffer of its own.
SendBodyFromTxbuf(t) ==
  /\ Xfer(t, "body")
  /\ txbuf' = [k \in 1..BufMax |-> NoThread]
  /\ Goto(t, "body", IF op[t] = "cmd" THEN "wait" ELSE "rhdr")
  /\ HearCommand
  /\ UNCHANGED <<async, op, n, i, lock, dataReady, irqVars, rxVars, rung>>

\* gxfp_send after the gap; replay then sleeps 50 ms where cmd waits.
SendBody(t) ==
  /\ Xfer(t, "body")
  /\ \/ /\ SpiMayFail
        /\ EndExchange(t, "body")
        /\ Clocked
     \/ /\ Goto(t, "body", IF op[t] = "cmd" THEN "wait" ELSE "rhdr")
        /\ HearCommand
        /\ UNCHANGED i
  /\ UNCHANGED <<op, n, lock, dataReady, irqVars, txVars, rxVars, rung>>

Woken(t) ==
  /\ dataReady
  /\ Goto(t, "wait", "rhdr")
  /\ UNCHANGED <<sensorVars, op, n, i, lock, dataReady, irqVars, txVars, rxVars, bus, rung>>

\* Mutant: the wait has no timeout.
GiveUpNever(t) ==
  /\ dataReady
  /\ Goto(t, "wait", "rhdr")
  /\ UNCHANGED <<sensorVars, op, n, i, lock, dataReady, irqVars, txVars, rxVars, bus, rung>>

\* 500 ms passed or a signal came: the result of the wait is ignored.
GiveUp(t) ==
  /\ Goto(t, "wait", "rhdr")
  /\ UNCHANGED <<sensorVars, op, n, i, lock, dataReady, irqVars, txVars, rxVars, bus, rung>>

\* The header read fails, holds no valid header (always so when no frame waits),
\* announces 0 or more than BufMax bytes, or announces len bytes.
ReadHeader(t) ==
  /\ Xfer(t, "rhdr")
  /\ \/ /\ EndExchange(t, "rhdr")
        /\ Clocked
        /\ UNCHANGED n
     \/ /\ pending > 0
        /\ Goto(t, "rhdr", "rbody")
        /\ \E len \in 1..BufMax : n' = [n EXCEPT ![t] = len]
        /\ UNCHANGED <<sensorVars, i>>
  /\ UNCHANGED <<op, lock, dataReady, irqVars, txVars, rxVars, rung>>

\* The body read starts to overwrite rxbuf.
StartBody(t) ==
  /\ Goto(t, "rbody", "rfin")
  /\ Xfer(t, "rbody")
  /\ rxbuf' = [k \in 1..BufMax |-> IF k <= n[t] THEN "stray" ELSE rxbuf[k]]
  /\ UNCHANGED <<sensorVars, op, n, i, lock, dataReady, irqVars, txVars, rxlen, rung>>

\* gxfp_recv records the length; gxfp_replay_show does not.
FinishBody(t) ==
  /\ EndExchange(t, "rfin")
  /\ \/ /\ SpiMayFail
        /\ UNCHANGED <<sensorVars, rxVars>>
     \/ /\ GiveFrame
        /\ op[t] = "cmd"
        /\ rxlen' = n[t]
        /\ rxbuf' = [k \in 1..BufMax |-> IF k <= n[t] THEN "own" ELSE "stray"]
     \/ /\ GiveFrame
        /\ op[t] = "replay"
        /\ UNCHANGED rxVars
  /\ UNCHANGED <<op, n, lock, dataReady, irqVars, txVars, bus, rung>>

-----------------------------------------------------------------------------
(* raw: fill txbuf from the parsed text, then one full-duplex transfer.    *)

\* Mutant: parsing does not stop at the end of txbuf.
FillUnbounded(t) ==
  /\ Goto(t, "fill", "fill")
  /\ n' = [n EXCEPT ![t] = @ + 1]
  /\ txbuf' = [txbuf EXCEPT ![IF n[t] < BufMax THEN n[t] + 1 ELSE 1] = t]
  /\ UNCHANGED <<sensorVars, async, op, i, lock, dataReady, irqVars, rxVars, bus, rung>>

\* txbuf is filled before the mutex is taken.
Fill(t) ==
  /\ n[t] < BufMax
  /\ Goto(t, "fill", "fill")
  /\ n' = [n EXCEPT ![t] = @ + 1]
  /\ txbuf' = [txbuf EXCEPT ![n[t] + 1] = t]
  /\ UNCHANGED <<sensorVars, async, op, i, lock, dataReady, irqVars, rxVars, bus, rung>>

\* No byte at all, or one that does not parse: -EINVAL with txbuf as it is.
FillError(t) ==
  /\ Return(t, "fill")
  /\ UNCHANGED <<sensorVars, lock, dataReady, irqVars, txVars, rxVars, bus, rung>>

FillDone(t) ==
  /\ n[t] > 0
  /\ Goto(t, "fill", "lock")
  /\ UNCHANGED <<sensorVars, op, n, i, lock, dataReady, irqVars, txVars, rxVars, bus, rung>>

RawStart(t) ==
  /\ Goto(t, "xfer", "xfin")
  /\ bus' = [by |-> t, kind |-> "raw", own |-> \A k \in 1..n[t] : txbuf[k] = t]
  /\ rxbuf' = [k \in 1..BufMax |-> IF k <= n[t] THEN "stray" ELSE rxbuf[k]]
  /\ Clocked \/ HearCommand
  /\ UNCHANGED <<op, n, i, lock, dataReady, irqVars, txVars, rxlen, rung>>

RawFinish(t) ==
  /\ Goto(t, "xfin", "unlock")
  /\ \/ /\ SpiMayFail
        /\ rxlen' = 0
        /\ UNCHANGED rxbuf
     \/ /\ rxlen' = n[t]
        /\ rxbuf' = [k \in 1..BufMax |-> IF k <= n[t] THEN "own" ELSE "stray"]
  /\ UNCHANGED <<sensorVars, op, n, i, lock, dataReady, irqVars, txVars, bus, rung>>

\* Mutant: -ENOMEM is returned with the mutex held.
TakeLengthLeak(t) ==
  /\ n' = [n EXCEPT ![t] = rxlen]
  /\ \/ Goto(t, "len", "idle")
     \/ Goto(t, "len", "copy")
  /\ UNCHANGED <<sensorVars, op, i, lock, dataReady, irqVars, txVars, rxVars, bus, rung>>

\* Reading the raw file: n = rxlen, then -ENOMEM or the bytes are formatted.
TakeLength(t) ==
  /\ n' = [n EXCEPT ![t] = rxlen]
  /\ \/ Goto(t, "len", "unlock")
     \/ Goto(t, "len", "copy")
  /\ UNCHANGED <<sensorVars, op, i, lock, dataReady, irqVars, txVars, rxVars, bus, rung>>

CopyOut(t) ==
  /\ Goto(t, "copy", "unlock")
  /\ UNCHANGED <<sensorVars, op, n, i, lock, dataReady, irqVars, txVars, rxVars, bus, rung>>

-----------------------------------------------------------------------------
(* enable and reset: the GPIO is driven without the mutex.                 *)

SetEnable(t, level) ==
  /\ "enable" \in Ops[t] /\ pc[t] = "idle"
  /\ DriveReset(level)
  /\ UNCHANGED <<threadVars, lock, dataReady, irqVars, txVars, rxVars, bus, rung>>

ResetLow(t) ==
  /\ Goto(t, "low", "high")
  /\ DriveReset(FALSE)
  /\ UNCHANGED <<op, n, i, lock, dataReady, irqVars, txVars, rxVars, bus, rung>>

ResetHigh(t) ==
  /\ Goto(t, "high", "settle")
  /\ DriveReset(TRUE)
  /\ UNCHANGED <<op, n, i, lock, dataReady, irqVars, txVars, rxVars, bus, rung>>

ResetSettled(t) ==
  /\ Return(t, "settle")
  /\ UNCHANGED <<sensorVars, lock, dataReady, irqVars, txVars, rxVars, bus, rung>>

-----------------------------------------------------------------------------
(* cstest and padprobe: one long transfer of zeros in the background, with  *)
(* the shared buffers and without the mutex.  That the sleep before they    *)
(* return outlasts the transfer is taken for granted here.                  *)

\* The registers cannot be mapped, or the pads are not where pinctrl says.
DiagAbort(t) ==
  /\ Return(t, "zero")
  /\ UNCHANGED <<sensorVars, lock, dataReady, irqVars, txVars, rxVars, bus, rung>>

DiagZero(t) ==
  /\ Goto(t, "zero", "queue")
  /\ txbuf' = [k \in 1..BufMax |-> IF k <= DiagLen THEN NoThread ELSE txbuf[k]]
  /\ UNCHANGED <<sensorVars, op, n, i, lock, dataReady, irqVars, async, rxVars, bus, rung>>

\* The result of spi_async is at most printed.
DiagQueue(t) ==
  /\ Goto(t, "queue", "drain")
  /\ async' = async \cup {t} \/ UNCHANGED async
  /\ UNCHANGED <<sensorVars, op, n, i, lock, dataReady, irqVars, txbuf, rxVars, bus, rung>>

\* The controller runs the message when no other transfer runs.
RunAsync(t) ==
  /\ t \in async
  /\ \A u \in Thread : pc[u] \notin {"rfin", "xfin"}
  /\ async' = async \ {t}
  /\ bus' = [by |-> t, kind |-> "async", own |-> TRUE]
  /\ rxbuf' = [k \in 1..BufMax |-> IF k <= DiagLen THEN "stray" ELSE rxbuf[k]]
  /\ Clocked \/ HearCommand
  /\ UNCHANGED <<threadVars, lock, dataReady, irqVars, txbuf, rxlen, rung>>

\* padprobe samples a second time if it could unfreeze the pads.
DiagAgain(t) ==
  /\ op[t] = "padprobe" /\ i[t] = 0
  /\ t \notin async
  /\ Goto(t, "drain", "queue")
  /\ i' = [i EXCEPT ![t] = 1]
  /\ UNCHANGED <<sensorVars, op, n, lock, dataReady, irqVars, txVars, rxVars, bus, rung>>

DiagDone(t) ==
  /\ t \notin async
  /\ Return(t, "drain")
  /\ UNCHANGED <<sensorVars, lock, dataReady, irqVars, txVars, rxVars, bus, rung>>

-----------------------------------------------------------------------------
(* The interrupt: level triggered, oneshot, handled in a thread.           *)

IsrEnter ==
  /\ isr = "off" /\ IrqHigh /\ ~irqMasked
  /\ isr' = "count"
  /\ UNCHANGED <<sensorVars, threadVars, lock, dataReady, irqCount, irqMasked, txVars, rxVars, bus, rung>>

IsrCount ==
  /\ isr = "count"
  /\ irqCount' = irqCount + 1
  /\ isr' = "ready"
  /\ UNCHANGED <<sensorVars, threadVars, lock, dataReady, irqMasked, txVars, rxVars, bus, rung>>

IsrReady ==
  /\ isr = "ready"
  /\ dataReady' = TRUE
  /\ rung' = rung \cup {t \in Thread : op[t] = "cmd" /\ pc[t] \in {"hdr", "body", "wait"}}
  /\ isr' = "storm"
  /\ UNCHANGED <<sensorVars, threadVars, lock, irqCount, irqMasked, txVars, rxVars, bus>>

\* Mutant: the storm is recognised one interrupt late.
IsrStormLate ==
  /\ isr = "storm"
  /\ irqMasked' = (irqMasked \/ irqCount = Storm + 1)
  /\ isr' = "off"
  /\ UNCHANGED <<sensorVars, threadVars, lock, dataReady, irqCount, txVars, rxVars, bus, rung>>

IsrStorm ==
  /\ isr = "storm"
  /\ irqMasked' = (irqMasked \/ irqCount = Storm)
  /\ isr' = "off"
  /\ UNCHANGED <<sensorVars, threadVars, lock, dataReady, irqCount, txVars, rxVars, bus, rung>>

-----------------------------------------------------------------------------
Isr == IsrEnter \/ IsrCount \/ IsrReady \/ IsrStorm

Sensor ==
  /\ Boot \/ Answer
  /\ UNCHANGED <<threadVars, lock, dataReady, irqVars, txVars, rxVars, bus, rung>>

\* What a thread does inside a system call, the mutex apart.
Step(t) ==
  \/ Release(t)
  \/ ClearReady(t) \/ SendHeader(t) \/ SendBody(t) \/ Woken(t) \/ GiveUp(t)
  \/ ReadHeader(t) \/ StartBody(t) \/ FinishBody(t)
  \/ Fill(t) \/ FillError(t) \/ FillDone(t) \/ RawStart(t) \/ RawFinish(t)
  \/ TakeLength(t) \/ CopyOut(t)
  \/ ResetLow(t) \/ ResetHigh(t) \/ ResetSettled(t)
  \/ DiagAbort(t) \/ DiagZero(t) \/ DiagQueue(t) \/ DiagAgain(t) \/ DiagDone(t)

Next ==
  \/ \E t \in Thread : (\E knob \in Knobs : Enter(t, knob)) \/ Acquire(t) \/ Step(t)
  \/ \E t \in Thread : \E level \in BOOLEAN : SetEnable(t, level)
  \/ \E t \in Thread : RunAsync(t)
  \/ Isr
  \/ Sensor

Spec == Init /\ [][Next]_vars

\* The scheduler runs every runnable thread, transfers and sleeps end, the SPI
\* core gets to every queued message, and the mutex is handed to a waiter in the
\* end (Linux mutexes hand off).  The interrupt thread runs while its line is
\* asserted and it is not masked.
Fairness ==
  /\ \A t \in Thread : WF_vars(Step(t)) /\ SF_vars(Acquire(t))
  /\ \A t \in {u \in Thread : Ops[u] \cap Diag # {}} : SF_vars(RunAsync(t))
  /\ WF_vars(Isr)

FairSpec == Spec /\ Fairness

-----------------------------------------------------------------------------
(* Properties.                                                             *)

\* Every path of cmd, raw and replay, error paths included, releases the mutex
\* exactly once and touches shared state only in between.
LockDiscipline == \A t \in Thread : lock = t <=> pc[t] \in Locked

\* Whatever knobs the threads use, no transfer of another thread comes between the
\* header and the body of a frame, in either direction ("the 4-byte header goes out
\* in its own chip-select, then a 2 ms gap, then the body in a second chip-select"),
\* but for the background transfers of cstest and padprobe, which take no mutex.
ExchangeUnbroken ==
  \A t \in Thread :
    /\ pc[t] = "body"  => bus = [by |-> t, kind |-> "hdr",  own |-> TRUE] \/ bus.kind = "async"
    /\ pc[t] = "rbody" => bus = [by |-> t, kind |-> "rhdr", own |-> TRUE] \/ bus.kind = "async"

\* A thread waiting in cmd sees data_ready exactly when the interrupt thread set
\* it since this very command cleared it: no wakeup is lost to another command's
\* clearing, none is left over from before.
WakeupExact ==
  \A t \in Thread : pc[t] = "wait" => (dataReady <=> t \in rung)

NoDiag == \A t \in Thread : Ops[t] \cap Diag = {}

\* While SPI transfers do not fail and nobody replays or runs the diagnostics,
\* a reader of raw copies only bytes of the transfer whose length it took.
ReadCoherent ==
  (~SpiMayFail /\ NoDiag /\ \A t \in Thread : "replay" \notin Ops[t]) =>
    \A t \in Thread : pc[t] = "copy" => \A k \in 1..n[t] : rxbuf[k] = "own"

\* With at most one writer of raw and no diagnostics, a raw transfer sends what
\* that writer wrote: no other knob touches txbuf.
RawSendsOwn ==
  (NoDiag /\ \A t, u \in Thread : "raw" \in Ops[t] \cap Ops[u] => t = u) => bus.own

\* The interrupt is masked by the handler's run that counted to Storm, by no
\* other, and nothing is counted after it.
MaskAtStorm ==
  /\ irqCount <= Storm
  /\ irqMasked => irqCount = Storm
  /\ isr \in {"off", "count"} /\ irqCount = Storm => irqMasked

Gate == INSTANCE StormGate WITH
          Limit <- Storm,
          count <- irqCount,
          gate  <- IF irqMasked THEN "shut" ELSE "open"

\* The interrupt handler implements a gate that counts up to Storm, shuts, and
\* never opens again.
GateSpec == Gate!Spec

\* With an interrupt thread that runs, the gate does shut after Storm interrupts.
GateShuts == Gate!Shuts

\* The reset knob pulses: when it returns the MCU is out of reset.
ResetReleases ==
  [][\A t \in Thread : pc[t] = "settle" /\ pc'[t] = "idle" => mcu # "held"]_vars

\* A raw transfer sends what its writer wrote, also with several writers.
RawSendsWritten == bus.own

\* Every system call returns: no path waits for an interrupt, a reply or a
\* mutex for ever, also when the interrupt is masked and the sensor is silent.
CallsReturn == \A t \in Thread : pc[t] # "idle" ~> pc[t] = "idle"

=============================================================================
