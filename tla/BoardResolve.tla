---------------------------- MODULE BoardResolve ----------------------------
(***************************************************************************)
(* Board discovery (tools/board.py): look up the sensor's spidev node in   *)
(* sysfs, then pick its gpiochip, its reset line and its interrupt line    *)
(* from the pads that pinctrl prints.                                      *)
(*                                                                         *)
(* A device of the SPI bus is whether its name holds GXFP, and the node it *)
(* gets when spidev binds it; devices are numbered in the order of their   *)
(* names. Other programs may bind and unbind devices during the lookup. A  *)
(* pad is its GPIO line and controller (None when pinctrl prints neither), *)
(* whether it is owned by ACPI and in GPIO mode, and the set bits of       *)
(* PADCFG0 that are looked at; a pad printed as "not available" has none.  *)
(***************************************************************************)
EXTENDS Integers

CONSTANTS
  DeviceTables, \* the devices a machine's SPI bus may have
  Boards,       \* what pinctrl may print: sequences of pads, one per line
  ChipTables,   \* the label of each gpiochip
  ResetArgs, IrqArgs, SpidevArgs,  \* overrides a caller gives, None among them
  DefReset, DefIrq,                \* the lines the known boards use, 264 and 48
  MaxRebinds,   \* bound: devices bound or unbound by others in the meantime
  None, Text    \* nothing given; something given that is not a number

ASSUME BoardsAssumption == \A board \in Boards : DOMAIN board \subseteq Nat

ASSUME DevicesAssumption ==
  \A table \in DeviceTables :
    DOMAIN table \subseteq Nat /\ \A k \in DOMAIN table : table[k].node # None

VARIABLES
  pc,        \* the next thing resolve() does; "done" and the exceptions end it
  devices,   \* the machine's SPI devices
  bound,     \* those spidev is bound to
  steady,    \* history: those it was bound to since the call
  rebinds,   \* how often others changed that
  dev,       \* the device find_sensor_device returned
  listed,    \* what is left of the devices whose nodes the fallback globbed
  chips,     \* the machine's gpiochips
  pads,      \* what read_pads returned
  args,      \* the overrides, and quiet
  spidev, chip, reset, irq,  \* what is picked
  flagged    \* the lines a warning was printed for: "reset", "irq"

machine == <<devices, chips, args>>
lookup  == <<bound, steady, rebinds, dev, listed>>
vars == <<machine, lookup, pc, pads, spidev, chip, reset, irq, flagged>>

Unavailable == {"unavailable"}

-----------------------------------------------------------------------------
(* Pads.                                                                   *)

IsOutput(pad) == pad.cfg # Unavailable /\ "txdis" \notin pad.cfg
IsInput(pad) == pad.cfg # Unavailable /\ "rxdis" \notin pad.cfg
RoutedToIoxapic(pad) == pad.cfg # Unavailable /\ "ioxapic" \in pad.cfg

Usable(pad) == ~pad.acpi /\ pad.line # None /\ pad.cfg # Unavailable /\ pad.gpio

\* The candidates are positions in the board's list, which is in pin order.
ResetCandidates ==
  {k \in DOMAIN pads : Usable(pads[k]) /\ IsOutput(pads[k]) /\ ~IsInput(pads[k])}

\* Mutant: any host-owned input will do.
IrqCandidatesUnrouted == {k \in DOMAIN pads : Usable(pads[k]) /\ IsInput(pads[k])}

IrqCandidates ==
  {k \in DOMAIN pads : Usable(pads[k]) /\ IsInput(pads[k]) /\ RoutedToIoxapic(pads[k])}

Listed(board, line) == line # None /\ \E k \in DOMAIN board : board[k].line = line
At(board, line)     == CHOOSE k \in DOMAIN board : board[k].line = line
Pad(line)           == pads[At(pads, line)]

First(candidates) == CHOOSE k \in candidates : \A l \in candidates : k <= l

FirstLine(candidates) == IF candidates = {} THEN None ELSE pads[First(candidates)].line

-----------------------------------------------------------------------------
(* find_spidev().                                                          *)

Init ==
  /\ devices \in DeviceTables /\ chips \in ChipTables
  /\ args \in [spidev : SpidevArgs, reset : ResetArgs, irq : IrqArgs, quiet : BOOLEAN]
  /\ bound \in SUBSET DOMAIN devices /\ steady = bound /\ rebinds = 0
  /\ pc = IF args.spidev = None THEN "device" ELSE "numbers"
  /\ dev = None /\ listed = {} /\ pads = <<>>
  /\ spidev = args.spidev
  /\ chip = None /\ reset = None /\ irq = None
  /\ flagged = {}

LookupSteps == {"device", "list", "glob", "paths"}

\* Somebody else binds or unbinds spidev.
Rebind(k) ==
  /\ pc \in LookupSteps /\ rebinds < MaxRebinds
  /\ bound' = IF k \in bound THEN bound \ {k} ELSE bound \cup {k}
  /\ steady' = steady \ {k}
  /\ rebinds' = rebinds + 1
  /\ UNCHANGED <<machine, dev, listed, pc, pads, spidev, chip, reset, irq, flagged>>

Sensors == {k \in DOMAIN devices : devices[k].gxfp}

\* The first device named after the sensor, and whether it has a spidev directory.
FindDevice ==
  /\ pc = "device"
  /\ dev' = IF Sensors = {} THEN None ELSE First(Sensors)
  /\ pc' = IF dev' # None /\ dev' \in bound THEN "list" ELSE "glob"
  /\ UNCHANGED <<machine, bound, steady, rebinds, listed, pads, spidev, chip, reset, irq, flagged>>

\* listdir raises if the device was unbound since.
ListDirectory ==
  /\ pc = "list"
  /\ IF dev \in bound
     THEN spidev' = devices[dev].node /\ pc' = "numbers"
     ELSE spidev' = spidev /\ pc' = "FileNotFoundError"
  /\ UNCHANGED <<machine, lookup, pads, chip, reset, irq, flagged>>

GlobNodes ==
  /\ pc = "glob"
  /\ listed' = bound
  /\ pc' = "paths"
  /\ UNCHANGED <<machine, bound, steady, rebinds, dev, pads, spidev, chip, reset, irq, flagged>>

\* Mutant: the node exists, so it will do.
IsSensorPathAny(k) == k \in bound

\* A node that is gone resolves to its own name, which has no GXFP in it.
IsSensorPath(k) == k \in bound /\ devices[k].gxfp

\* glob returns the nodes in no particular order.
TryNode(k) ==
  /\ pc = "paths"
  /\ listed' = listed \ {k}
  /\ IF IsSensorPath(k)
     THEN spidev' = devices[k].node /\ pc' = "numbers"
     ELSE spidev' = spidev /\ pc' = "paths"
  /\ UNCHANGED <<machine, bound, steady, rebinds, dev, pads, chip, reset, irq, flagged>>

NoNode ==
  /\ pc = "paths" /\ listed = {}
  /\ pc' = "numbers"
  /\ UNCHANGED <<machine, lookup, pads, spidev, chip, reset, irq, flagged>>

-----------------------------------------------------------------------------
(* resolve(), once it has a node or none.                                  *)

\* int() of an override that is not a number.
BadNumber ==
  /\ pc = "numbers" /\ Text \in {args.reset, args.irq}
  /\ pc' = "ValueError"
  /\ UNCHANGED <<machine, lookup, pads, spidev, chip, reset, irq, flagged>>

\* The gpiochip is looked up by the controller of the first pad printed.
ChipOf(board) ==
  LET labelled == {n \in DOMAIN chips : chips[n] = board[First(DOMAIN board)].chip}
  IN  IF DOMAIN board = {} \/ board[First(DOMAIN board)].chip = None \/ labelled = {}
      THEN 0 ELSE CHOOSE n \in labelled : TRUE

ReadPads ==
  /\ pc = "numbers" /\ Text \notin {args.reset, args.irq}
  /\ pads' \in Boards
  /\ chip' = ChipOf(pads')
  /\ pc' = "reset"
  /\ UNCHANGED <<machine, lookup, spidev, reset, irq, flagged>>

\* say() prints nothing when the caller asked for quiet.
Warned(what) == IF args.quiet THEN {} ELSE {what}

\* Mutant: a line of the known boards is taken without a look at its pad.
PickResetBlind ==
  /\ pc = "reset"
  /\ reset' = IF args.reset # None THEN args.reset
              ELSE IF Listed(pads, DefReset) THEN DefReset
              ELSE FirstLine(ResetCandidates)
  /\ pc' = "irq"
  /\ UNCHANGED <<machine, lookup, pads, spidev, chip, irq, flagged>>

\* The line of the known boards wins unless ACPI owns its pad; the report prints
\* the picked pad's PADCFG0, which raises when it has none, quiet or not.
PickReset ==
  /\ pc = "reset"
  /\ reset' = IF args.reset # None THEN args.reset
              ELSE IF Listed(pads, DefReset) /\ ~Pad(DefReset).acpi THEN DefReset
              ELSE FirstLine(ResetCandidates)
  /\ IF reset' = None \/ ~Listed(pads, reset')
     THEN pc' = "irq" /\ flagged' = flagged \cup Warned("reset")
     ELSE /\ pc' = IF Pad(reset').cfg = Unavailable THEN "TypeError" ELSE "irq"
          /\ flagged' = IF IsOutput(Pad(reset')) /\ ~Pad(reset').acpi
                        THEN flagged ELSE flagged \cup Warned("reset")
  /\ UNCHANGED <<machine, lookup, pads, spidev, chip, irq>>

PickIrq ==
  /\ pc = "irq"
  /\ irq' = IF args.irq # None THEN args.irq
            ELSE IF Listed(pads, DefIrq) /\ At(pads, DefIrq) \in IrqCandidates THEN DefIrq
            ELSE FirstLine(IrqCandidates)
  /\ IF irq' = None \/ ~Listed(pads, irq')
     THEN pc' = "done" /\ flagged' = flagged \cup Warned("irq")
     ELSE /\ pc' = IF Pad(irq').cfg = Unavailable THEN "TypeError" ELSE "done"
          /\ flagged' = IF At(pads, irq') \in IrqCandidates
                        THEN flagged ELSE flagged \cup Warned("irq")
  /\ UNCHANGED <<machine, lookup, pads, spidev, chip, reset>>

Next ==
  \/ \E k \in DOMAIN devices : Rebind(k)
  \/ FindDevice \/ ListDirectory \/ GlobNodes \/ NoNode
  \/ \E k \in listed : TryNode(k)
  \/ BadNumber \/ ReadPads \/ PickReset \/ PickIrq

Spec == Init /\ [][Next]_vars

-----------------------------------------------------------------------------
(* Properties.                                                             *)

\* A line the rule of FIRST-CONTACT.md names: not owned by ACPI, an output.
HostOutput(line) == Listed(pads, line) /\ ~Pad(line).acpi /\ IsOutput(Pad(line))

\* Without an override the interrupt line is a host-owned input routed to the
\* IOxAPIC, and there is one whenever the board has one: a wrong pick would have
\* the tools poll a line that never moves.
IrqSound ==
  pc = "done" /\ args.irq = None =>
    LET fits(k) == /\ ~pads[k].acpi /\ pads[k].gpio /\ pads[k].line # None
                   /\ "ioxapic" \in pads[k].cfg /\ "rxdis" \notin pads[k].cfg
    IN  /\ irq # None => \E k \in DOMAIN pads : pads[k].line = irq /\ fits(k)
        /\ irq = None => \A k \in DOMAIN pads : ~fits(k)

\* Unless the caller asked for quiet, a reset line that is not a host-owned output
\* is never returned in silence, by discovery or by override; and none is returned
\* only if the board has no output for it: driving another pad is what the warning
\* is there to prevent.
ResetFlagged ==
  pc \in {"irq", "done"} =>
    /\ ~args.quiet /\ "reset" \notin flagged => HostOutput(reset)
    /\ reset = None =>
         \A k \in DOMAIN pads :
           ~(Usable(pads[k]) /\ IsOutput(pads[k]) /\ ~IsInput(pads[k]))

\* Whatever is bound and unbound while it looks, by the directory or by the
\* fallback, discovery never returns the node of another device (on the second
\* known board spidev1.0 is the BIOS flash), and it returns none only if no sensor
\* had a node all along.
SpidevIsSensor ==
  pc = "numbers" /\ args.spidev = None =>
    /\ spidev # None => \E k \in Sensors : devices[k].node = spidev
    /\ spidev = None => steady \cap Sensors = {}

\* resolve() returns: what is not given "is discovered and sanity-checked, with
\* warnings".
ResolveReturns == args.reset = None /\ args.irq = None => pc # "TypeError"

=============================================================================
