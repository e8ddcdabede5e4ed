------------------------------- MODULE CsWatch -------------------------------
(***************************************************************************)
(* tools/cswatch.py on the bus of SpiSnoop: it reads bit 1 of the pads'    *)
(* PADCFG0 from pinctrl, first on an idle bus, then between transfers of   *)
(* its own, and concludes whether the bit follows the pin and whether the  *)
(* chip select ever was high.  The pad "data" stands for CLK, MISO and     *)
(* MOSI.  Others may use the bus meanwhile; the script and a reader of     *)
(* spisnoop's file run one at a time.                                      *)
(***************************************************************************)
EXTENDS SpiSnoop

CONSTANT Reads   \* samples in each of the three rounds: 200

ASSUME ReadsAssumption == Reads \in Nat \ {0}

VARIABLES
  live,    \* whether bit 1 follows the pin on pads in native mode
  round,   \* "off", the round of samples, "judge", or "told" when it has concluded
  turn,    \* within a round: "transfer", "clocking", "read"
  taken,   \* samples of this round
  seen,    \* the levels counted in each round, "none" for an unreadable pad
  says,    \* the last conclusion printed
  idleCs   \* history: in the first two rounds the chip select was read on an idle bus

watchVars == <<live, round, turn, taken, seen, says, idleCs>>
busVars   == <<vars, watchVars>>

Pads   == {"cs", "data"}
Rounds == {"idle", "big", "small"}

NothingSeen == [r \in Rounds |-> [p \in Pads |-> {}]]

WatchInit ==
  /\ live \in BOOLEAN
  /\ round = "off" /\ turn = "read" /\ taken = 0
  /\ seen = NothingSeen
  /\ says = "nothing"
  /\ idleCs = FALSE

-----------------------------------------------------------------------------
StartWatch ==
  /\ round = "off"
  /\ round' = "idle"
  /\ UNCHANGED <<vars, live, turn, taken, seen, says, idleCs>>

\* Spi(...) may fail, and the rounds with transfers are left out.
AfterRound ==
  CASE round = "idle"  -> {"big", "judge"}
    [] round = "big"   -> {"small"}
    [] round = "small" -> {"judge"}

\* The transfer is over before the pads are read; one that fails is ignored.
Transfer ==
  /\ round \in {"big", "small"}
  /\ \/ turn = "transfer" /\ ctl = "idle" /\ Controller /\ turn' = "clocking"
     \/ turn = "transfer" /\ UNCHANGED vars /\ turn' = "read"
     \/ turn = "clocking" /\ Controller /\ turn' = "read"
  /\ UNCHANGED <<live, round, taken, seen, says, idleCs>>

\* What bit 1 reads: the level of the pin, or what it read when it was measured.
Bits ==
  IF live THEN {[cs |-> Cs(ctl), data |-> level] : level \in Level}
  ELSE {[cs |-> "low", data |-> "high"]}

\* Pinctrl's file may not open; its pads are counted as well, as None.
ReadPads ==
  /\ round \in Rounds /\ turn = "read" /\ taken < Reads
  /\ \E bits \in Bits, missing \in {{}, Pads} :
       /\ seen' = [seen EXCEPT ![round] = [p \in Pads |->
                     @[p] \cup {IF p \in missing THEN "none" ELSE bits[p]}]]
       /\ idleCs' = (idleCs \/ (round # "small" /\ ctl = "idle" /\ "cs" \notin missing))
  /\ taken' = taken + 1
  /\ turn' = IF round = "idle" THEN "read" ELSE "transfer"
  /\ UNCHANGED <<vars, live, round, says>>

EndRound ==
  /\ round \in Rounds /\ turn # "clocking" /\ taken = Reads
  /\ \E next \in AfterRound :
       round' = next /\ turn' = IF next = "judge" THEN "read" ELSE "transfer"
  /\ taken' = 0
  /\ UNCHANGED <<vars, live, seen, says, idleCs>>

Values(p) == UNION {seen[r][p] : r \in Rounds}

\* Mutant: a pad that could not be read counts as another level.
MovedOrMissing == {p \in Pads : \E v, w \in Values(p) : v # w}

Moved == {p \in Pads : \E v, w \in Values(p) \ {"none"} : v # w}

\* Mutant: the idle round is forgotten.
HighInTransfers == "high" \in seen["big"]["cs"]

\* The third round is not looked at.
CsHigh == "high" \in seen["idle"]["cs"] \cup seen["big"]["cs"]

Conclude ==
  /\ round = "judge"
  /\ says' = IF Moved = {} THEN "dead" ELSE IF CsHigh THEN "live" ELSE "never high"
  /\ round' = "told"
  /\ UNCHANGED <<vars, live, turn, taken, seen, idleCs>>

\* The process is gone, and what it counted with it.
Exit ==
  /\ round = "told"
  /\ round' = "off" /\ turn' = "read" /\ taken' = 0
  /\ seen' = NothingSeen /\ says' = "nothing" /\ idleCs' = FALSE
  /\ UNCHANGED <<vars, live>>

CsWatchStep == StartWatch \/ Transfer \/ ReadPads \/ EndRound \/ Conclude \/ Exit

-----------------------------------------------------------------------------
BusInit == Init /\ WatchInit

Others == turn # "clocking" /\ Controller /\ UNCHANGED watchVars

Snap ==
  /\ round = "off"
  /\ Abort \/ Baseline \/ ReadCs \/ ReadSscr0 \/ ReadSssr \/ Tally \/ Judge \/ Again
  /\ UNCHANGED watchVars

BusNext == Others \/ Snap \/ (pc = "open" /\ CsWatchStep)

BusSpec == BusInit /\ [][BusNext]_busVars

-----------------------------------------------------------------------------
\* "the bit IS live on native pads" is printed only if it is: a pad that could not
\* be read in some samples does not count as one that moved.
LiveIsLive == says \in {"live", "never high"} => live

\* "CS NEVER READ HIGH" is printed only about a chip select that is stuck low, or
\* that was never read on an idle bus in the first two rounds.
NeverHighIsStuck == says = "never high" /\ idleCs => wiring = "stuck"

=============================================================================
