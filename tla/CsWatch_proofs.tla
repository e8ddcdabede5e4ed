--------------------------- MODULE CsWatch_proofs ---------------------------
(***************************************************************************)
(* What tools/cswatch.py concludes is right for every number of samples,   *)
(* whatever else the bus does.                                             *)
(***************************************************************************)
EXTENDS CsWatch, TLAPS

SeenType == seen \in [Rounds -> [Pads -> SUBSET (Level \cup {"none"})]]

\* A bit that does not follow its pin shows one level in every sample.
DeadIsConstant ==
  ~live => \A r \in Rounds : /\ seen[r]["cs"] \subseteq {"low", "none"}
                             /\ seen[r]["data"] \subseteq {"high", "none"}

\* A live bit of a chip select that is not stuck was seen high on the idle bus.
IdleWasHigh == live /\ wiring # "stuck" /\ idleCs => CsHigh

Told == says = "never high" => Moved # {} /\ ~CsHigh
ToldLive == says = "live" => Moved # {}

WatchInv == SeenType /\ DeadIsConstant /\ IdleWasHigh /\ Told /\ ToldLive

\* Only a round of samples changes what was seen: steps of others keep the rest.
LEMMA KeepsWatch ==
  ASSUME WatchInv, UNCHANGED <<live, seen, says, idleCs, wiring>>
  PROVE  WatchInv'
<1>2. Moved' = Moved /\ CsHigh' = CsHigh
  BY DEF Moved, Values, CsHigh
<1>3. SeenType' /\ DeadIsConstant'
  BY DEF WatchInv, SeenType, DeadIsConstant
<1>4. IdleWasHigh' /\ Told' /\ ToldLive'
  BY <1>2 DEF WatchInv, IdleWasHigh, Told, ToldLive
<1> QED BY <1>3, <1>4 DEF WatchInv

\* No step moves the wiring.
LEMMA WiringFixed ==
  ASSUME BusNext
  PROVE  UNCHANGED wiring
  BY DEF BusNext, Others, Snap, CsWatchStep, StartWatch, Transfer, ReadPads, EndRound,
         Conclude, Exit, Controller, Abort, Baseline, ReadCs, ReadSscr0, ReadSssr, Tally,
         Judge, Again, vars

\* A dead bit does not move.
LEMMA MovedIsLive ==
  ASSUME SeenType, DeadIsConstant, Moved # {}
  PROVE  live
<1> SUFFICES ASSUME ~live PROVE FALSE
  OBVIOUS
<1>1. PICK p \in Pads : \E v, w \in Values(p) \ {"none"} : v # w
  BY DEF Moved
<1>2. Values("cs") \subseteq {"low", "none"} /\ Values("data") \subseteq {"high", "none"}
  BY DEF DeadIsConstant, Values, Rounds
<1> QED BY <1>1, <1>2 DEF Pads

\* A sample keeps the invariant: this is where the two facts about bits come from.
LEMMA SampleKeeps ==
  ASSUME WatchInv, ReadPads, says = "nothing"
  PROVE  WatchInv'
<1>1. PICK bits \in Bits, missing \in {{}, Pads} :
         /\ seen' = [seen EXCEPT ![round] = [p \in Pads |->
                       @[p] \cup {IF p \in missing THEN "none" ELSE bits[p]}]]
         /\ idleCs' = (idleCs \/ (round # "small" /\ ctl = "idle" /\ "cs" \notin missing))
  BY Zenon DEF ReadPads
<1>2. /\ round \in Rounds /\ says' = says /\ live' = live /\ wiring' = wiring
  BY DEF ReadPads, vars
<1>3. /\ bits["cs"] \in Level /\ bits["data"] \in Level
      /\ live => bits["cs"] = Cs(ctl)
      /\ ~live => bits["cs"] = "low" /\ bits["data"] = "high"
  BY DEF Bits, Cs, Level
<1> DEFINE new(p) == IF p \in missing THEN "none" ELSE bits[p]
<1>4. seen' \in [Rounds -> [Pads -> SUBSET (Level \cup {"none"})]]
      /\ \A r \in Rounds, p \in Pads :
           seen'[r][p] = IF r = round THEN seen[r][p] \cup {new(p)} ELSE seen[r][p]
  <2>1. \A p \in Pads : new(p) \in Level \cup {"none"}
    BY <1>3 DEF Pads
  <2> HIDE DEF new
  <2>2. seen' = [seen EXCEPT ![round] = [p \in Pads |-> seen[round][p] \cup {new(p)}]]
    BY <1>1 DEF new
  <2> QED BY <2>1, <2>2, <1>2 DEF WatchInv, SeenType
<1> "cs" \in Pads /\ "data" \in Pads /\ {"idle", "big"} \subseteq Rounds
  BY DEF Pads, Rounds
<1>5. DeadIsConstant'
  <2> SUFFICES ASSUME ~live, NEW r \in Rounds
               PROVE  /\ seen'[r]["cs"] \subseteq {"low", "none"}
                      /\ seen'[r]["data"] \subseteq {"high", "none"}
    BY <1>2 DEF DeadIsConstant
  <2>1. new("cs") \in {"low", "none"} /\ new("data") \in {"high", "none"}
    BY <1>3
  <2>2. seen[r]["cs"] \subseteq {"low", "none"} /\ seen[r]["data"] \subseteq {"high", "none"}
    BY DEF WatchInv, DeadIsConstant
  <2> HIDE DEF new
  <2>3. \A p \in Pads : seen'[r][p] \subseteq seen[r][p] \cup {new(p)}
    BY <1>4
  <2>4. /\ seen'[r]["cs"] \subseteq seen[r]["cs"] \cup {new("cs")}
        /\ seen'[r]["data"] \subseteq seen[r]["data"] \cup {new("data")}
    BY <2>3, Zenon
  <2> QED BY <2>1, <2>2, <2>4
<1>6. IdleWasHigh'
  <2> SUFFICES ASSUME live, wiring # "stuck", idleCs' PROVE CsHigh'
    BY <1>2 DEF IdleWasHigh
  <2>1. CASE idleCs
    <3>1. CsHigh
      BY <2>1 DEF WatchInv, IdleWasHigh
    <3>2. seen["idle"]["cs"] \subseteq seen'["idle"]["cs"]
          /\ seen["big"]["cs"] \subseteq seen'["big"]["cs"]
      BY <1>4
    <3> QED BY <3>1, <3>2 DEF CsHigh
  <2>2. CASE ~idleCs
    <3>1. round \in {"idle", "big"} /\ ctl = "idle" /\ "cs" \notin missing
      BY <2>2, <1>1, <1>2 DEF Rounds
    <3>2. new("cs") = "high"
      BY <3>1, <1>3 DEF Cs
    <3> QED BY <3>1, <3>2, <1>4 DEF CsHigh
  <2> QED BY <2>1, <2>2
<1> QED BY <1>2, <1>4, <1>5, <1>6 DEF WatchInv, SeenType, Told, ToldLive

\* Before the conclusion nothing is printed.
Silent == says # "nothing" => round = "told"

LEMMA WatchStep ==
  ASSUME WatchInv, Silent, [BusNext]_busVars
  PROVE  WatchInv' /\ Silent'
<1>1. CASE UNCHANGED busVars
  <2>1. UNCHANGED <<live, seen, says, idleCs, wiring, round>>
    BY <1>1 DEF busVars, watchVars, vars
  <2> QED BY <2>1, KeepsWatch DEF Silent
<1>2. CASE Others \/ Snap
  <2>1. UNCHANGED <<live, seen, says, idleCs, wiring, round>>
    <3>1. UNCHANGED watchVars
      BY <1>2, Zenon DEF Others, Snap
    <3>2. UNCHANGED wiring
      BY <1>2, WiringFixed DEF BusNext
    <3> QED BY <3>1, <3>2 DEF watchVars
  <2> QED BY <2>1, KeepsWatch DEF Silent
<1>3. CASE StartWatch \/ Transfer \/ EndRound
  <2>1. UNCHANGED <<live, seen, says, idleCs>>
    BY <1>3 DEF StartWatch, Transfer, EndRound
  <2>2. round # "told"
    BY <1>3 DEF StartWatch, Transfer, EndRound, Rounds
  <2>3. UNCHANGED wiring
    BY <1>3 DEF StartWatch, Transfer, EndRound, Controller, vars
  <2>4. WatchInv'
    BY <2>1, <2>3, KeepsWatch
  <2> QED BY <2>1, <2>2, <2>4 DEF Silent
<1>4. CASE ReadPads
  <2>1. says = "nothing" /\ UNCHANGED <<says, round>>
    BY <1>4 DEF Silent, ReadPads, Rounds
  <2> QED BY <1>4, <2>1, SampleKeeps DEF Silent
<1>5. CASE Conclude
  <2>1. UNCHANGED <<live, seen, idleCs, wiring>> /\ round' = "told"
    BY <1>5 DEF Conclude, vars
  <2>2. says' = IF Moved = {} THEN "dead" ELSE IF CsHigh THEN "live" ELSE "never high"
    BY <1>5 DEF Conclude
  <2>3. /\ Moved' = Moved /\ CsHigh' = CsHigh
    BY <2>1 DEF Moved, Values, CsHigh
  <2> QED BY <2>1, <2>2, <2>3 DEF WatchInv, SeenType, DeadIsConstant, IdleWasHigh, Told,
            ToldLive, Silent
<1>6. CASE Exit
  <2>1. /\ seen' = NothingSeen /\ says' = "nothing" /\ idleCs' = FALSE /\ live' = live
    BY <1>6 DEF Exit
  <2> QED BY <2>1 DEF WatchInv, SeenType, DeadIsConstant, IdleWasHigh, Told, ToldLive,
            Silent, NothingSeen, Pads
<1> QED BY <1>1, <1>2, <1>3, <1>4, <1>5, <1>6 DEF BusNext, CsWatchStep

LEMMA WatchAlways == BusSpec => [](WatchInv /\ Silent)
<1>1. BusInit => WatchInv /\ Silent
  BY DEF BusInit, WatchInit, WatchInv, SeenType, DeadIsConstant, IdleWasHigh, Told,
     ToldLive, Silent, NothingSeen, Pads
<1> QED BY <1>1, WatchStep, PTL DEF BusSpec

\* What is printed as a live bit is one (main).
THEOREM LiveIsRight == BusSpec => []LiveIsLive
<1>1. WatchInv => LiveIsLive
  BY MovedIsLive DEF WatchInv, Told, ToldLive, LiveIsLive
<1> QED BY <1>1, WatchAlways, PTL

\* A chip select printed as never high is stuck low, if it was read on an idle bus
\* in one of the two rounds that are looked at (main).
THEOREM StuckIsRight == BusSpec => []NeverHighIsStuck
<1>1. WatchInv => NeverHighIsStuck
  BY MovedIsLive DEF WatchInv, Told, IdleWasHigh, NeverHighIsStuck
<1> QED BY <1>1, WatchAlways, PTL

\* The bus with cswatch.py on it is one spisnoop was verified on: a step of the script
\* is a transfer or leaves spisnoop's variables alone, so what SpiSnoop_proofs shows
\* of the event table and the verdicts holds while the script runs (snap_show, main).
THEOREM BusIsSnooped == BusSpec => Spec
<1>1. BusInit => Init
  BY DEF BusInit
<1>2. [BusNext]_busVars => [Next]_vars
  <2> SUFFICES ASSUME [BusNext]_busVars PROVE [Next]_vars
    OBVIOUS
  <2>1. CASE UNCHANGED busVars
    BY <2>1 DEF busVars
  <2>2. CASE Others \/ Snap
    BY <2>2 DEF Others, Snap, Next
  <2>3. CASE Transfer
    BY <2>3 DEF Transfer, Next
  <2>4. CASE StartWatch \/ ReadPads \/ EndRound \/ Conclude \/ Exit
    BY <2>4 DEF StartWatch, ReadPads, EndRound, Conclude, Exit
  <2> QED BY <2>1, <2>2, <2>3, <2>4 DEF BusNext, CsWatchStep
<1> QED BY <1>1, <1>2, PTL DEF BusSpec, Spec
=============================================================================
