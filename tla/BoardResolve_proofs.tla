------------------------- MODULE BoardResolve_proofs -------------------------
(***************************************************************************)
(* What board discovery returns, for every list of pads, every table of    *)
(* SPI devices, however they are bound and unbound meanwhile, every        *)
(* override, and whatever the lines of the known boards are.               *)
(***************************************************************************)
EXTENDS BoardResolve, WellFoundedInduction, TLAPS

-----------------------------------------------------------------------------
(* Positions in a board's list.                                            *)

LEMMA AtListed ==
  ASSUME NEW board, NEW l, Listed(board, l)
  PROVE  At(board, l) \in DOMAIN board /\ board[At(board, l)].line = l
BY DEF Listed, At

\* A set of positions that is not empty has a first one.
LEMMA FirstIsMember ==
  ASSUME NEW S, S \subseteq Nat, S # {}
  PROVE  First(S) \in S
<1>1. PICK k \in S : \A l \in S : <<l, k>> \notin OpToRel(<, Nat)
  BY WFMin, NatLessThanWellFounded, Zenon
<1>2. \A l \in S : ~(l < k)
  BY <1>1, Zenon DEF OpToRel
<1>3. \A l \in S : k <= l
  BY <1>2
<1> QED
  BY <1>3, Zenon DEF First

\* The line of the first candidate is a candidate's, and None only if there is none.
LEMMA FirstLineFits ==
  ASSUME pads \in Boards, NEW S, S \subseteq DOMAIN pads, \A k \in S : pads[k].line # None
  PROVE  /\ FirstLine(S) # None => \E k \in S : pads[k].line = FirstLine(S)
         /\ FirstLine(S) = None => S = {}
<1>1. S \subseteq Nat
  BY BoardsAssumption
<1>2. CASE S = {}
  BY <1>2 DEF FirstLine
<1>3. CASE S # {}
  <2>1. First(S) \in S
    BY <1>1, <1>3, FirstIsMember
  <2> QED
    BY <1>1, <1>3, <2>1 DEF FirstLine
<1> QED
  BY <1>2, <1>3

LEMMA ListedIsNotNone ==
  ASSUME NEW l, Listed(pads, l)
  PROVE  l # None
BY DEF Listed

LEMMA CandidatesArePositions ==
  /\ ResetCandidates \subseteq DOMAIN pads /\ IrqCandidates \subseteq DOMAIN pads
  /\ \A k \in ResetCandidates \cup IrqCandidates : pads[k].line # None
BY DEF ResetCandidates, IrqCandidates, Usable

\* The SPI devices, and once they are read the pads, are a machine's.
BoardInv == devices \in DeviceTables /\ (pc \in {"reset", "irq", "done"} => pads \in Boards)

LEMMA BoardCorrect == Spec => []BoardInv
<1>1. Init => BoardInv
  BY DEF Init, BoardInv
<1>2. BoardInv /\ [Next]_vars => BoardInv'
  <2> SUFFICES ASSUME BoardInv, [Next]_vars PROVE BoardInv'
    OBVIOUS
  <2>1. CASE \E k \in DOMAIN devices : Rebind(k)
    BY <2>1 DEF BoardInv, Rebind, machine
  <2>2. CASE FindDevice \/ ListDirectory \/ GlobNodes \/ NoNode
    BY <2>2 DEF BoardInv, FindDevice, ListDirectory, GlobNodes, NoNode, machine
  <2>3. CASE \E k \in listed : TryNode(k)
    BY <2>3 DEF BoardInv, TryNode, machine
  <2>4. CASE BadNumber \/ ReadPads \/ PickReset \/ PickIrq
    BY <2>4 DEF BoardInv, BadNumber, ReadPads, PickReset, PickIrq, machine
  <2>5. CASE UNCHANGED vars
    BY <2>5 DEF BoardInv, vars, machine
  <2> QED
    BY <2>1, <2>2, <2>3, <2>4, <2>5 DEF Next
<1> QED
  BY <1>1, <1>2, PTL DEF Spec

-----------------------------------------------------------------------------
(* The node.                                                               *)

\* What the lookup knows: a device bound all along is bound now, the directory it
\* reads is a sensor's, and no sensor bound all along has been passed over.
LookupInv ==
  /\ steady \subseteq bound /\ bound \subseteq DOMAIN devices
  /\ pc \in LookupSteps => spidev = None
  /\ pc = "list" => dev \in Sensors
  /\ pc = "paths" => steady \cap Sensors \subseteq listed
  /\ SpidevIsSensor

LEMMA LookupRebinds ==
  ASSUME LookupInv, NEW k \in DOMAIN devices, Rebind(k)
  PROVE  LookupInv'
<1>1. UNCHANGED <<devices, pc, spidev, dev, listed>> /\ pc \in LookupSteps
  BY DEF Rebind, machine
<1>2. steady' \subseteq steady /\ steady' \subseteq bound' /\ bound' \subseteq DOMAIN devices
  BY DEF Rebind, LookupInv
<1> QED
  BY <1>1, <1>2 DEF LookupInv, Sensors, SpidevIsSensor, LookupSteps

LEMMA LookupSearches ==
  ASSUME BoardInv, LookupInv, FindDevice \/ ListDirectory \/ GlobNodes \/ NoNode
  PROVE  LookupInv'
<1> USE DEF LookupInv
<1>0. UNCHANGED <<devices, args, bound, steady>> /\ Sensors' = Sensors
  BY DEF FindDevice, ListDirectory, GlobNodes, NoNode, machine, lookup, Sensors
<1>1. CASE FindDevice
  <2>1. Sensors \subseteq Nat
    BY DevicesAssumption DEF BoardInv, Sensors
  <2>2. pc' \in {"list", "glob"} /\ spidev' = None
    BY <1>1 DEF FindDevice, LookupSteps
  <2>3. pc' = "list" => dev' \in Sensors
    BY <1>1, <2>1, FirstIsMember DEF FindDevice
  <2> QED
    BY <1>0, <2>2, <2>3 DEF SpidevIsSensor
<1>2. CASE ListDirectory
  <2>1. CASE dev \in bound
    <3>1. dev \in Sensors /\ spidev' = devices[dev].node /\ pc' = "numbers"
      BY <1>2, <2>1 DEF ListDirectory
    <3>2. devices[dev].node # None
      BY <3>1, DevicesAssumption DEF BoardInv, Sensors
    <3> QED
      BY <1>0, <3>1, <3>2 DEF SpidevIsSensor, LookupSteps
  <2>2. CASE dev \notin bound
    <3>1. pc' = "FileNotFoundError"
      BY <1>2, <2>2 DEF ListDirectory
    <3> QED
      BY <1>0, <3>1 DEF SpidevIsSensor, LookupSteps
  <2> QED
    BY <2>1, <2>2
<1>3. CASE GlobNodes
  <2>1. pc' = "paths" /\ listed' = bound /\ spidev' = None
    BY <1>3 DEF GlobNodes, LookupSteps
  <2> QED
    BY <1>0, <2>1 DEF SpidevIsSensor
<1>4. CASE NoNode
  <2>1. pc' = "numbers" /\ spidev' = None /\ steady \cap Sensors = {}
    BY <1>4 DEF NoNode, LookupSteps
  <2> QED
    BY <1>0, <2>1 DEF SpidevIsSensor, LookupSteps
<1> QED
  BY <1>1, <1>2, <1>3, <1>4

LEMMA LookupTries ==
  ASSUME BoardInv, LookupInv, NEW k \in listed, TryNode(k)
  PROVE  LookupInv'
<1> USE DEF LookupInv
<1>0. UNCHANGED <<devices, args, bound, steady>> /\ Sensors' = Sensors
  BY DEF TryNode, machine, Sensors
<1>1. CASE IsSensorPath(k)
  <2>1. pc' = "numbers" /\ spidev' = devices[k].node
    BY <1>1 DEF TryNode
  <2>2. k \in Sensors /\ devices[k].node # None
    BY <1>1, DevicesAssumption DEF BoardInv, IsSensorPath, Sensors
  <2> QED
    BY <1>0, <2>1, <2>2 DEF SpidevIsSensor, LookupSteps
<1>2. CASE ~IsSensorPath(k)
  <2>1. pc' = "paths" /\ spidev' = None /\ listed' = listed \ {k}
    BY <1>2 DEF TryNode, LookupSteps
  <2>2. pc = "paths" /\ k \notin steady \cap Sensors
    BY <1>2 DEF TryNode, IsSensorPath, Sensors
  <2> QED
    BY <1>0, <2>1, <2>2 DEF SpidevIsSensor
<1> QED
  BY <1>1, <1>2

\* By the directory or by the fallback, and whatever is bound and unbound meanwhile,
\* the node is a sensor's, and none only if no sensor had one all along.
THEOREM NodeIsTheSensors == Spec => []SpidevIsSensor
<1>1. Init => LookupInv
  BY DEF Init, LookupInv, LookupSteps, SpidevIsSensor
<1>2. BoardInv /\ LookupInv /\ [Next]_vars => LookupInv'
  <2> SUFFICES ASSUME BoardInv, LookupInv, [Next]_vars PROVE LookupInv'
    OBVIOUS
  <2>1. CASE \E k \in DOMAIN devices : Rebind(k)
    BY <2>1, LookupRebinds
  <2>2. CASE FindDevice \/ ListDirectory \/ GlobNodes \/ NoNode
    BY <2>2, LookupSearches
  <2>3. CASE \E k \in listed : TryNode(k)
    BY <2>3, LookupTries
  <2>4. CASE BadNumber \/ ReadPads \/ PickReset \/ PickIrq
    <3>1. UNCHANGED <<devices, bound, steady>> /\ pc' \notin LookupSteps \cup {"numbers"}
      BY <2>4 DEF BadNumber, ReadPads, PickReset, PickIrq, machine, lookup, LookupSteps
    <3> QED
      BY <3>1 DEF LookupInv, SpidevIsSensor, LookupSteps
  <2>5. CASE UNCHANGED vars
    BY <2>5 DEF vars, machine, lookup, LookupInv, SpidevIsSensor, Sensors
  <2> QED
    BY <2>1, <2>2, <2>3, <2>4, <2>5 DEF Next
<1>3. LookupInv => SpidevIsSensor
  BY DEF LookupInv
<1> QED
  BY <1>1, <1>2, <1>3, BoardCorrect, PTL DEF Spec

-----------------------------------------------------------------------------
(* The interrupt line.                                                     *)

\* What IrqSound asks of a pad.
Fits(k) == /\ ~pads[k].acpi /\ pads[k].gpio /\ pads[k].line # None
           /\ "ioxapic" \in pads[k].cfg /\ "rxdis" \notin pads[k].cfg

Lookups ==
  \/ \E k \in DOMAIN devices : Rebind(k)
  \/ FindDevice \/ ListDirectory \/ GlobNodes \/ NoNode
  \/ \E k \in listed : TryNode(k)

LEMMA LookupsOnly == Lookups => pc' \in LookupSteps \cup {"numbers", "FileNotFoundError"}
BY DEF Lookups, Rebind, FindDevice, ListDirectory, GlobNodes, NoNode, TryNode, LookupSteps

LEMMA CandidatesFit == \A k \in DOMAIN pads : k \in IrqCandidates <=> Fits(k)
<1> SUFFICES ASSUME NEW k \in DOMAIN pads PROVE k \in IrqCandidates <=> Fits(k)
  OBVIOUS
<1>1. "ioxapic" \in pads[k].cfg => pads[k].cfg # Unavailable
  BY DEF Unavailable
<1> QED
  BY <1>1 DEF IrqCandidates, Usable, IsInput, RoutedToIoxapic, Fits

\* Without an override: what is picked is a candidate's line, if there is one.
LEMMA IrqPicked ==
  ASSUME pads \in Boards, PickIrq, args.irq = None
  PROVE  /\ irq' # None => \E k \in IrqCandidates : pads[k].line = irq'
         /\ irq' = None => IrqCandidates = {}
<1>1. CASE Listed(pads, DefIrq) /\ At(pads, DefIrq) \in IrqCandidates
  <2>1. irq' = DefIrq
    BY <1>1 DEF PickIrq
  <2> QED
    BY <1>1, <2>1, AtListed, ListedIsNotNone
<1>2. CASE ~(Listed(pads, DefIrq) /\ At(pads, DefIrq) \in IrqCandidates)
  <2>1. irq' = FirstLine(IrqCandidates)
    BY <1>2 DEF PickIrq
  <2> QED
    BY <2>1, FirstLineFits, CandidatesArePositions
<1> QED
  BY <1>1, <1>2

\* The interrupt line is one that moves, and one is found whenever there is one.
THEOREM IrqFitsTheRule == Spec => []IrqSound
<1>1. Init => IrqSound
  BY DEF Init, IrqSound
<1>2. BoardInv /\ IrqSound /\ [Next]_vars => IrqSound'
  <2> SUFFICES ASSUME BoardInv, IrqSound, [Next]_vars PROVE IrqSound'
    OBVIOUS
  <2>1. CASE Lookups \/ BadNumber \/ ReadPads \/ PickReset
    <3>1. pc' # "done"
      BY <2>1, LookupsOnly DEF BadNumber, ReadPads, PickReset, LookupSteps
    <3> QED
      BY <3>1 DEF IrqSound
  <2>2. CASE PickIrq
    <3>1. UNCHANGED <<pads, args>>
      BY <2>2 DEF PickIrq, machine
    <3>2. args.irq = None =>
            /\ irq' # None => \E k \in DOMAIN pads : pads[k].line = irq' /\ Fits(k)
            /\ irq' = None => \A k \in DOMAIN pads : ~Fits(k)
      BY <2>2, IrqPicked, CandidatesFit, CandidatesArePositions DEF BoardInv, PickIrq
    <3> QED
      BY <3>1, <3>2 DEF IrqSound, Fits
  <2>3. CASE UNCHANGED vars
    BY <2>3 DEF vars, machine, IrqSound
  <2> QED
    BY <2>1, <2>2, <2>3 DEF Next, Lookups
<1> QED
  BY <1>1, <1>2, BoardCorrect, PTL DEF Spec

-----------------------------------------------------------------------------
(* The reset line.                                                         *)

\* A wrong reset line is never returned in silence, and none only if there is none.
THEOREM ResetIsFlagged == Spec => []ResetFlagged
<1>1. Init => ResetFlagged
  BY DEF Init, ResetFlagged
<1>2. BoardInv /\ ResetFlagged /\ [Next]_vars => ResetFlagged'
  <2> SUFFICES ASSUME BoardInv, ResetFlagged, [Next]_vars PROVE ResetFlagged'
    OBVIOUS
  <2>1. CASE Lookups \/ BadNumber \/ ReadPads
    <3>1. pc' \notin {"irq", "done"}
      BY <2>1, LookupsOnly DEF BadNumber, ReadPads, LookupSteps
    <3> QED
      BY <3>1 DEF ResetFlagged
  <2>2. CASE PickReset
    <3>1. UNCHANGED <<pads, args>> /\ pads \in Boards
      BY <2>2 DEF PickReset, machine, BoardInv
    <3>2. ~args.quiet /\ "reset" \notin flagged' => HostOutput(reset')
      BY <2>2 DEF PickReset, HostOutput, Warned
    <3>3. reset' = None => ResetCandidates = {}
      <4>1. CASE args.reset # None
        BY <2>2, <4>1 DEF PickReset
      <4>2. CASE args.reset = None /\ Listed(pads, DefReset) /\ ~Pad(DefReset).acpi
        <5>1. reset' = DefReset
          BY <2>2, <4>2 DEF PickReset
        <5> QED
          BY <4>2, <5>1, ListedIsNotNone
      <4>3. CASE args.reset = None /\ ~(Listed(pads, DefReset) /\ ~Pad(DefReset).acpi)
        <5>1. reset' = FirstLine(ResetCandidates)
          BY <2>2, <4>3 DEF PickReset
        <5> QED
          BY <3>1, <5>1, FirstLineFits, CandidatesArePositions
      <4> QED
        BY <4>1, <4>2, <4>3
    <3>4. reset' = None => \A k \in DOMAIN pads :
            ~(Usable(pads[k]) /\ IsOutput(pads[k]) /\ ~IsInput(pads[k]))
      BY <3>3 DEF ResetCandidates
    <3> QED
      BY <3>1, <3>2, <3>4 DEF ResetFlagged, HostOutput, Pad
  <2>3. CASE PickIrq
    <3>1. UNCHANGED <<pads, args, reset>> /\ pc = "irq"
      BY <2>3 DEF PickIrq, machine
    <3>2. "reset" \in flagged => "reset" \in flagged'
      BY <2>3 DEF PickIrq
    <3> QED
      BY <3>1, <3>2 DEF ResetFlagged, HostOutput, Pad
  <2>4. CASE UNCHANGED vars
    BY <2>4 DEF vars, machine, ResetFlagged, HostOutput, Pad
  <2> QED
    BY <2>1, <2>2, <2>3, <2>4 DEF Next, Lookups
<1> QED
  BY <1>1, <1>2, BoardCorrect, PTL DEF Spec

=============================================================================
