--------------------------- MODULE MCBoardResolve ---------------------------
(***************************************************************************)
(* BoardResolve for TLC: boards with the three lines of the two known      *)
(* boards, in pin order, in every state that makes a difference.           *)
(***************************************************************************)
EXTENDS BoardResolve, Sequences, TLC

CONSTANTS none, text

Cfgs == SUBSET {"txdis", "rxdis", "ioxapic"}

\* An absent pad, one the host uses as GPIO, one in native mode, one owned by
\* ACPI, and one that is not available.
PadsOf(line) ==
  {<<>>}
  \cup {<<[line |-> line, chip |-> "INT34BB:00", acpi |-> FALSE, gpio |-> TRUE, cfg |-> c]>> : c \in Cfgs}
  \cup {<<[line |-> line, chip |-> "INT34BB:00", acpi |-> FALSE, gpio |-> FALSE, cfg |-> c]>> : c \in {{}, {"rxdis"}}}
  \cup {<<[line |-> line, chip |-> "INT34BB:00", acpi |-> TRUE, gpio |-> TRUE, cfg |-> c]>> :
          c \in {{"ioxapic", "txdis"}, {"rxdis"}}}
  \cup {<<[line |-> line, chip |-> "INT34BB:00", acpi |-> FALSE, gpio |-> FALSE, cfg |-> Unavailable]>>}

\* A pad without a GPIO line, in front of the others.
Reserved == [line |-> none, chip |-> none, acpi |-> FALSE, gpio |-> FALSE, cfg |-> {"ioxapic"}]

SomeBoards ==
  {front \o a \o b \o c : front \in {<<>>, <<Reserved>>},
                         a \in PadsOf(48), b \in PadsOf(264), c \in PadsOf(279)}

SomeChips == {<<>>, 0 :> none @@ 1 :> "INT34BB:00"}
OneChip == {1 :> "INT34BB:00"}

Sensor(node) == [gxfp |-> TRUE, node |-> node]
Flash(node)  == [gxfp |-> FALSE, node |-> node]

\* No sensor, the two known boards, and two sensors, of which discovery takes one.
SomeDevices == {<<Flash("spidev0.0")>>, <<Sensor("spidev1.0")>>,
                <<Sensor("spidev0.0"), Flash("spidev1.0")>>,
                <<Flash("spidev1.0"), Sensor("spidev0.0"), Sensor("spidev2.0")>>}
OneDevice == {<<Sensor("spidev1.0")>>}

\* The pads are looked at after one undisturbed lookup only, which leaves no trace in them.
Focus == pc \in LookupSteps \cup {"FileNotFoundError"} \/ (devices \in OneDevice /\ rebinds = 0)

SomeResets == {none, 264, 1, text}
SomeIrqs == {none, 279, text}
SomeSpidevs == {none, "spidev0.0"}
NoArgs == {none}

=============================================================================
