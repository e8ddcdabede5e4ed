------------------------------ MODULE StormGate ------------------------------
(***************************************************************************)
(* What the interrupt storm guard of gxfp.c promises: at most Limit        *)
(* interrupts are let through over the life of the device, and after the   *)
(* last one the gate is shut for good.                                     *)
(***************************************************************************)
EXTENDS Integers

CONSTANT Limit   \* a positive number: GXFP_IRQ_STORM

VARIABLES count, gate

Init == count = 0 /\ gate = "open"

\* An interrupt is let through.
Pass ==
  /\ gate = "open" /\ count < Limit
  /\ count' = count + 1
  /\ UNCHANGED gate

Shut ==
  /\ gate = "open" /\ count = Limit
  /\ gate' = "shut"
  /\ UNCHANGED count

Next == Pass \/ Shut

Spec == Init /\ [][Next]_<<count, gate>>

\* A gate that has let Limit interrupts through does shut.
Shuts == WF_<<count, gate>>(Shut)

=============================================================================
