----------------------------- MODULE MCGxfpStorm -----------------------------
(***************************************************************************)
(* GxfpDriver with a history variable that tells a stuck interrupt line    *)
(* from one that is serviced between interrupts.                           *)
(***************************************************************************)
EXTENDS MCGxfpDriver

VARIABLE wasLow   \* the line was low, and the handler done, between two counted interrupts

StormInit == Init /\ wasLow = FALSE
StormNext == Next /\ wasLow' = (wasLow \/ (irqCount > 0 /\ isr = "off" /\ ~irqMasked /\ ~IrqHigh))
StormSpec == StormInit /\ [][StormNext]_<<vars, wasLow>>

\* The interrupt is masked only when the line is stuck asserted: "an unserviced
\* level IRQ free-runs", "IRQ storm - line stuck asserted".
MaskedOnlyWhenStuck == irqMasked => ~wasLow

=============================================================================
