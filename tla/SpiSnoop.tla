------------------------------ MODULE SpiSnoop ------------------------------
(***************************************************************************)
(* The spisnoop module (spisnoop/spisnoop.c): a reader that samples the    *)
(* chip-select register and two status registers, one after the other,     *)
(* while somebody else's transfers run, and then gives a verdict.          *)
(***************************************************************************)
EXTENDS Integers, Sequences

CONSTANTS
  MaxEvents,   \* MAX_EVENTS
  MaxSamples,  \* bound: samples that fit into the window
  Slow         \* whether the bus keeps each state until all registers were read in it

ASSUME SnoopAssumption ==
  /\ MaxEvents \in Nat \ {0}
  /\ MaxSamples \in Nat
  /\ Slow \in BOOLEAN

VARIABLES
  wiring,   \* what chip select does: "driven", "never" asserted, or "stuck" low
  ctl,      \* the controller: "idle" or "busy" with a transfer
  pc,       \* where snap_show is
  cs, sse, bsy,                      \* its locals: the registers as sampled
  lastCs, samples, sseOn, bsyOn, csLow, ev,
  verdict,
  watched,  \* history: registers read in this window since the controller last changed
  past,     \* history: bus states that ended inside the window
  sampled   \* history: the chip selects sampled, the one before the window first

counters == <<samples, sseOn, bsyOn, csLow>>
vars == <<wiring, ctl, pc, cs, sse, bsy, lastCs, counters, ev, verdict, watched, past, sampled>>

Level == {"low", "high"}

\* The chip select in a state of the controller.
Cs(state) ==
  IF wiring = "stuck" \/ (wiring = "driven" /\ state = "busy") THEN "low" ELSE "high"

Init ==
  /\ wiring \in {"driven", "never", "stuck"}
  /\ ctl \in {"idle", "busy"}
  /\ pc = "open"
  /\ cs = "high" /\ sse = FALSE /\ bsy = FALSE
  /\ lastCs = "high"
  /\ samples = 0 /\ sseOn = 0 /\ bsyOn = 0 /\ csLow = 0
  /\ ev = <<>>
  /\ verdict = "none"
  /\ watched = {} /\ past = {} /\ sampled = <<>>

\* A transfer starts or ends.
Controller ==
  /\ Slow /\ pc \notin {"open", "done"} => watched = {"cs", "sscr0", "sssr"}
  /\ ctl' \in {"idle", "busy"} \ {ctl}
  /\ watched' = {}
  /\ past' = IF pc \in {"open", "done"} THEN past ELSE past \cup {ctl}
  /\ UNCHANGED <<wiring, pc, cs, sse, bsy, lastCs, counters, ev, verdict, sampled>>

\* The registers cannot be mapped or there is no memory for the events.
Abort ==
  /\ pc = "open"
  /\ pc' = "done"
  /\ UNCHANGED <<wiring, ctl, cs, sse, bsy, lastCs, counters, ev, verdict, watched, past, sampled>>

\* The chip select before the window.
Baseline ==
  /\ pc = "open"
  /\ pc' = "loop"
  /\ lastCs' = Cs(ctl)
  /\ sampled' = <<Cs(ctl)>>
  /\ watched' = {"cs"}
  /\ UNCHANGED <<wiring, ctl, cs, sse, bsy, counters, ev, verdict, past>>

ReadCs ==
  /\ pc = "loop" /\ samples < MaxSamples
  /\ pc' = "sscr0"
  /\ cs' = Cs(ctl)
  /\ sampled' = Append(sampled, Cs(ctl))
  /\ watched' = watched \cup {"cs"}
  /\ UNCHANGED <<wiring, ctl, sse, bsy, lastCs, counters, ev, verdict, past>>

ReadSscr0 ==
  /\ pc = "sscr0"
  /\ pc' = "sssr"
  /\ sse' = (ctl = "busy")
  /\ watched' = watched \cup {"sscr0"}
  /\ UNCHANGED <<wiring, ctl, cs, bsy, lastCs, counters, ev, verdict, past, sampled>>

ReadSssr ==
  /\ pc = "sssr"
  /\ pc' = "tally"
  /\ bsy' = (ctl = "busy")
  /\ watched' = watched \cup {"sssr"}
  /\ UNCHANGED <<wiring, ctl, cs, sse, lastCs, counters, ev, verdict, past, sampled>>

Count(c, yes) == IF yes THEN c + 1 ELSE c

\* Mutant: the chip select of the last event is not remembered.
TallyFromStart ==
  /\ pc = "tally"
  /\ pc' = "loop"
  /\ samples' = samples + 1
  /\ sseOn' = Count(sseOn, sse)
  /\ bsyOn' = Count(bsyOn, bsy)
  /\ csLow' = Count(csLow, cs = "low")
  /\ ev' = IF cs # lastCs /\ Len(ev) < MaxEvents THEN Append(ev, cs) ELSE ev
  /\ UNCHANGED <<wiring, ctl, lastCs, cs, sse, bsy, verdict, watched, past, sampled>>

\* Mutant: the table has no end.
TallyUnbounded ==
  /\ pc = "tally"
  /\ pc' = "loop"
  /\ samples' = samples + 1
  /\ sseOn' = Count(sseOn, sse)
  /\ bsyOn' = Count(bsyOn, bsy)
  /\ csLow' = Count(csLow, cs = "low")
  /\ IF cs # lastCs
     THEN ev' = Append(ev, cs) /\ lastCs' = cs
     ELSE UNCHANGED <<ev, lastCs>>
  /\ UNCHANGED <<wiring, ctl, cs, sse, bsy, verdict, watched, past, sampled>>

Tally ==
  /\ pc = "tally"
  /\ pc' = "loop"
  /\ samples' = samples + 1
  /\ sseOn' = Count(sseOn, sse)
  /\ bsyOn' = Count(bsyOn, bsy)
  /\ csLow' = Count(csLow, cs = "low")
  /\ IF cs # lastCs /\ Len(ev) < MaxEvents
     THEN ev' = Append(ev, cs) /\ lastCs' = cs
     ELSE UNCHANGED <<ev, lastCs>>
  /\ UNCHANGED <<wiring, ctl, cs, sse, bsy, verdict, watched, past, sampled>>

\* Mutant: that no change was seen is taken for never asserted.
VerdictNoLow ==
  IF sseOn = 0 /\ bsyOn = 0 THEN "quiet"
  ELSE IF ev = <<>> THEN "never"
  ELSE "toggling"

Verdict ==
  IF sseOn = 0 /\ bsyOn = 0 THEN "quiet"
  ELSE IF ev = <<>> /\ csLow = 0 THEN "never"
  ELSE IF ev = <<>> /\ csLow = samples THEN "held"
  ELSE "toggling"

\* The window is over, whatever the number of samples.
Judge ==
  /\ pc = "loop"
  /\ pc' = "done"
  /\ verdict' = Verdict
  /\ UNCHANGED <<wiring, ctl, cs, sse, bsy, lastCs, counters, ev, watched, past, sampled>>

\* The file is read again.
Again ==
  /\ pc = "done"
  /\ pc' = "open"
  /\ cs' = "high" /\ sse' = FALSE /\ bsy' = FALSE
  /\ lastCs' = "high"
  /\ samples' = 0 /\ sseOn' = 0 /\ bsyOn' = 0 /\ csLow' = 0
  /\ ev' = <<>>
  /\ verdict' = "none"
  /\ past' = {} /\ sampled' = <<>>
  /\ UNCHANGED <<wiring, ctl, watched>>

Next ==
  \/ Controller
  \/ Abort \/ Baseline \/ ReadCs \/ ReadSscr0 \/ ReadSssr \/ Tally \/ Judge \/ Again

Spec == Init /\ [][Next]_vars

-----------------------------------------------------------------------------
TypeOK ==
  /\ wiring \in {"driven", "never", "stuck"}
  /\ ctl \in {"idle", "busy"}
  /\ pc \in {"open", "loop", "sscr0", "sssr", "tally", "done"}
  /\ cs \in Level /\ sse \in BOOLEAN /\ bsy \in BOOLEAN
  /\ lastCs \in Level
  /\ samples \in 0..MaxSamples
  /\ sseOn \in 0..samples /\ bsyOn \in 0..samples /\ csLow \in 0..samples
  /\ ev \in Seq(Level) /\ Len(ev) <= MaxEvents
  /\ verdict \in {"none", "quiet", "never", "held", "toggling"}
  /\ watched \subseteq {"cs", "sscr0", "sssr"}
  /\ past \subseteq {"idle", "busy"}
  /\ sampled \in Seq(Level)

\* The changes along a sequence of chip selects, in order.
ChangesOf(s) ==
  LET change[k \in 0..Len(s)] ==
        IF k < 2 THEN <<>>
        ELSE IF s[k] = s[k - 1] THEN change[k - 1]
        ELSE Append(change[k - 1], s[k])
  IN  change[Len(s)]

Changes == ChangesOf(sampled)

\* The event table lists the first MaxEvents changes of the sampled chip select,
\* none missed and none invented, also when the table is full.
EventsFaithful ==
  pc \in {"loop", "done"} =>
    ev = SubSeq(Changes, 1, IF Len(Changes) < MaxEvents THEN Len(Changes) ELSE MaxEvents)

\* On a bus that keeps each state for a whole sample, the verdicts are right
\* about every bus state that ended inside the window: "no traffic seen at all"
\* that no transfer did, "CS NEVER ASSERTED" that the chip select was not low,
\* "CS held asserted the whole time" that it was not high.
VerdictSound ==
  Slow /\ pc = "done" =>
    /\ verdict = "quiet" => "busy" \notin past
    /\ verdict = "never" => \A state \in past : Cs(state) = "high"
    /\ verdict = "held"  => \A state \in past : Cs(state) = "low"

\* "traffic ran but CS NEVER ASSERTED" is printed only if it was not asserted.
NeverIsNever == verdict = "never" => \A state \in past : Cs(state) = "high"

=============================================================================
