----------------------------- MODULE ToolTables -----------------------------
(***************************************************************************)
(* What the bench tools under tools/ do, as tables: a script is a sequence *)
(* of rows, and a row is the steps of its preparation and of its exchange. *)
(* ToolBench runs them.                                                    *)
(*                                                                         *)
(* Steps on the reset line: "take1" and "takeirq" (request it, driven HIGH *)
(* or as the interrupt line is), "set0", "set1", "drop".  On spidev:       *)
(* "open", "check" (a mode or word size that may be rejected), "verify"    *)
(* (the mode is read back), "hdr" and "junk" (bytes that are no command),  *)
(* "body" (the end of a command),                                          *)
(* "read" (header, then body if it is valid), "window" (a long read),      *)
(* "peek" (four bytes), "trypeek" (the same, errors ignored).  On the      *)
(* interrupt line: "glance" (its level is remembered), "watch" (compared   *)
(* with it), "pulse" (polled for a while).  "nap" is shorter than the      *)
(* sensor's boot, "settle" longer.                                         *)
(***************************************************************************)
EXTENDS Sequences, Integers

Frame == <<"hdr", "body">>         \* header and body, each in its own chip select
OneTransfer == <<"body">>          \* both in one
Ask == Frame \o <<"read">>
AllFrames == Frame \o Frame \o Frame

\* The phases whose exceptions the script catches, and whether the line stays held
\* after the row.
Row(script, name, prep, probe) ==
  [script |-> script, name |-> name, prep |-> prep, probe |-> <<"open">> \o probe,
   csHigh |-> FALSE, caught |-> {}, keep |-> TRUE, last |-> FALSE]

Catching(r, phases) == [r EXCEPT !.caught = phases]
Everything == {"prep", "check", "open", "probe"}

Ended(rows) == [k \in DOMAIN rows |-> [rows[k] EXCEPT !.last = (k = Len(rows))]]

\* A row without spidev.
Bare(r) == [r EXCEPT !.probe = Tail(r.probe)]

-----------------------------------------------------------------------------
(* Scripts whose rows reset the sensor each in its own way.                *)

ReferencePulse == <<"take1", "nap", "set0", "nap", "drop", "settle">>
HoldLow == <<"take1", "nap", "set0", "settle">>
ReleaseOnly == <<"take1", "drop", "settle">>
LegacyPulse == <<"take1", "set0", "nap", "set1", "settle">>
NeverTouch == <<>>

\* refseq.py: five commands, of which the last three are answered.
RefseqProbe == Frame \o Frame \o Ask \o Ask \o Ask

\* All variants at one speed, then at the other.
RefseqRows ==
  LET variant(name, prep) ==
        [Catching(Row("refseq", name, prep, RefseqProbe), Everything) EXCEPT !.keep = FALSE]
      variants == <<variant("reference", ReferencePulse), variant("hold-low", HoldLow),
                    variant("release-only", ReleaseOnly), variant("legacy", LegacyPulse),
                    variant("baseline", NeverTouch)>>
  IN  Ended(variants \o variants)

\* recover_probe.py: long resets, with and without taking spidev off the device,
\* each at both speeds.
LongReset == <<"take1", "set0", "settle", "set1", "settle">>
Rebind == <<"unbind", "bind">>

RecoverRows ==
  LET variant(name, prep) ==
        [Catching(Row("recover", name, prep, RefseqProbe), Everything) EXCEPT !.keep = FALSE]
      variants ==
        <<variant("full recipe", <<"unbind">> \o LongReset \o <<"bind">>),
          variant("rebind", Rebind),
          variant("long reset", LongReset),
          variant("across", <<"unbind", "take1", "set0", "settle", "bind", "set1", "settle">>)>>
  IN  Ended([k \in 1..8 |-> variants[(k + 1) \div 2]])

\* suspendtest.py: refseq.py's probe before and after a sleep, at two speeds each.
SuspendRows ==
  LET stage(name, prep) ==
        LET probe == Catching(Row("suspend", name, prep, RefseqProbe), {"open", "probe"})
        IN  <<probe, [probe EXCEPT !.prep = <<>>]>>
      powered(name) == stage(name, <<"take1", "settle">>)
  IN  Ended(stage("before", <<>>)
            \o [powered("powered") EXCEPT ![2].keep = FALSE]
            \o <<Bare(Row("suspend", "sleep", <<"suspend">>, <<>>))>>
            \o stage("resumed", <<>>)
            \o powered("powered again")
            \o stage("reset", <<"set0", "nap", "set1", "settle">>))

-----------------------------------------------------------------------------
(* Sweeps: the line is pulsed once, before the first row, and held.        *)

Sweep(script, exchanges, caught) ==
  Ended([k \in DOMAIN exchanges |->
           Catching(Row(script, "sweep", IF k = 1 THEN LegacyPulse ELSE <<>>, exchanges[k]),
                    caught)])

\* framing.py: frames in one transfer or two, with or without a NOP before the
\* command.
FramingRows ==
  LET ask(frame) == frame \o <<"read">> \o frame \o <<"read">>
  IN  Sweep("framing", <<ask(OneTransfer \o OneTransfer), ask(OneTransfer),
                         ask(Frame \o Frame), ask(Frame)>>, {"open", "probe"})

\* bruteforce.py: a bus mode is set and read back, which nothing guards, and then used
\* for three frames and a long read.
BruteRows ==
  LET attempt == AllFrames \o <<"window">>
      rows == Sweep("brute", <<attempt, attempt, attempt>>, {"check", "probe"})
  IN  [k \in 1..3 |-> [rows[k] EXCEPT !.csHigh = k > 1, !.probe = <<"check", "verify">> \o @]]

\* dialects.py: every command, then the patterns and framings of other devices, all
\* through one open spidev.
DialectRows ==
  LET command == Frame \o <<"window">>
      pattern == <<"junk", "window">>
      rows == Sweep("dialects", <<command, command, pattern, pattern>>, {})
  IN  [k \in 1..4 |-> IF k = 1 THEN rows[k] ELSE Bare(rows[k])]

-----------------------------------------------------------------------------
(* wider.py: a reset and an open for each setting.                         *)

WiderRows ==
  LET setting(name, prep, exchange) ==
        [Row("wider", name, prep, exchange) EXCEPT !.keep = FALSE]
      probe == AllFrames \o <<"window">>
      bits(exchange) ==
        Catching(setting("bits", <<"check">> \o LegacyPulse, exchange), {"probe"})
  IN  Ended(<<setting("settle", LegacyPulse, probe),
              Catching(setting("word delay", LegacyPulse, probe), {"probe"}),
              bits(probe),
              bits(<<"junk", "junk", "junk", "window">>),   \* words of 16 or 32 bits
              setting("gap", LegacyPulse, probe),
              setting("hammer", LegacyPulse, Frame \o Frame \o <<"window">>)>>)

-----------------------------------------------------------------------------
(* cshigh_repro.py: each case asserts the reset, then releases it or not.  *)

CasePrep(asserted) ==
  <<"set1", "settle", IF asserted THEN "set1" ELSE "set0", "settle">>

Case(name, asserted, csHigh, frames) ==
  [Row("cshigh", name, CasePrep(asserted), frames \o <<"window">>) EXCEPT !.csHigh = csHigh]

CshighRows ==
  LET A == Case("A", FALSE, TRUE, AllFrames)
  IN  Ended(<<[A EXCEPT !.prep = <<"take1">> \o A.prep],
              Case("B", FALSE, FALSE, AllFrames),
              Case("C", TRUE, TRUE, AllFrames),
              Case("D", FALSE, TRUE, <<>>),
              Case("E", FALSE, TRUE, Frame),
              A,
              Bare(Row("cshigh", "left", <<"set1", "settle", "set0", "settle">>, <<>>))>>)

-----------------------------------------------------------------------------
(* sigfrodr_exact.py: the interrupt line, read after each preparation, is  *)
(* the row's control; frames in one transfer, two short reads; at the end  *)
(* a control of the control.                                               *)

SigfrodrRows ==
  LET exchange(name, prep) ==
        Row("sigfrodr", name, prep \o <<"glance">>,
            OneTransfer \o OneTransfer \o <<"peek", "peek">>)
      cycle == <<"set0", "settle", "set1", "settle">>
  IN  Ended(<<exchange("no reset", <<"takeirq", "set1", "settle">>), exchange("cycle", cycle),
              Bare(Row("sigfrodr", "check", cycle, <<>>))>>)

-----------------------------------------------------------------------------
(* The scripts that keep the line LOW: reset, exchanges in which a pulse   *)
(* of the interrupt line counts as well, and a control.                    *)

LowStart == <<"take1", "settle", "set0", "settle">>

LowControl == <<"set1", "pulse", "set0", "settle">>

LowRows(script, exchanges) ==
  LET rows == [k \in DOMAIN exchanges |->
                 Row(script, "row", IF k = 1 THEN LowStart ELSE <<>>, exchanges[k])]
  IN  Ended(rows \o <<Bare(Row(script, "control", <<>>, LowControl))>>)

\* sweep_low.py: every command in every mode.
SweepLowRows ==
  LET command == OneTransfer \o <<"pulse", "peek">>
  IN  LowRows("sweep_low", <<command \o command, command>>)

\* reset_low.py: a preamble and a command, then an ACK and a reply to wait for.
ResetLowRows ==
  LET replies == <<"pulse", "peek", "pulse", "peek">>
  IN  LowRows("reset_low", <<OneTransfer \o OneTransfer \o replies, Frame \o Frame \o replies>>)

\* cs_timing_low.py: idle transfers that time the delays, then five commands for
\* each of them (the model sends two).
CsTimingRows ==
  LET command(frame) == frame \o <<"pulse", "peek">>
  IN  LowRows("cs_timing", <<<<"junk">>, command(Frame) \o command(Frame),
                             command(OneTransfer) \o command(OneTransfer)>>)

-----------------------------------------------------------------------------
\* touchwatch.py: the line HIGH, the interrupt line compared with its last level,
\* and short reads while spidev works.
TouchRows ==
  Ended(<<Bare(Row("touch", "watch", <<"take1", "settle">>,
                   <<"glance", "watch", "trypeek", "watch", "trypeek", "watch">>))>>)

\* Every script.
Rows ==
  RefseqRows \o RecoverRows \o SuspendRows \o FramingRows \o BruteRows \o DialectRows
  \o WiderRows \o CshighRows \o SigfrodrRows
  \o SweepLowRows \o ResetLowRows \o CsTimingRows \o TouchRows

\* lowstate.py runs these with every call on the line inverted, and anyone else may
\* run them as they are.
OldSweeps == {"framing", "brute", "dialects", "wider", "sigfrodr"}

\* These do not look for the spidev node before they start.
Heedless == {"recover", "sweep_low", "cs_timing", "touch"}

\* These count only what they read as a whole frame, or a byte but 00 and ff.
Readers == {"refseq", "recover", "suspend", "framing", "brute", "dialects", "wider", "cshigh"}

\* These keep the line LOW.
LowScripts == {"sweep_low", "reset_low", "cs_timing"}

-----------------------------------------------------------------------------
(* Facts about the tables that the proofs use; the tables are fixed, and   *)
(* TLC evaluates each fact on all of them.                                 *)

StepsOf(r) == {r.prep[k] : k \in DOMAIN r.prep} \cup {r.probe[k] : k \in DOMAIN r.probe}

ASSUME RowsAssumption ==
  /\ Rows \in Seq([script : STRING, name : STRING, prep : Seq(STRING), probe : Seq(STRING),
                   csHigh : BOOLEAN, caught : SUBSET Everything, keep : BOOLEAN,
                   last : BOOLEAN])
  /\ Rows # <<>>
  /\ \A k \in DOMAIN Rows : ~Rows[k].last =>
       k + 1 \in DOMAIN Rows /\ Rows[k + 1].script = Rows[k].script

ASSUME ReadersAssumption ==
  \A k \in DOMAIN Rows :
    /\ Rows[k].script \in Readers => StepsOf(Rows[k]) \cap {"peek", "trypeek", "watch", "pulse"} = {}
    /\ Rows[k].script = "sigfrodr" => StepsOf(Rows[k]) \cap {"trypeek", "watch", "pulse"} = {}

Takes == {"take1", "takeirq"}
TakesLine(r) == \E i \in DOMAIN r.prep : r.prep[i] \in Takes

\* A row before this one took the line, and no row in between gave it back.
HeldOver(k) ==
  \E j \in DOMAIN Rows :
    /\ j < k /\ TakesLine(Rows[j])
    /\ \A i \in DOMAIN Rows : j <= i /\ i < k => Rows[i].keep /\ ~Rows[i].last

ASSUME TakesAssumption ==
  \A k \in DOMAIN Rows :
    /\ TakesLine(Rows[k]) => ~HeldOver(k)
    /\ \A i, j \in DOMAIN Rows[k].prep :
         Rows[k].prep[i] \in Takes /\ Rows[k].prep[j] \in Takes => i = j
    /\ \A i \in DOMAIN Rows[k].probe : Rows[k].probe[i] \notin Takes

-----------------------------------------------------------------------------
(* What the steps of a row say about the reset line.                       *)

\* One of these steps comes before step i, and none of those in between.
Since(steps, i, these, those) ==
  \E j \in DOMAIN steps :
    /\ j < i /\ steps[j] \in these
    /\ \A m \in DOMAIN steps : j < m /\ m < i => steps[m] \notin those

Drives == {"take1", "takeirq", "set0", "set1"}
Highs(wrapped) == IF wrapped THEN {"set0"} ELSE {"take1", "set1"}
Lows(wrapped)  == IF wrapped THEN {"take1", "set1"} ELSE {"set0"}

\* Over a sleep of the machine the line may change by itself.
Moves == Drives \cup {"suspend"}

\* When the steps are done: the line is HIGH; the sensor runs; it was reset.
LeavesHigh(steps, wrapped) ==
  Since(steps, Len(steps) + 1, Highs(wrapped), Moves \ Highs(wrapped))
LeavesRunning(steps, wrapped) ==
  /\ Since(steps, Len(steps) + 1, Lows(wrapped), Moves \ Lows(wrapped))
  /\ Since(steps, Len(steps) + 1, {"settle"}, Moves)
LeavesReset(steps, wrapped) ==
  Since(steps, Len(steps) + 1, Highs(wrapped), {"body"})

Opens(k) == k = 1 \/ Rows[k - 1].last

\* A row that uses the line as the rows before it left it.
Found(r) == \A i \in DOMAIN r.prep : r.prep[i] \notin Drives

\* The rows that find, or make, the line HIGH when they run without the wrapper; over a
\* sleep it does not keep its level.
HighRow(r) ==
  \/ r.script \in {"recover", "touch"} \cup OldSweeps
  \/ r.script = "refseq" /\ r.name \in {"release-only", "legacy", "baseline"}
  \/ r.script = "suspend" /\ r.name \in {"powered", "powered again", "reset"}

ResettingScripts == {"refseq", "recover", "wider", "cshigh"}
SweepScripts == {"framing", "brute", "dialects"} \cup LowScripts

\* A preparation handles the lines and the binding; if a mode is tried in it, then first.
\* Only the controls drive the line after it.
ASSUME PrepAssumption ==
  \A k \in DOMAIN Rows :
    /\ \A i \in DOMAIN Rows[k].prep :
         /\ Rows[k].prep[i] \in
              Drives \cup {"drop", "nap", "settle", "unbind", "bind", "suspend", "check", "glance"}
         /\ Rows[k].prep[i] = "check" => i = 1
    /\ \A i \in DOMAIN Rows[k].probe :
         /\ Rows[k].probe[i] \notin Takes \cup {"drop", "suspend"}
         /\ Rows[k].probe[i] \in Drives => Rows[k].name = "control"

ASSUME CatchAssumption ==
  \A k \in DOMAIN Rows : \A i \in DOMAIN Rows[k].prep :
    Rows[k].prep[i] = "check" => Rows[k].caught \cap {"prep", "check"} = {}

ASSUME HighAssumption ==
  \A k \in DOMAIN Rows : HighRow(Rows[k]) =>
    LET prep == Rows[k].prep
    IN  /\ Found(Rows[k]) \/ LeavesHigh(prep, FALSE)
        /\ \A i \in DOMAIN prep : prep[i] # "suspend"
        /\ Found(Rows[k]) => ~Opens(k) /\ HighRow(Rows[k - 1])
        /\ Rows[k].script = "touch" =>
             Rows[k].probe[1] = "glance" /\ "pulse" \notin StepsOf(Rows[k])

ASSUME ResetAssumption ==
  \A k \in DOMAIN Rows : \A wrapped \in {FALSE} \cup {Rows[k].script \in OldSweeps} :
    /\ Rows[k].script \in ResettingScripts =>
         LeavesReset(Rows[k].prep, wrapped) \/ (HighRow(Rows[k]) /\ ~wrapped)
    /\ Rows[k].script \in SweepScripts =>
         /\ Opens(k) => LeavesReset(Rows[k].prep, wrapped)
         /\ "prep" \notin Rows[k].caught
         /\ \A i \in DOMAIN Rows[k].prep : Rows[k].prep[i] # "check"

ASSUME LowAssumption ==
  \A k \in DOMAIN Rows : Rows[k].script \in LowScripts =>
    /\ ~Rows[k].csHigh /\ Rows[k].caught = {}
    /\ StepsOf(Rows[k]) \cap {"check", "verify"} = {}
    /\ IF Rows[k].name = "control" THEN Rows[k].last
       ELSE /\ "watch" \notin StepsOf(Rows[k])
            /\ IF Opens(k)
               THEN LeavesRunning(Rows[k].prep, FALSE) /\ LeavesReset(Rows[k].prep, FALSE)
               ELSE Rows[k].prep = <<>>

ASSUME RunAssumption ==
  \A k \in DOMAIN Rows :
    /\ Rows[k].script \in OldSweeps =>
         /\ Rows[k].name \notin {"control", "left"}
         /\ "prep" \notin Rows[k].caught
         /\ LeavesRunning(Rows[k].prep, TRUE) \/ (Rows[k].prep = <<>> /\ ~Opens(k))
         /\ \A i \in DOMAIN Rows[k].prep : Rows[k].prep[i] = "check" => ~Opens(k)
    /\ Rows[k].name = "left" =>
         /\ Rows[k].script = "cshigh" /\ Rows[k].probe = <<>>
         /\ LeavesRunning(Rows[k].prep, FALSE) /\ LeavesReset(Rows[k].prep, FALSE)
    /\ Rows[k].name = "control" =>
         /\ Rows[k].script \in LowScripts
         /\ LeavesRunning(Rows[k].probe, FALSE) /\ LeavesReset(Rows[k].probe, FALSE)
         /\ Since(Rows[k].probe, Len(Rows[k].probe) + 1, {"pulse"}, {})
         /\ \A i \in DOMAIN Rows[k].probe : Rows[k].probe[i] = "pulse" =>
              Since(Rows[k].probe, i, Highs(FALSE), Moves \ Highs(FALSE))

\* The control of sigfrodr_exact.py is read when the preparation is over.
ASSUME SigfrodrAssumption ==
  \A k \in DOMAIN Rows : Rows[k].script = "sigfrodr" =>
    LET prep == Rows[k].prep
        done == Len(prep)
    IN  /\ Rows[k].name \in {"no reset", "cycle", "check"}
        /\ Rows[k].name # "check" =>
             /\ prep # <<>> /\ prep[done] = "glance"
             /\ Since(prep, done, {"settle"}, Moves)
             /\ Since(prep, done, Highs(FALSE), Moves \ Highs(FALSE))
             /\ Since(prep, done, Lows(TRUE), Moves \ Lows(TRUE))
             /\ Rows[k].name = "cycle" => Since(prep, done, Highs(TRUE), {"body"})
             /\ "glance" \notin {Rows[k].probe[i] : i \in DOMAIN Rows[k].probe}

ASSUME CaseAssumption ==
  \A k \in DOMAIN Rows : Rows[k].script = "cshigh" =>
    IF Rows[k].name = "left" THEN Rows[k].probe = <<>>
    ELSE /\ Rows[k].name \in {"A", "B", "C", "D", "E"}
         /\ IF Rows[k].name = "C" THEN LeavesHigh(Rows[k].prep, FALSE)
            ELSE LeavesRunning(Rows[k].prep, FALSE)
         /\ Rows[k].probe[1] = "open"
         /\ \A i \in DOMAIN Rows[k].probe : Rows[k].probe[i] \in
              {"open", "window"} \cup IF Rows[k].name = "D" THEN {} ELSE {"hdr", "body"}
         /\ Rows[k].csHigh => Rows[k].name # "B"

=============================================================================
