--------------------------- MODULE SpiSnoop_proofs ---------------------------
(***************************************************************************)
(* The verdicts of spisnoop are right on a slow bus and its event table    *)
(* lists the changes that were sampled, for every size of the table and    *)
(* every number of samples.                                                *)
(***************************************************************************)
EXTENDS SpiSnoop, WellFoundedInduction, TLAPS

Sampling == pc \in {"sscr0", "sssr", "tally"}
Window   == Sampling \/ pc = "loop"

Types ==
  /\ wiring \in {"driven", "never", "stuck"}
  /\ ctl \in {"idle", "busy"}
  /\ pc \in {"open", "loop", "sscr0", "sssr", "tally", "done"}
  /\ cs \in Level /\ sse \in BOOLEAN /\ bsy \in BOOLEAN
  /\ lastCs \in Level
  /\ samples \in Nat /\ sseOn \in Nat /\ bsyOn \in Nat /\ csLow \in Nat
  /\ sseOn <= samples /\ bsyOn <= samples /\ csLow <= samples
  /\ ev \in Seq(Level)
  /\ watched \subseteq {"cs", "sscr0", "sssr"}
  /\ past \subseteq {"idle", "busy"}

\* While no change was seen every sample shows the level of the baseline.
Steady ==
  Window /\ ev = <<>> =>
    /\ lastCs = "low"  => csLow = samples
    /\ lastCs = "high" => csLow = 0

\* A level that was read, or that ended after it was read, left its trace.
Traced(level) ==
  Window /\ ((\E state \in past : Cs(state) = level) \/ ("cs" \in watched /\ Cs(ctl) = level))
    => ev # <<>> \/ lastCs = level \/ (Sampling /\ cs = level)

\* So did a transfer.
Noticed ==
  Window /\ ("busy" \in past \/ (watched \cap {"sscr0", "sssr"} # {} /\ ctl = "busy"))
    => \/ sseOn # 0 \/ bsyOn # 0
       \/ pc \in {"sssr", "tally"} /\ sse
       \/ pc = "tally" /\ bsy

\* The strengthening of VerdictSound that every step preserves.
SlowInv ==
  /\ Types
  /\ Steady
  /\ Slow => Traced("low") /\ Traced("high") /\ Noticed
  /\ VerdictSound
  /\ pc = "open" => past = {} /\ samples = 0 /\ csLow = 0

LEMMA Fresh == <<>> \in Seq(Level) /\ "high" \in Level
<1>1. <<>> \in Seq(Level)
  OBVIOUS
<1>2. "high" \in Level
  BY DEF Level
<1> QED
  BY <1>1, <1>2

LEMMA SlowInit == Init => SlowInv
<1> SUFFICES ASSUME Init PROVE SlowInv
    OBVIOUS
<1>1. Types
  <2>1. ev \in Seq(Level)
    BY Fresh DEF Init
  <2>2. samples = 0 /\ sseOn = 0 /\ bsyOn = 0 /\ csLow = 0
    BY DEF Init
  <2>3. sseOn <= samples /\ bsyOn <= samples /\ csLow <= samples
    BY <2>2
  <2>4. samples \in Nat /\ sseOn \in Nat /\ bsyOn \in Nat /\ csLow \in Nat
    BY <2>2
  <2>5. /\ wiring \in {"driven", "never", "stuck"} /\ ctl \in {"idle", "busy"} /\ pc = "open"
        /\ cs \in Level /\ sse \in BOOLEAN /\ bsy \in BOOLEAN /\ lastCs \in Level
        /\ watched = {} /\ past = {}
    BY Fresh DEF Init
  <2> QED
    BY <2>1, <2>3, <2>4, <2>5 DEF Types
<1>2. ~Window /\ pc # "done" /\ past = {} /\ samples = 0 /\ csLow = 0
  BY DEF Init, Window, Sampling
<1> QED
  BY <1>1, <1>2 DEF SlowInv, Steady, Traced, Noticed, VerdictSound

LEMMA SlowStep == SlowInv /\ [Next]_vars => SlowInv'
<1> SUFFICES ASSUME SlowInv, [Next]_vars PROVE SlowInv'
    OBVIOUS
<1> USE SnoopAssumption
<1>1. CASE Controller
  <2> USE <1>1 DEF Controller, SlowInv, counters
  <2>1. Types' /\ Steady' /\ (pc' = "open" => past' = {} /\ samples' = 0 /\ csLow' = 0)
    BY DEF Types, Steady, Window, Sampling
  <2>2. ASSUME NEW level \in Level, Slow, Traced(level) PROVE Traced(level)'
    BY <2>2 DEF Types, Traced, Window, Sampling, Cs
  <2>3. ASSUME Slow PROVE Noticed'
    BY <2>3 DEF Types, Noticed, Window, Sampling
  <2>4. VerdictSound'
    BY DEF VerdictSound, Types, Cs
  <2> QED
    BY <2>1, <2>2, <2>3, <2>4 DEF Level
<1>2. CASE Abort
  BY <1>2 DEF Abort, SlowInv, Types, Steady, Traced, Noticed, VerdictSound, Window, Sampling, Level, Cs, counters
<1>3. CASE Baseline
  <2> USE <1>3 DEF Baseline, SlowInv, counters
  <2>1. Types'
    BY DEF Types, Level, Cs
  <2>4. Noticed' /\ VerdictSound'
    BY DEF Types, Noticed, VerdictSound
  <2>2. Steady'
    BY DEF Types, Steady
  <2>3. ASSUME NEW level \in Level PROVE Traced(level)'
    BY DEF Types, Traced, Cs
  <2> QED
    BY <2>1, <2>2, <2>3, <2>4 DEF Level
<1>4. CASE ReadCs
  BY <1>4 DEF ReadCs, SlowInv, Types, Steady, Traced, Noticed, VerdictSound, Window, Sampling, Level, Cs, counters
<1>5. CASE ReadSscr0
  BY <1>5 DEF ReadSscr0, SlowInv, Types, Steady, Traced, Noticed, VerdictSound, Window, Sampling, Level, Cs, counters
<1>6. CASE ReadSssr
  BY <1>6 DEF ReadSssr, SlowInv, Types, Steady, Traced, Noticed, VerdictSound, Window, Sampling, Level, Cs, counters
<1>7. CASE Tally
  BY <1>7 DEF Tally, Count, SlowInv, Types, Steady, Traced, Noticed, VerdictSound, Window, Sampling, Level, Cs, counters
<1>8. CASE Judge
  BY <1>8 DEF Judge, Verdict, SlowInv, Types, Steady, Traced, Noticed, VerdictSound, Window, Sampling, Level, Cs, counters
<1>9. CASE Again
  <2> USE <1>9 DEF Again, SlowInv
  <2>1. Types'
    <3>1. ev' \in Seq(Level)
      BY Fresh
    <3>2. /\ samples' \in Nat /\ sseOn' \in Nat /\ bsyOn' \in Nat /\ csLow' \in Nat
          /\ sseOn' <= samples' /\ bsyOn' <= samples' /\ csLow' <= samples'
      OBVIOUS
    <3>3. /\ wiring' = wiring /\ ctl' = ctl /\ watched' = watched
          /\ pc' = "open" /\ cs' = "high" /\ sse' \in BOOLEAN /\ bsy' \in BOOLEAN
          /\ lastCs' = "high" /\ past' = {}
      OBVIOUS
    <3> QED
      BY <3>1, <3>2, <3>3, Fresh DEF Types
  <2>2. ~Window' /\ pc' # "done" /\ past' = {} /\ samples' = 0 /\ csLow' = 0
    BY DEF Window, Sampling
  <2> QED
    BY <2>1, <2>2 DEF Steady, Traced, Noticed, VerdictSound
<1>10. CASE UNCHANGED vars
  BY <1>10 DEF vars, SlowInv, Types, Steady, Traced, Noticed, VerdictSound, Window, Sampling, Level, Cs, counters
<1> QED
  BY <1>1, <1>2, <1>3, <1>4, <1>5, <1>6, <1>7, <1>8, <1>9, <1>10 DEF Next

\* On a bus that keeps each state for a whole sample every verdict is right,
\* however many samples the window holds and events the table.
THEOREM VerdictsRight == Spec => []VerdictSound
<1>1. SlowInv => VerdictSound
  BY DEF SlowInv
<1> QED
  BY <1>1, SlowInit, SlowStep, PTL DEF Spec

-----------------------------------------------------------------------------
(* Types.                                                                  *)

\* What TypeOK adds to Types; a sample that was begun has room in the window.
RestTypes ==
  /\ samples <= MaxSamples
  /\ Sampling => samples < MaxSamples
  /\ Len(ev) <= MaxEvents
  /\ verdict \in {"none", "quiet", "never", "held", "toggling"}
  /\ sampled \in Seq(Level)

LEMMA RestInit == Init => RestTypes
<1> SUFFICES ASSUME Init PROVE RestTypes
  OBVIOUS
<1>1. samples = 0 /\ ev = <<>> /\ sampled = <<>> /\ verdict = "none" /\ pc = "open"
  BY DEF Init
<1>2. Len(ev) = 0 /\ sampled \in Seq(Level)
  BY <1>1, Fresh
<1>3. samples <= MaxSamples /\ Len(ev) <= MaxEvents
  BY <1>1, <1>2, SnoopAssumption
<1>4. ~Sampling
  BY <1>1 DEF Sampling
<1> QED
  BY <1>1, <1>2, <1>3, <1>4 DEF RestTypes

LEMMA RestStep == Types /\ RestTypes /\ [Next]_vars => RestTypes'
<1> SUFFICES ASSUME Types, RestTypes, [Next]_vars PROVE RestTypes'
  OBVIOUS
<1> USE SnoopAssumption DEF Types, RestTypes, Sampling, counters
<1>1. CASE Controller \/ Abort
  BY <1>1 DEF Controller, Abort
<1>2. CASE Baseline
  <2>1. sampled' \in Seq(Level)
    BY <1>2 DEF Baseline, Cs, Level
  <2> QED BY <1>2, <2>1 DEF Baseline
<1>3. CASE ReadCs
  <2>1. sampled' \in Seq(Level)
    BY <1>3 DEF ReadCs, Cs, Level
  <2> QED BY <1>3, <2>1 DEF ReadCs
<1>4. CASE ReadSscr0 \/ ReadSssr
  BY <1>4 DEF ReadSscr0, ReadSssr
<1>5. CASE Tally
  <2>1. Len(ev') <= MaxEvents
    BY <1>5 DEF Tally
  <2> QED BY <1>5, <2>1 DEF Tally
<1>6. CASE Judge
  BY <1>6 DEF Judge, Verdict
<1>7. CASE Again
  <2>1. samples' = 0 /\ ev' = <<>> /\ sampled' = <<>> /\ verdict' = "none" /\ pc' = "open"
    BY <1>7 DEF Again
  <2>2. Len(ev') = 0 /\ sampled' \in Seq(Level)
    BY <2>1, Fresh
  <2> QED BY <2>1, <2>2
<1>8. CASE UNCHANGED vars
  BY <1>8 DEF vars
<1> QED BY <1>1, <1>2, <1>3, <1>4, <1>5, <1>6, <1>7, <1>8 DEF Next

\* The counters stay within the window and the table within its size.
THEOREM TypeCorrect == Spec => []TypeOK
<1>1. SlowInv /\ RestTypes => TypeOK
  <2> SUFFICES ASSUME Types, RestTypes PROVE TypeOK
    BY DEF SlowInv
  <2>1. samples \in 0..MaxSamples
    BY SnoopAssumption DEF Types, RestTypes
  <2>2. sseOn \in 0..samples /\ bsyOn \in 0..samples /\ csLow \in 0..samples
    BY DEF Types
  <2> QED
    BY <2>1, <2>2 DEF Types, RestTypes, TypeOK
<1>2. SlowInv => Types
  BY DEF SlowInv
<1> QED
  BY <1>1, <1>2, SlowInit, SlowStep, RestInit, RestStep, PTL DEF Spec

-----------------------------------------------------------------------------
(* The changes along a sequence of samples.                                *)

\* A set of numbers with an element has a least one: each lemma takes the least
\* place at which it would fail.
LEMMA LeastNumber ==
  ASSUME NEW T \in SUBSET Nat, NEW n \in T
  PROVE  \E x \in T : \A y \in T : x <= y
<1> DEFINE R == {ss \in Nat \X Nat : ss[1] < ss[2]}
<1>1. IsWellFoundedOn(R, Nat)
  BY NatLessThanWellFounded DEF OpToRel
<1>2. ASSUME NEW x \in T, NEW y \in T, y < x
      PROVE  <<y, x>> \in R
  BY <1>2
<1> HIDE DEF R
<1>3. PICK x \in T : \A y \in T : <<y, x>> \notin R
  BY <1>1, WFMin
<1>4. \A y \in T : ~(y < x)
  BY <1>2, <1>3
<1>5. \A y \in T : x \in Nat /\ y \in Nat
  OBVIOUS
<1> QED
  BY <1>4, <1>5

\* f lists, for each of the first n places of s, the changes up to it.
Along(s, n, f) ==
  /\ DOMAIN f = 0..n
  /\ \A k \in 0..n :
       f[k] = IF k < 2 THEN <<>>
              ELSE IF s[k] = s[k - 1] THEN f[k - 1]
              ELSE Append(f[k - 1], s[k])

Alike(s, t, n) == \A k \in 1..n : s[k] = t[k]

\* Two such lists agree, whatever comes after the places of the shorter one.
LEMMA AlongAgree ==
  ASSUME NEW s, NEW t, NEW n \in Nat, NEW m \in Nat, n <= m,
         Alike(s, t, n),
         NEW f, Along(s, n, f), NEW g, Along(t, m, g)
  PROVE  \A k \in 0..n : f[k] = g[k]
<1> DEFINE T == {i \in 0..n : f[i] # g[i]}
<1> SUFFICES ASSUME NEW k \in T PROVE FALSE
  OBVIOUS
<1>1. T \in SUBSET Nat
  OBVIOUS
<1> HIDE DEF T
<1>2. PICK x \in T : \A y \in T : x <= y
  BY <1>1, LeastNumber
<1>3. x \in 0..n /\ x \in 0..m /\ f[x] # g[x] /\ x \in Nat
  BY DEF T
<1>4. /\ f[x] = IF x < 2 THEN <<>> ELSE IF s[x] = s[x - 1] THEN f[x - 1] ELSE Append(f[x - 1], s[x])
      /\ g[x] = IF x < 2 THEN <<>> ELSE IF t[x] = t[x - 1] THEN g[x - 1] ELSE Append(g[x - 1], t[x])
  BY <1>3 DEF Along
<1>5. ~(x < 2)
  BY <1>3, <1>4
<1>6. x - 1 \in 0..n /\ ~(x <= x - 1) /\ x \in 1..n /\ x - 1 \in 1..n
  BY <1>3, <1>5
<1>7. f[x - 1] = g[x - 1]
  BY <1>2, <1>6 DEF T
<1>8. s[x] = t[x] /\ s[x - 1] = t[x - 1]
  BY <1>6 DEF Alike
<1> QED
  BY <1>3, <1>4, <1>5, <1>7, <1>8

LEMMA AlongExists ==
  ASSUME NEW s \in Seq(Level), NEW n \in 0..Len(s)
  PROVE  \E f \in [0..n -> Seq(Level)] : Along(s, n, f)
<1> DEFINE Has(i) == \E f \in [0..i -> Seq(Level)] : Along(s, i, f)
           T == {i \in 0..Len(s) : ~Has(i)}
<1> SUFFICES ASSUME n \in T PROVE FALSE
  OBVIOUS
<1>1. T \in SUBSET Nat
  OBVIOUS
<1> HIDE DEF T
<1>2. PICK x \in T : \A y \in T : x <= y
  BY <1>1, LeastNumber
<1>3. x \in 0..Len(s) /\ x \in Nat /\ Len(s) \in Nat /\ ~Has(x)
  BY DEF T
<1>4. x # 0
  <2> DEFINE f == [k \in 0..0 |-> <<>>]
  <2>1. f \in [0..0 -> Seq(Level)]
    BY Fresh
  <2>2. Along(s, 0, f)
    BY DEF Along
  <2> HIDE DEF f
  <2>3. Has(0)
    BY <2>1, <2>2
  <2> QED BY <2>3, <1>3
<1>5. x - 1 \in 0..Len(s) /\ ~(x <= x - 1) /\ x \in 1..Len(s)
  BY <1>3, <1>4
<1>6. Has(x - 1)
  BY <1>2, <1>5 DEF T
<1>7. PICK f \in [0..(x - 1) -> Seq(Level)] : Along(s, x - 1, f)
  BY <1>6
<1> DEFINE last == IF x < 2 THEN <<>>
                   ELSE IF s[x] = s[x - 1] THEN f[x - 1]
                   ELSE Append(f[x - 1], s[x])
           g == [k \in 0..x |-> IF k < x THEN f[k] ELSE last]
<1> HIDE DEF Has
<1>8. last \in Seq(Level)
  <2>1. f[x - 1] \in Seq(Level) /\ s[x] \in Level
    BY <1>3, <1>5
  <2> QED BY <2>1, Fresh
<1> HIDE DEF last
<1>9. g \in [0..x -> Seq(Level)]
  <2>1. ASSUME NEW k \in 0..x PROVE (IF k < x THEN f[k] ELSE last) \in Seq(Level)
    <3>1. k < x => k \in 0..(x - 1)
      BY <1>3
    <3> QED BY <1>8, <3>1
  <2> QED BY <2>1
<1>10. ASSUME NEW k \in 0..x
       PROVE  g[k] = IF k < 2 THEN <<>> ELSE IF s[k] = s[k - 1] THEN g[k - 1] ELSE Append(g[k - 1], s[k])
  <2>1. k \in Nat
    BY <1>3
  <2>2. CASE k = x
    <3>1. g[k] = last
      BY <1>3, <2>2
    <3>2. g[k - 1] = f[k - 1]
      BY <1>5, <2>2
    <3> QED BY <2>2, <3>1, <3>2 DEF last
  <2>3. CASE k < x
    <3>1. k \in 0..(x - 1) /\ (k >= 2 => k - 1 \in 0..x /\ k - 1 < x)
      BY <1>3, <2>1, <2>3
    <3>2. g[k] = f[k] /\ (k >= 2 => g[k - 1] = f[k - 1])
      BY <2>3, <3>1
    <3>3. f[k] = IF k < 2 THEN <<>> ELSE IF s[k] = s[k - 1] THEN f[k - 1] ELSE Append(f[k - 1], s[k])
      BY <1>7, <3>1 DEF Along
    <3> QED BY <2>1, <3>2, <3>3
  <2> QED BY <1>3, <2>1, <2>2, <2>3
<1>11. Along(s, x, g)
  <2>1. DOMAIN g = 0..x
    OBVIOUS
  <2> HIDE DEF g
  <2> QED BY <1>10, <2>1 DEF Along
<1> QED
  <2> HIDE DEF g
  <2> QED BY <1>3, <1>9, <1>11 DEF Has

\* ChangesOf is the last entry of any such list.
LEMMA ChangesAlong ==
  ASSUME NEW s \in Seq(Level), NEW f, Along(s, Len(s), f)
  PROVE  ChangesOf(s) = f[Len(s)]
<1> DEFINE change[k \in 0..Len(s)] ==
             IF k < 2 THEN <<>>
             ELSE IF s[k] = s[k - 1] THEN change[k - 1]
             ELSE Append(change[k - 1], s[k])
<1>1. ChangesOf(s) = change[Len(s)]
  BY DEF ChangesOf
<1>2. \E g : g = [k \in 0..Len(s) |->
                    IF k < 2 THEN <<>>
                    ELSE IF s[k] = s[k - 1] THEN g[k - 1]
                    ELSE Append(g[k - 1], s[k])]
  <2>1. PICK g \in [0..Len(s) -> Seq(Level)] : Along(s, Len(s), g)
    <3>1. Len(s) \in 0..Len(s)
      OBVIOUS
    <3> QED BY <3>1, AlongExists
  <2>2. g = [k \in 0..Len(s) |-> g[k]]
    OBVIOUS
  <2>3. g = [k \in 0..Len(s) |->
              IF k < 2 THEN <<>>
              ELSE IF s[k] = s[k - 1] THEN g[k - 1]
              ELSE Append(g[k - 1], s[k])]
    <3> DEFINE e(k) == IF k < 2 THEN <<>>
                       ELSE IF s[k] = s[k - 1] THEN g[k - 1]
                       ELSE Append(g[k - 1], s[k])
    <3>1. \A k \in 0..Len(s) : g[k] = e(k)
      BY <2>1 DEF Along
    <3> HIDE DEF e
    <3>2. g = [k \in 0..Len(s) |-> e(k)]
      BY <2>2, <3>1
    <3> QED BY <3>2 DEF e
  <2> QED BY <2>3
<1>3. change = [k \in 0..Len(s) |->
                 IF k < 2 THEN <<>>
                 ELSE IF s[k] = s[k - 1] THEN change[k - 1]
                 ELSE Append(change[k - 1], s[k])]
  BY <1>2
<1> HIDE DEF change
<1>4. Along(s, Len(s), change)
  BY <1>3 DEF Along
<1>5. Len(s) \in Nat /\ Len(s) \in 0..Len(s) /\ Len(s) <= Len(s)
  OBVIOUS
<1>6. change[Len(s)] = f[Len(s)]
  BY <1>4, <1>5, AlongAgree DEF Alike
<1> QED BY <1>1, <1>6

\* Another sample is another change if it differs from the last one.
LEMMA ChangesAppend ==
  ASSUME NEW s \in Seq(Level), NEW x \in Level
  PROVE  /\ ChangesOf(s) \in Seq(Level)
         /\ ChangesOf(Append(s, x)) =
              IF s = <<>> \/ x = s[Len(s)] THEN ChangesOf(s) ELSE Append(ChangesOf(s), x)
<1> DEFINE t == Append(s, x)
           n == Len(s)
<1>1. /\ n \in Nat /\ t \in Seq(Level) /\ Len(t) = n + 1 /\ t[n + 1] = x
      /\ \A k \in 1..n : s[k] = t[k]
      /\ s = <<>> <=> n = 0
  OBVIOUS
<1> HIDE DEF t
<1>2. PICK f : f \in [0..n -> Seq(Level)] /\ Along(s, n, f)
  <2>1. n \in 0..Len(s)
    BY <1>1
  <2> QED BY <2>1, AlongExists
<1>3. PICK g : g \in [0..(n + 1) -> Seq(Level)] /\ Along(t, n + 1, g)
  <2>1. n + 1 \in 0..Len(t)
    BY <1>1
  <2> QED BY <1>1, <2>1, AlongExists
<1>4. ChangesOf(s) = f[n]
  BY <1>2, ChangesAlong
<1>5. ChangesOf(t) = g[n + 1]
  BY <1>1, <1>3, ChangesAlong
<1>6. f[n] = g[n]
  <2> DEFINE m == n + 1
  <2>1. /\ n \in Nat /\ m \in Nat /\ n <= m /\ n \in 0..n
        /\ Alike(s, t, n)
        /\ Along(s, n, f) /\ Along(t, m, g)
    BY <1>1, <1>2, <1>3 DEF Alike
  <2> HIDE DEF n, m
  <2>2. \A k \in 0..n : f[k] = g[k]
    BY <2>1, AlongAgree
  <2> QED BY <2>1, <2>2
<1>7. g[n + 1] = IF n + 1 < 2 THEN <<>>
                 ELSE IF t[n + 1] = t[(n + 1) - 1] THEN g[(n + 1) - 1]
                 ELSE Append(g[(n + 1) - 1], t[n + 1])
  <2>1. n + 1 \in 0..(n + 1)
    BY <1>1
  <2> HIDE DEF n
  <2> QED BY <1>3, <2>1 DEF Along
<1>8. f[n] \in Seq(Level)
  BY <1>1, <1>2
<1>9. CASE n = 0
  <2>1. f[n] = <<>>
    <3>1. n \in 0..n /\ n < 2
      BY <1>9, <1>1
    <3> HIDE DEF n
    <3> QED BY <1>2, <3>1 DEF Along
  <2>2. g[n + 1] = <<>>
    BY <1>7, <1>9
  <2> QED BY <1>1, <1>4, <1>5, <1>8, <1>9, <2>1, <2>2 DEF t
<1>10. CASE n # 0
  <2> HIDE DEF n
  <2>1. ~(n + 1 < 2) /\ (n + 1) - 1 = n /\ n \in 1..n
    BY <1>1, <1>10
  <2>2. t[n] = s[n]
    BY <1>1, <2>1
  <2>3. ChangesOf(t) = IF x = s[n] THEN ChangesOf(s) ELSE Append(ChangesOf(s), x)
    BY <1>1, <1>4, <1>5, <1>6, <1>7, <2>1, <2>2
  <2> QED BY <1>1, <1>4, <1>8, <1>10, <2>3 DEF n, t
<1> QED BY <1>9, <1>10

LEMMA ChangesOfOne ==
  ASSUME NEW x \in Level
  PROVE  ChangesOf(<<x>>) = <<>> /\ ChangesOf(<<>>) = <<>>
<1>1. ChangesOf(<<>>) = <<>>
  <2> DEFINE f == [k \in 0..0 |-> <<>>]
  <2>1. Along(<<>>, 0, f) /\ f[0] = <<>>
    BY DEF Along
  <2>2. <<>> \in Seq(Level) /\ Len(<<>>) = 0
    BY Fresh
  <2> HIDE DEF f
  <2> QED BY <2>1, <2>2, ChangesAlong
<1>2. <<x>> = Append(<<>>, x)
  OBVIOUS
<1> QED BY <1>1, <1>2, Fresh, ChangesAppend

-----------------------------------------------------------------------------
(* The event table.                                                        *)

\* The table holds the first changes along s; while it has room the level it
\* compares with is the last one of s.
Records(s) ==
  /\ s # <<>>
  /\ ev = SubSeq(ChangesOf(s), 1,
                 IF Len(ChangesOf(s)) < MaxEvents THEN Len(ChangesOf(s)) ELSE MaxEvents)
  /\ Len(ChangesOf(s)) < MaxEvents => lastCs = s[Len(s)]

\* Between the reading of the chip select and its tally one sample is missing.
TableInv ==
  /\ pc = "loop" => Records(sampled)
  /\ Sampling => \E s \in Seq(Level) : sampled = Append(s, cs) /\ Records(s)
  /\ pc = "open" => sampled = <<>> /\ ev = <<>>
  /\ pc = "done" => EventsFaithful

LEMMA TallyRecords ==
  ASSUME NEW s \in Seq(Level), Records(s), cs \in Level,
         IF cs # lastCs /\ Len(ev) < MaxEvents
         THEN ev' = Append(ev, cs) /\ lastCs' = cs
         ELSE UNCHANGED <<ev, lastCs>>,
         sampled' = Append(s, cs)
  PROVE  Records(sampled)'
<1> DEFINE C == ChangesOf(s)
           D == ChangesOf(Append(s, cs))
<1>1. C \in Seq(Level) /\ D = IF cs = s[Len(s)] THEN C ELSE Append(C, cs)
  BY ChangesAppend DEF Records
<1>2. /\ ev = SubSeq(C, 1, IF Len(C) < MaxEvents THEN Len(C) ELSE MaxEvents)
      /\ Len(C) < MaxEvents => lastCs = s[Len(s)]
  BY DEF Records
<1>3. Append(s, cs) # <<>> /\ Append(s, cs)[Len(Append(s, cs))] = cs
  OBVIOUS
<1> HIDE DEF C, D
<1>4. MaxEvents \in Nat /\ MaxEvents >= 1 /\ Len(C) \in Nat
  BY <1>1, SnoopAssumption
<1>5. /\ ev' = SubSeq(D, 1, IF Len(D) < MaxEvents THEN Len(D) ELSE MaxEvents)
      /\ Len(D) < MaxEvents => lastCs' = cs
  <2>1. CASE Len(C) < MaxEvents
    <3>1. ev = C /\ lastCs = s[Len(s)]
      BY <1>1, <1>2, <1>4, <2>1
    <3>2. CASE cs = s[Len(s)]
      <4>1. D = C /\ ev' = ev /\ lastCs' = lastCs
        BY <1>1, <3>1, <3>2
      <4> QED BY <1>2, <2>1, <3>1, <3>2, <4>1
    <3>3. CASE cs # s[Len(s)]
      <4>1. D = Append(C, cs) /\ ev' = Append(C, cs) /\ lastCs' = cs
        BY <1>1, <2>1, <3>1, <3>3
      <4>2. Len(D) = Len(C) + 1 /\ D \in Seq(Level)
        BY <1>1, <4>1
      <4>3. SubSeq(D, 1, Len(D)) = D
        BY <4>2
      <4>4. Len(D) < MaxEvents \/ Len(D) = MaxEvents
        BY <1>4, <2>1, <4>2
      <4> QED BY <4>1, <4>3, <4>4
    <3> QED BY <3>2, <3>3
  <2>2. CASE ~(Len(C) < MaxEvents)
    <3>1. ev = SubSeq(C, 1, MaxEvents) /\ Len(ev) = MaxEvents
      BY <1>1, <1>2, <1>4, <2>2
    <3>2. ev' = ev
      BY <1>4, <3>1
    <3>3. ~(Len(D) < MaxEvents)
      BY <1>1, <1>4, <2>2
    <3>4. SubSeq(D, 1, MaxEvents) = SubSeq(C, 1, MaxEvents)
      <4>1. CASE D = C
        BY <4>1
      <4>2. CASE D = Append(C, cs)
        BY <1>1, <1>4, <2>2, <4>2
      <4> QED BY <1>1, <4>1, <4>2
    <3> QED BY <3>1, <3>2, <3>3, <3>4
  <2> QED BY <2>1, <2>2
<1> QED BY <1>3, <1>5 DEF Records, D

LEMMA TableInit == Init => TableInv
  BY DEF Init, TableInv, Sampling

LEMMA TableStep == Types /\ RestTypes /\ TableInv /\ [Next]_vars => TableInv'
<1> SUFFICES ASSUME Types, RestTypes, TableInv, [Next]_vars PROVE TableInv'
  OBVIOUS
<1>1. UNCHANGED <<ev, lastCs>> => \A s : Records(s)' = Records(s)
  BY DEF Records
<1>2. CASE Controller \/ UNCHANGED vars
  <2>1. UNCHANGED <<pc, cs, ev, lastCs, sampled>>
    BY <1>2 DEF Controller, vars
  <2> QED BY <1>1, <2>1 DEF TableInv, Sampling, Records, EventsFaithful, Changes
<1>3. CASE Abort
  <2>1. pc = "open" /\ pc' = "done" /\ UNCHANGED <<ev, sampled>>
    BY <1>3 DEF Abort
  <2>2. ev' = <<>> /\ sampled' = <<>>
    BY <2>1 DEF TableInv
  <2>3. EventsFaithful'
    <3>1. ChangesOf(<<>>) = <<>>
      BY ChangesOfOne, Fresh
    <3>2. Len(<<>>) = 0 /\ 0 < MaxEvents
      BY SnoopAssumption
    <3>3. SubSeq(<<>>, 1, 0) = <<>>
      OBVIOUS
    <3> QED BY <2>2, <3>1, <3>2, <3>3 DEF EventsFaithful, Changes
  <2> QED BY <2>1, <2>3 DEF TableInv, Sampling
<1>4. CASE Baseline
  <2>1. pc' = "loop" /\ ev' = <<>> /\ lastCs' = Cs(ctl) /\ sampled' = <<Cs(ctl)>>
    BY <1>4 DEF Baseline, TableInv
  <2>2. Cs(ctl) \in Level
    BY DEF Cs, Level
  <2>3. ChangesOf(sampled') = <<>> /\ sampled' # <<>> /\ sampled'[Len(sampled')] = lastCs'
    BY <2>1, <2>2, ChangesOfOne
  <2>4. Len(<<>>) = 0 /\ 0 < MaxEvents /\ SubSeq(<<>>, 1, 0) = <<>>
    BY SnoopAssumption
  <2>5. Records(sampled)'
    BY <2>1, <2>3, <2>4 DEF Records
  <2> QED BY <2>1, <2>5 DEF TableInv, Sampling
<1>5. CASE ReadCs
  <2>1. pc = "loop" /\ pc' = "sscr0" /\ sampled' = Append(sampled, cs') /\ UNCHANGED <<ev, lastCs>>
    BY <1>5 DEF ReadCs
  <2>2. Records(sampled) /\ sampled \in Seq(Level)
    BY <2>1 DEF TableInv, RestTypes
  <2>3. \E s \in Seq(Level) : sampled' = Append(s, cs') /\ Records(s)'
    BY <1>1, <2>1, <2>2
  <2> QED BY <2>1, <2>3 DEF TableInv, Sampling
<1>6. CASE ReadSscr0 \/ ReadSssr
  <2>1. /\ Sampling /\ pc' \in {"sssr", "tally"}
        /\ UNCHANGED <<ev, lastCs, cs, sampled>>
    BY <1>6 DEF ReadSscr0, ReadSssr, Sampling
  <2>2. \E s \in Seq(Level) : sampled' = Append(s, cs') /\ Records(s)'
    BY <1>1, <2>1 DEF TableInv
  <2> QED BY <2>1, <2>2 DEF TableInv, Sampling
<1>7. CASE Tally
  <2>1. /\ Sampling /\ pc' = "loop" /\ sampled' = sampled
        /\ IF cs # lastCs /\ Len(ev) < MaxEvents
           THEN ev' = Append(ev, cs) /\ lastCs' = cs
           ELSE UNCHANGED <<ev, lastCs>>
    BY <1>7 DEF Tally, Sampling
  <2>2. PICK s \in Seq(Level) : sampled = Append(s, cs) /\ Records(s)
    BY <2>1 DEF TableInv
  <2>3. Records(sampled)'
    BY <2>1, <2>2, TallyRecords DEF Types
  <2> QED BY <2>1, <2>3 DEF TableInv, Sampling
<1>8. CASE Judge
  <2>1. pc = "loop" /\ pc' = "done" /\ UNCHANGED <<ev, sampled>>
    BY <1>8 DEF Judge
  <2>2. EventsFaithful'
    BY <2>1 DEF TableInv, Records, EventsFaithful, Changes
  <2> QED BY <2>1, <2>2 DEF TableInv, Sampling
<1>9. CASE Again
  BY <1>9 DEF Again, TableInv, Sampling
<1> QED BY <1>2, <1>3, <1>4, <1>5, <1>6, <1>7, <1>8, <1>9 DEF Next

\* The table lists the first changes of what was sampled, for every size of the
\* table and every number of samples.
THEOREM EventsAreChanges == Spec => []EventsFaithful
<1>1. TableInv => EventsFaithful
  BY DEF TableInv, EventsFaithful, Changes, Records
<1>2. SlowInv => Types
  BY DEF SlowInv
<1> QED
  BY <1>1, <1>2, SlowInit, SlowStep, RestInit, RestStep, TableInit, TableStep, PTL DEF Spec

=============================================================================
