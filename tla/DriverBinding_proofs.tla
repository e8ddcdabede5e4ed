------------------------ MODULE DriverBinding_proofs ------------------------
(***************************************************************************)
(* Proofs about DriverBinding, for any set of threads, any machine's GPIO  *)
(* resources and any setting of touch_enable.                              *)
(*                                                                         *)
(* LifeInv says how far probe or the release has come by what there is of  *)
(* the instance; CallInv where the debugfs calls can be meanwhile.         *)
(***************************************************************************)
EXTENDS DriverBinding, TLAPS

-----------------------------------------------------------------------------
(* What a step can be.                                                     *)

LifeStep == Alloc \/ Classify \/ DriveEnable \/ RequestIrq \/ CreateFiles
            \/ FilesGone \/ DriveLow \/ FreeIrq \/ FreeAll

\* The steps that change who has the device, and nothing else of gxfp.
BindStep ==
  /\ \/ driver = "none" /\ driver' = "gxfp" /\ life' = "alloc"
     \/ StartRemove /\ UNCHANGED driver
     \/ driver = "spidev" /\ driver' = "none" /\ UNCHANGED life
     \/ driver = "none" /\ driver' = "spidev" /\ UNCHANGED life
  /\ UNCHANGED <<layout, touch, alive, enable, irqGpio, irq, files, isr, callVars, line>>

\* Most of the script's and the users' steps do not touch gxfp.
LEMMA StepKinds ==
  ASSUME Next
  PROVE \/ UNCHANGED gxfpVars
        \/ LifeStep
        \/ \E f \in Files : RemoveFile(f)
        \/ BindStep
        \/ IsrStart \/ IsrDone
        \/ \E t \in Thread : (\E f \in Files : Open(t, f)) \/ Close(t) \/ Call(t) \/ InCall(t)
<1>1. CASE Insmod
  <2>1. CASE Matches("gxfp")
    BY <1>1, <2>1 DEF Insmod, Matches, BindStep
  <2>2. CASE ~Matches("gxfp")
    BY <1>1, <2>2 DEF Insmod, gxfpVars, lifeVars, callVars
  <2> QED BY <2>1, <2>2
<1>2. CASE UserRmmod \/ UserOverride \/ UserModprobe
  BY <1>2 DEF UserRmmod, UserOverride, UserModprobe
<1>2a. CASE Start \/ Lsmod \/ Rmmod \/ Unloaded \/ Modprobe
  BY <1>2a DEF Start, Lsmod, Rmmod, Unloaded, Modprobe
<1>3. CASE TestNode \/ WriteOverride \/ Power \/ List
  BY <1>3 DEF TestNode, WriteOverride, Power, List
<1>4. CASE Unbind \/ UserBind
  BY <1>4 DEF Unbind, UserBind, Matches, BindStep
<1>5. CASE WriteBind
  <2>1. CASE Matches("spidev")
    BY <1>5, <2>1 DEF WriteBind, Matches, BindStep, Step
  <2>2. CASE ~Matches("spidev")
    BY <1>5, <2>2 DEF WriteBind, gxfpVars, lifeVars, callVars
  <2> QED BY <2>1, <2>2
<1>6. CASE Exit
  <2>1. CASE StartRemove /\ UNCHANGED <<driver, loaded, leaving>>
    BY <1>6, <2>1 DEF Exit, BindStep
  <2>2. CASE UNCHANGED <<driver, life>>
    BY <1>6, <2>2 DEF Exit, gxfpVars, lifeVars, callVars
  <2> QED BY <1>6, <2>1, <2>2 DEF Exit
<1>7. CASE Live
  BY <1>7 DEF Live, LifeStep
<1>8. CASE IsrStep
  BY <1>8 DEF IsrStep
<1>9. CASE \E t \in Thread : Use(t) \/ Caller(t)
  BY <1>9 DEF Use, Caller
<1> QED
  BY <1>1, <1>2, <1>2a, <1>3, <1>4, <1>5, <1>6, <1>7, <1>8, <1>9 DEF Next, Script, Kernel

-----------------------------------------------------------------------------
(* Types.                                                                  *)

LEMMA PicksAreLines == FirstOutput \in 0..2 /\ FirstOther \in 0..2
BY DEF FirstOutput, FirstOther

LEMMA FirstOutputDrives ==
  /\ FirstOutput # 0 => layout[FirstOutput] = "out"
  /\ {layout[1], layout[2]} = {"in", "out"} => layout[FirstOther] = "in"
BY DEF FirstOutput, FirstOther, Present

\* The variables of the script and the modules.
BindTypeOK ==
  /\ node \in {"spidev1.0", "other"}
  /\ flash \in BOOLEAN
  /\ override \in {"none", "spidev"}
  /\ loaded \in SUBSET {"gxfp", "spidev"}
  /\ leaving \in {"nobody", "user", "script"}
  /\ script \in AtScript
  /\ alone \in BOOLEAN

LEMMA GxfpTypeInit == Init => GxfpTypeOK
<1> SUFFICES ASSUME Init PROVE GxfpTypeOK
  OBVIOUS
<1> USE DEF Init, GxfpInit
<1>1. /\ open \in [Thread -> Files \cup {"none", "stale"}]
      /\ at \in [Thread -> {"user", "set", "low", "high", "settle"}]
  OBVIOUS
<1>2. enable \in 0..2 /\ irqGpio \in 0..2
  OBVIOUS
<1>3. /\ layout \in Layouts /\ touch \in Touches
      /\ alive \in BOOLEAN /\ irq \in BOOLEAN /\ isr \in BOOLEAN /\ line \in BOOLEAN
      /\ files \in SUBSET Files
  OBVIOUS
<1>4. /\ driver \in {"none", "gxfp", "spidev"} /\ life = "none"
      /\ driver = "gxfp" <=> life # "none"
  OBVIOUS
<1> QED BY <1>1, <1>2, <1>3, <1>4 DEF GxfpTypeOK

LEMMA GxfpTypeStep == GxfpTypeOK /\ [Next]_vars => GxfpTypeOK'
<1> SUFFICES ASSUME GxfpTypeOK, [Next]_vars PROVE GxfpTypeOK'
  OBVIOUS
<1> USE DEF GxfpTypeOK
<1>1. CASE UNCHANGED gxfpVars
  BY <1>1 DEF gxfpVars, lifeVars, callVars
<1>2. CASE LifeStep
  <2>1. CASE Alloc \/ DriveEnable \/ RequestIrq
    BY <1>2, <2>1 DEF Alloc, DriveEnable, RequestIrq, callVars, Probing, Removing
  <2>2. CASE Classify
    BY <2>2, PicksAreLines DEF Classify, callVars, Probing, Removing
  <2>3. CASE CreateFiles
    BY <2>3 DEF CreateFiles, callVars, Probing, Removing
  <2>4. CASE FilesGone \/ DriveLow
    BY <2>4 DEF FilesGone, DriveLow, callVars, Probing, Removing
  <2>5. CASE FreeIrq
    BY <2>5 DEF FreeIrq, callVars, Probing, Removing
  <2>6. CASE FreeAll
    <3>1. enable' \in 0..2 /\ irqGpio' \in 0..2
      BY <2>6 DEF FreeAll
    <3>2. /\ driver' \in {"none", "gxfp", "spidev"} /\ life' = "none"
          /\ driver' = "gxfp" <=> life' # "none"
      BY <2>6 DEF FreeAll
    <3>3. /\ UNCHANGED <<layout, touch, files, open, at>>
          /\ alive' \in BOOLEAN /\ irq' \in BOOLEAN /\ isr' \in BOOLEAN /\ line' \in BOOLEAN
      BY <2>6 DEF FreeAll, callVars
    <3> QED BY <3>1, <3>2, <3>3
  <2> QED BY <1>2, <2>1, <2>2, <2>3, <2>4, <2>5, <2>6 DEF LifeStep
<1>3. ASSUME NEW f \in Files, RemoveFile(f) PROVE GxfpTypeOK'
  <2>1. open' \in [Thread -> Files \cup {"none", "stale"}]
    BY <1>3 DEF RemoveFile
  <2> QED BY <1>3, <2>1 DEF RemoveFile, Probing, Removing
<1>4. CASE BindStep
  BY <1>4 DEF BindStep, StartRemove, callVars, Probing, Removing
<1>5. CASE IsrStart \/ IsrDone
  BY <1>5 DEF IsrStart, IsrDone, lifeVars, callVars
<1>6. ASSUME NEW t \in Thread, \/ \E f \in Files : Open(t, f)
                               \/ Close(t) \/ Call(t) \/ InCall(t)
      PROVE GxfpTypeOK'
  <2>1. CASE \E f \in Files : Open(t, f)
    BY <2>1 DEF Open, lifeVars
  <2>2. CASE Close(t)
    BY <2>2 DEF Close, lifeVars
  <2>3. CASE Call(t)
    BY <2>3 DEF Call, lifeVars
  <2>4. CASE InCall(t)
    BY <2>4 DEF InCall, Set, Low, High, Settled, CallStep, lifeVars
  <2> QED BY <1>6, <2>1, <2>2, <2>3, <2>4
<1>7. CASE UNCHANGED vars
  BY <1>7 DEF vars, gxfpVars, lifeVars, callVars
<1> QED BY <1>1, <1>2, <1>3, <1>4, <1>5, <1>6, <1>7, StepKinds

LEMMA BindTypeStep == BindTypeOK /\ [Next]_vars => BindTypeOK'
<1> SUFFICES ASSUME BindTypeOK, [Next]_vars PROVE BindTypeOK'
  OBVIOUS
<1> USE DEF BindTypeOK
<1>1. CASE Insmod \/ UserRmmod \/ Exit \/ Unbind
  BY <1>1 DEF Insmod, UserRmmod, Exit, Unbind
<1>1a. CASE UserOverride \/ UserModprobe \/ UserBind
  BY <1>1a DEF UserOverride, UserModprobe, UserBind
<1>2. CASE Start \/ Lsmod \/ Rmmod \/ Unloaded \/ Modprobe
  BY <1>2 DEF Start, Lsmod, Rmmod, Unloaded, Modprobe, Step, AtScript, Ended
<1>3. CASE TestNode \/ WriteOverride \/ WriteBind \/ Power \/ List
  BY <1>3 DEF TestNode, WriteOverride, WriteBind, Power, List, Step, AtScript, Ended
<1>4. CASE UNCHANGED bindVars
  BY <1>4 DEF bindVars
<1>5. CASE UNCHANGED vars
  BY <1>5 DEF vars
<1> QED
  BY <1>1, <1>1a, <1>2, <1>3, <1>4, <1>5 DEF Next, Script, Kernel, IsrStep, Use, Caller

\* The variables keep their types.
THEOREM TypeCorrect == Spec => []TypeOK
<1>1. Init => GxfpTypeOK
  BY GxfpTypeInit
<1>2. Init => BindTypeOK
  BY DEF Init, BindTypeOK, AtScript, Ended
<1>3. GxfpTypeOK /\ BindTypeOK => TypeOK
  BY DEF TypeOK, BindTypeOK
<1> QED
  BY <1>1, <1>2, <1>3, GxfpTypeStep, BindTypeStep, PTL DEF Spec

-----------------------------------------------------------------------------
(* What there is of the instance, at every point of its life.              *)

Picked   == {"drive", "request", "create", "up", "closing", "low"}
WithIrq  == {"create", "up", "closing", "low", "freeirq"}

LifeInv ==
  /\ life \in {"none", "alloc"} => ~alive
  /\ life \in {"gpios"} \cup Picked => alive
  /\ life \in {"none", "alloc", "gpios"} => enable = 0 /\ irqGpio = 0
  /\ life \in Picked => enable # 0
  /\ enable # 0 => enable = FirstOutput /\ irqGpio = FirstOther
  /\ irq => alive /\ life \in WithIrq
  /\ isr => irq
  /\ files # {} => life \in {"up", "closing"}

\* A call is inside a file that takes calls, or one whose removal waits for it.
CallInv ==
  \A t \in Thread : at[t] # "user" =>
    /\ life \in {"up", "closing"}
    /\ open[t] \in files \/ (open[t] = "stale" /\ life = "closing")

LEMMA LifeStepInv == GxfpTypeOK /\ LifeInv /\ [Next]_vars => LifeInv'
<1> SUFFICES ASSUME GxfpTypeOK, LifeInv, [Next]_vars PROVE LifeInv'
  OBVIOUS
<1> USE DEF LifeInv, Picked, WithIrq
<1>0. layout' = layout => FirstOutput' = FirstOutput /\ FirstOther' = FirstOther
  BY DEF FirstOutput, FirstOther, Present
<1>1. CASE UNCHANGED gxfpVars
  BY <1>1, <1>0 DEF gxfpVars, lifeVars
<1>2. CASE LifeStep
  <2>1. CASE Alloc
    BY <2>1, <1>0 DEF Alloc, GxfpTypeOK
  <2>2. CASE Classify
    BY <2>2, <1>0 DEF Classify, GxfpTypeOK
  <2>3. CASE DriveEnable
    BY <2>3, <1>0 DEF DriveEnable, GxfpTypeOK
  <2>4. CASE RequestIrq
    BY <2>4, <1>0 DEF RequestIrq, GxfpTypeOK
  <2>5. CASE CreateFiles
    BY <2>5, <1>0 DEF CreateFiles
  <2>6. CASE FilesGone
    BY <2>6, <1>0 DEF FilesGone
  <2>7. CASE DriveLow
    BY <2>7, <1>0 DEF DriveLow
  <2>8. CASE FreeIrq
    BY <2>8, <1>0 DEF FreeIrq
  <2>9. CASE FreeAll
    BY <2>9, <1>0 DEF FreeAll
  <2> QED BY <1>2, <2>1, <2>2, <2>3, <2>4, <2>5, <2>6, <2>7, <2>8, <2>9 DEF LifeStep
<1>3. CASE \E f \in Files : RemoveFile(f)
  BY <1>3, <1>0 DEF RemoveFile
<1>4. CASE BindStep
  BY <1>4, <1>0 DEF BindStep, StartRemove, GxfpTypeOK
<1>5. CASE IsrStart \/ IsrDone
  BY <1>5, <1>0 DEF IsrStart, IsrDone, lifeVars
<1>6. CASE \E t \in Thread : (\E f \in Files : Open(t, f)) \/ Close(t) \/ Call(t) \/ InCall(t)
  BY <1>6, <1>0 DEF Open, Close, Call, InCall, Set, Low, High, Settled, CallStep, lifeVars
<1>7. CASE UNCHANGED vars
  BY <1>7, <1>0 DEF vars, gxfpVars, lifeVars
<1> QED BY <1>1, <1>2, <1>3, <1>4, <1>5, <1>6, <1>7, StepKinds

LEMMA CallStepInv == GxfpTypeOK /\ LifeInv /\ CallInv /\ [Next]_vars => CallInv'
<1> SUFFICES ASSUME GxfpTypeOK, LifeInv, CallInv, [Next]_vars,
                    NEW t \in Thread, at'[t] # "user"
             PROVE /\ life' \in {"up", "closing"}
                   /\ open'[t] \in files' \/ (open'[t] = "stale" /\ life' = "closing")
  BY DEF CallInv
<1> USE DEF CallInv
<1>1. CASE UNCHANGED gxfpVars
  BY <1>1 DEF gxfpVars, lifeVars, callVars
<1>2. CASE LifeStep
  <2>1. CASE Alloc \/ Classify \/ DriveEnable \/ RequestIrq \/ CreateFiles
    BY <2>1 DEF Alloc, Classify, DriveEnable, RequestIrq, CreateFiles, callVars
  <2>2. CASE FilesGone
    BY <2>2 DEF FilesGone, Drained, callVars
  <2>3. CASE DriveLow \/ FreeIrq \/ FreeAll
    BY <2>3 DEF DriveLow, FreeIrq, FreeAll, callVars
  <2> QED BY <1>2, <2>1, <2>2, <2>3 DEF LifeStep
<1>3. ASSUME NEW f \in Files, RemoveFile(f)
      PROVE /\ life' \in {"up", "closing"}
            /\ open'[t] \in files' \/ (open'[t] = "stale" /\ life' = "closing")
  BY <1>3 DEF RemoveFile, GxfpTypeOK
<1>4. CASE BindStep
  <2>1. life # "closing" /\ open[t] \in files => life' = life \/ life' = "closing"
    BY <1>4 DEF BindStep, StartRemove, LifeInv, GxfpTypeOK
  <2>2. UNCHANGED <<open, at, files>>
    BY <1>4 DEF BindStep, callVars
  <2>3. life = "closing" => life' = "closing"
    BY <1>4 DEF BindStep, StartRemove, GxfpTypeOK
  <2> QED BY <2>1, <2>2, <2>3
<1>5. CASE IsrStart \/ IsrDone
  BY <1>5 DEF IsrStart, IsrDone, lifeVars, callVars
<1>6. ASSUME NEW u \in Thread, \/ \E f \in Files : Open(u, f)
                               \/ Close(u) \/ Call(u) \/ InCall(u)
      PROVE /\ life' \in {"up", "closing"}
            /\ open'[t] \in files' \/ (open'[t] = "stale" /\ life' = "closing")
  <2>1. CASE \E f \in Files : Open(u, f)
    BY <2>1 DEF Open, lifeVars, GxfpTypeOK, LifeInv, Files
  <2>2. CASE Close(u)
    BY <2>2 DEF Close, lifeVars, GxfpTypeOK
  <2>3. CASE Call(u)
    BY <2>3 DEF Call, lifeVars, GxfpTypeOK, LifeInv
  <2>4. CASE InCall(u)
    BY <2>4 DEF InCall, Set, Low, High, Settled, CallStep, lifeVars, GxfpTypeOK
  <2> QED BY <1>6, <2>1, <2>2, <2>3, <2>4
<1>7. CASE UNCHANGED vars
  BY <1>7 DEF vars, gxfpVars, lifeVars, callVars
<1> QED BY <1>1, <1>2, <1>3, <1>4, <1>5, <1>6, <1>7, StepKinds

InstanceInv == GxfpTypeOK /\ LifeInv /\ CallInv

LEMMA InstanceCorrect == Spec => []InstanceInv
<1>1. Init => GxfpTypeOK
  BY GxfpTypeInit
<1>2. Init => LifeInv
  BY DEF Init, GxfpInit, LifeInv, Picked, WithIrq
<1>3. Init => CallInv
  BY DEF Init, GxfpInit, CallInv
<1>4. InstanceInv /\ [Next]_vars => InstanceInv'
  BY GxfpTypeStep, LifeStepInv, CallStepInv DEF InstanceInv
<1> QED
  BY <1>1, <1>2, <1>3, <1>4, PTL DEF Spec, InstanceInv

-----------------------------------------------------------------------------
(* The theorems.                                                           *)

\* Whatever unbinds the device, a debugfs call or the interrupt handler never runs
\* on a freed struct gxfp, nor a call on a released reset line.
THEOREM InUseStaysAlive == Spec => []InUseAlive
<1>1. InstanceInv => InUseAlive
  BY DEF InstanceInv, GxfpTypeOK, LifeInv, CallInv, InUseAlive, Picked
<1> QED
  BY <1>1, InstanceCorrect, PTL

\* Nothing of the driver is left when it does not have the device.
THEOREM LeavesNothing == Spec => []NothingLeft
<1>1. InstanceInv => NothingLeft
  BY DEF InstanceInv, GxfpTypeOK, LifeInv, NothingLeft, WithIrq
<1> QED
  BY <1>1, InstanceCorrect, PTL

\* With one interrupt line and one output, in either order, both are found.
THEOREM FindsItsGpios == Spec => []GpiosRight
<1>1. InstanceInv => GpiosRight
  BY FirstOutputDrives, PicksAreLines DEF InstanceInv, LifeInv, GpiosRight
<1> QED
  BY <1>1, InstanceCorrect, PTL

\* Once removal has driven the line LOW no call drives it again.
THEOREM RemovalLeavesLow == Spec => []RemovedLow
<1>1. Init => RemovedLow
  BY DEF Init, GxfpInit, RemovedLow
<1>2. InstanceInv /\ RemovedLow /\ [Next]_vars => RemovedLow'
  <2> SUFFICES ASSUME InstanceInv, RemovedLow, [Next]_vars PROVE RemovedLow'
    OBVIOUS
  <2> USE DEF RemovedLow
  <2>1. CASE UNCHANGED gxfpVars \/ UNCHANGED vars
    BY <2>1 DEF vars, gxfpVars, lifeVars
  <2>2. CASE LifeStep
    BY <2>2 DEF LifeStep, Alloc, Classify, DriveEnable, RequestIrq, CreateFiles, FilesGone,
                DriveLow, FreeIrq, FreeAll, InstanceInv, LifeInv
  <2>3. CASE \E f \in Files : RemoveFile(f)
    BY <2>3 DEF RemoveFile
  <2>4. CASE BindStep
    BY <2>4 DEF BindStep, StartRemove
  <2>5. CASE IsrStart \/ IsrDone
    BY <2>5 DEF IsrStart, IsrDone, lifeVars
  <2>6. ASSUME NEW t \in Thread, \/ \E f \in Files : Open(t, f)
                                 \/ Close(t) \/ Call(t) \/ InCall(t)
        PROVE RemovedLow'
    <3>1. CASE InCall(t)
      <4>1. at[t] # "user"
        BY <3>1 DEF InCall, Set, Low, High, Settled, CallStep
      <4>2. life \in {"up", "closing"}
        BY <4>1 DEF InstanceInv, CallInv
      <4>3. life' = life
        BY <3>1 DEF InCall, Set, Low, High, Settled, CallStep, lifeVars
      <4> QED BY <4>2, <4>3
    <3>2. CASE (\E f \in Files : Open(t, f)) \/ Close(t) \/ Call(t)
      BY <3>2 DEF Open, Close, Call, lifeVars
    <3> QED BY <2>6, <3>1, <3>2
  <2> QED BY <2>1, <2>2, <2>3, <2>4, <2>5, <2>6, StepKinds
<1> QED
  BY <1>1, <1>2, InstanceCorrect, PTL DEF Spec

\* The steps of gxfp itself leave the device with its driver, or with none.
LEMMA GxfpKeepsDriver ==
  ASSUME Next, UNCHANGED bindVars
  PROVE  \/ driver' \in {driver, "none"}
         \/ UserBind \/ WriteBind \/ Insmod
<1>1. CASE Unbind \/ Exit
  BY <1>1 DEF Unbind, Exit, bindVars
<1>2. CASE UserRmmod \/ UserOverride \/ UserModprobe \/ Start \/ Lsmod \/ Rmmod \/ Unloaded
  BY <1>2 DEF UserRmmod, UserOverride, UserModprobe, Start, Lsmod, Rmmod, Unloaded,
              gxfpVars, lifeVars
<1>3. CASE Modprobe \/ TestNode \/ WriteOverride \/ Power \/ List
  BY <1>3 DEF Modprobe, TestNode, WriteOverride, Power, List, gxfpVars, lifeVars
<1>4. CASE Live
  <2>1. CASE \E f \in Files : RemoveFile(f)
    BY <2>1 DEF RemoveFile
  <2> QED
    BY <1>4, <2>1 DEF Live, Alloc, Classify, DriveEnable, RequestIrq, CreateFiles, FilesGone,
                      DriveLow, FreeIrq, FreeAll
<1>5. CASE IsrStep
  BY <1>5 DEF IsrStep, IsrStart, IsrDone, lifeVars
<1>6. CASE \E t \in Thread : Use(t) \/ Caller(t)
  BY <1>6 DEF Use, Caller, Open, Close, Call, InCall, Set, Low, High, Settled, CallStep, lifeVars
<1> QED
  BY <1>1, <1>2, <1>3, <1>4, <1>5, <1>6 DEF Next, Script, Kernel

\* What a run of the script that is left alone knows of the device.
FreeInv ==
  /\ driver = "gxfp" => "gxfp" \in loaded
  /\ alone =>
       /\ script = "unloading" => leaving = "script" \/ "gxfp" \notin loaded
       /\ script \in {"modprobe", "test", "override", "bind"} => driver # "gxfp"
       /\ script \in {"override", "bind"} /\ node = "spidev1.0" => driver # "spidev"

LEMMA FreeStep == GxfpTypeOK /\ FreeInv /\ [Next]_vars => FreeInv'
<1> SUFFICES ASSUME GxfpTypeOK, FreeInv, [Next]_vars PROVE FreeInv'
  OBVIOUS
<1> USE DEF FreeInv
<1>1. CASE Insmod \/ UserRmmod \/ Unbind
  BY <1>1 DEF Insmod, UserRmmod, Unbind, gxfpVars, lifeVars
<1>2. CASE UserOverride \/ UserModprobe \/ UserBind
  BY <1>2 DEF UserOverride, UserModprobe, UserBind, gxfpVars, lifeVars
<1>3. CASE Exit
  BY <1>3 DEF Exit, GxfpTypeOK
<1>4. CASE Start \/ Lsmod \/ Rmmod \/ Unloaded
  BY <1>4 DEF Start, Lsmod, Rmmod, Unloaded, Step, gxfpVars, lifeVars
<1>5. CASE Modprobe \/ WriteOverride \/ Power \/ List
  BY <1>5 DEF Modprobe, WriteOverride, Power, List, Step, gxfpVars, lifeVars
<1>6. CASE TestNode
  BY <1>6 DEF TestNode, NodeThere, Step, gxfpVars, lifeVars
<1>7. CASE WriteBind
  BY <1>7 DEF WriteBind, Step
<1>8. CASE Next /\ UNCHANGED bindVars
  <2>1. CASE driver' \in {driver, "none"}
    BY <1>8, <2>1 DEF bindVars
  <2> QED
    BY <1>1, <1>2, <1>7, <1>8, <2>1, GxfpKeepsDriver
<1>9. CASE UNCHANGED vars
  BY <1>9 DEF vars, gxfpVars, lifeVars
<1> QED
  BY <1>1, <1>2, <1>3, <1>4, <1>5, <1>6, <1>7, <1>8, <1>9
     DEF Next, Script, Kernel, IsrStep, Use, Caller

\* A run of the script that nobody disturbs finds the device free when it binds it.
THEOREM ScriptBindsFree == Spec => []BindsFree
<1>1. Init => FreeInv
  BY DEF Init, GxfpInit, FreeInv
<1>2. InstanceInv /\ FreeInv /\ [Next]_vars => FreeInv'
  BY FreeStep DEF InstanceInv
<1>3. InstanceInv /\ FreeInv => BindsFree
  BY DEF InstanceInv, GxfpTypeOK, FreeInv, BindsFree
<1> QED
  BY <1>1, <1>2, <1>3, InstanceCorrect, PTL DEF Spec

=============================================================================
