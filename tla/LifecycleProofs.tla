-------------------------- MODULE LifecycleProofs ---------------------------
(***************************************************************************)
(* Proofs about Lifecycle, for any number of callers, calls, failures and  *)
(* products.                                                               *)
(***************************************************************************)
EXTENDS Lifecycle, TLAPS

USE LifecycleAssumption

-----------------------------------------------------------------------------
(* Type correctness, in four parts. *)

Steps == {"idle", "lock", "power"} \cup InitSteps \cup LateSteps \cup ExitSteps

BusType ==
  /\ chip \in Chips
  /\ gen \in Nat
  /\ card \in {"off", "idle", "ready", "stby", "tran"}
  /\ regs \in [Regs -> 0 .. 7]
  /\ funcs \subseteq {1, 2}
  /\ card_bus \in [width: {1, 4}, hs: BOOLEAN]
  /\ host_bus \in [width: {1, 4}, hs: BOOLEAN]

SharedType ==
  /\ power_lock \in Callers \cup {"none"}
  /\ registered \in BOOLEAN /\ mgr \in BOOLEAN /\ using \in BOOLEAN
  /\ product \in Chips \cup {"NONE"}

CallType ==
  /\ pc \in [Callers -> Steps]
  /\ call \in [Callers -> {"none", "On", "Verify", "GpioTest", "Off"}]
  /\ tries \in [Callers -> 0 .. MaxCmd5]
  /\ pid \in [Callers -> Chips \cup {"NONE"}]
  /\ res \in [Callers -> {"none", "OK", "ERR"}]
  /\ calls \in 0 .. MaxCalls /\ fails \in 0 .. MaxFails

HistType ==
  /\ alone \in [Callers -> BOOLEAN]
  /\ dev \in 0 .. gen
  /\ upBy \in 0 .. gen

LEMMA TypeParts ==
  /\ TypeOK <=> BusType /\ SharedType /\ CallType /\ HistType
  /\ TypeOK' <=> BusType' /\ SharedType' /\ CallType' /\ HistType'
  BY Zenon DEF TypeOK, BusType, SharedType, CallType, HistType, Steps

LEMMA StepNames ==
  /\ "idle" \in Steps /\ "lock" \in Steps /\ "power" \in Steps
  /\ "register" \in Steps /\ "host" \in Steps /\ "cmd0" \in Steps
  /\ "cmd5" \in Steps /\ "ocr" \in Steps /\ "cmd3" \in Steps
  /\ "cmd7" \in Steps /\ "speed" \in Steps /\ "clock" \in Steps
  /\ "f1" \in Steps /\ "cis" \in Steps /\ "pid" \in Steps /\ "block" \in Steps
  /\ "f1 regs" \in Steps /\ "wide" \in Steps /\ "f2" \in Steps
  /\ "device" \in Steps /\ "probe" \in Steps /\ "mgr" \in Steps
  /\ "intr" \in Steps /\ "bring up" \in Steps /\ "stop" \in Steps
  /\ "unregister" \in Steps /\ "disable" \in Steps /\ "product" \in Steps
  /\ "take dev" \in Steps /\ "take mgr" \in Steps
  BY DEF Steps, InitSteps, LateSteps, ExitSteps

LEMMA TypeInit == Init => TypeOK
<1> SUFFICES ASSUME Init  PROVE TypeOK
  OBVIOUS
<1>1. BusType
  BY DEF Init, BusType, NoBus
<1>2. SharedType
  BY Zenon DEF Init, SharedType
<1>3. CallType
  <2>1. "idle" \in Steps
    BY DEF Steps
  <2> QED
    BY <2>1 DEF Init, CallType
<1>4. HistType
  BY DEF Init, HistType
<1> QED
  BY <1>1, <1>2, <1>3, <1>4, TypeParts

(* The registers after a row of writes of 3-bit values. *)
LEMMA WritesType ==
  ASSUME NEW ws, \A w \in ws : w[2] \in 0 .. 7, regs \in [Regs -> 0 .. 7]
  PROVE  [r \in Regs |-> IF \E w \in ws : w[1] = r
                         THEN (CHOOSE w \in ws : w[1] = r)[2]
                         ELSE regs[r]] \in [Regs -> 0 .. 7]
<1> SUFFICES ASSUME NEW r \in Regs, \E w \in ws : w[1] = r
             PROVE  (CHOOSE w \in ws : w[1] = r)[2] \in 0 .. 7
  OBVIOUS
<1> QED
  OBVIOUS

(* The card, the controller and their settings. *)
LEMMA BusTypeStep == TypeOK /\ [Next]_vars => BusType'
<1> SUFFICES ASSUME TypeOK, [Next]_vars
             PROVE  BusType'
  OBVIOUS
<1> USE DEF BusType, cardVars, busVars, Quiet
<1>0. BusType
  BY TypeParts
<1>1. ASSUME UNCHANGED <<chip, gen, cardVars, host_bus>>
      PROVE  BusType'
  BY <1>0, <1>1
<1>2. ASSUME NEW t \in Callers, PowerOn(t)  PROVE BusType'
  BY <1>0, <1>2 DEF PowerOn, NoBus
<1>3. ASSUME NEW t \in Callers, HostInit(t)  PROVE BusType'
  BY <1>0, <1>3 DEF HostInit, NoBus
<1>4. ASSUME NEW t \in Callers, Cmd0(t) \/ Cmd5Ocr(t) \/ Cmd5(t) \/ Cmd3(t) \/ Cmd7(t)
      PROVE  BusType'
  BY <1>0, <1>4 DEF Cmd0, Cmd5Ocr, Cmd5, Cmd3, Cmd7, CardCommand
<1>5. ASSUME NEW t \in Callers, EnableHighSpeed(t) \/ SetClock(t) \/ Enable4Bit(t)
      PROVE  BusType'
  <2> DEFINE Bus == [width: {1, 4}, hs: BOOLEAN]
             Fast(b) == [b EXCEPT !.hs = TRUE]
             Wide(b) == [b EXCEPT !.width = 4]
  <2>1. /\ UNCHANGED <<chip, gen, card, regs, funcs>>
        /\ card_bus' = card_bus \/ card_bus' = Fast(card_bus) \/ card_bus' = Wide(card_bus)
        /\ host_bus' = host_bus \/ host_bus' = Fast(host_bus) \/ host_bus' = Wide(host_bus)
    BY <1>5, Zenon DEF EnableHighSpeed, SetClock, Enable4Bit
  <2>2. \A b \in Bus : Fast(b) \in Bus /\ Wide(b) \in Bus
    OBVIOUS
  <2>3. card_bus \in Bus /\ host_bus \in Bus
    BY <1>0, Zenon
  <2>4. card_bus' \in Bus /\ host_bus' \in Bus
    <3> HIDE DEF Bus, Fast, Wide
    <3> QED
      BY <2>1, <2>2, <2>3
  <2> QED
    BY <1>0, <2>1, <2>4, Zenon
<1>6. ASSUME NEW t \in Callers, EnableF1(t) \/ ExitDisable(t)  PROVE BusType'
  BY <1>0, <1>6 DEF EnableF1, ExitDisable
<1>7. ASSUME NEW t \in Callers, BlockSizeF1(t) \/ ConfigF1(t)  PROVE BusType'
  <2>1. ASSUME NEW at, NEW next, NEW ws, Writes(t, at, next, ws),
               \A w \in ws : w[2] \in 0 .. 7
        PROVE  BusType'
    <3>1. regs' \in [Regs -> 0 .. 7]
      BY <1>0, <2>1, WritesType, Zenon DEF Writes
    <3> QED
      BY <1>0, <2>1, <3>1 DEF Writes
  <2>2. /\ \A w \in {<<BlockLow(1), 0>>, <<BlockHigh(1), 2>>} : w[2] \in 0 .. 7
        /\ \A w \in {<<Fbr1CisPtr, 1>>, <<Fbr1BlockHigh, 1>>} : w[2] \in 0 .. 7
    OBVIOUS
  <2> QED
    BY <1>7, <2>1, <2>2, Zenon DEF BlockSizeF1, ConfigF1
<1>8. ASSUME NEW t \in Callers, EnableF2(t) \/ IntrConfig(t)  PROVE BusType'
  <2>1. ASSUME NEW f \in [Regs -> 0 .. 7], NEW r, NEW x \in 0 .. 7
        PROVE  [f EXCEPT ![r] = x] \in [Regs -> 0 .. 7]
    OBVIOUS
  <2>2. /\ UNCHANGED <<chip, gen, card, card_bus, host_bus>>
        /\ funcs' \in {funcs, funcs \cup {2}}
    BY <1>8 DEF EnableF2, IntrConfig
  <2>3. regs' \in [Regs -> 0 .. 7]
    <3>1. CASE EnableF2(t)
      <4>1. regs' = [[regs EXCEPT ![BlockLow(2)] = 0] EXCEPT ![BlockHigh(2)] = 2]
        BY <3>1 DEF EnableF2
      <4> QED
        BY <1>0, <2>1, <4>1
    <3>2. CASE IntrConfig(t)
      <4>1. regs' = [regs EXCEPT ![F1IntrConfig] = 7] \/ regs' = regs
        BY <1>0, <3>2 DEF IntrConfig
      <4> QED
        BY <1>0, <2>1, <4>1
    <3> QED
      BY <1>8, <3>1, <3>2
  <2> QED
    BY <1>0, <2>2, <2>3
<1>10. ASSUME NEW t \in Callers, CardFails(t)  PROVE BusType'
  BY <1>1, <1>10 DEF CardFails
<1>11. ASSUME NEW t \in Callers,
              \/ Lock(t) \/ Register(t) \/ Cmd5NotReady(t) \/ ProbeCis(t)
              \/ ReadProduct(t) \/ StoreDevice(t) \/ TryProbe(t) \/ StoreMgr(t)
              \/ BringUp(t) \/ ExitStop(t) \/ ExitUnregister(t)
              \/ ExitProduct(t) \/ TakeDevice(t) \/ TakeMgr(t)
       PROVE  BusType'
  BY <1>1, <1>11 DEF Lock, Register, Cmd5NotReady, ProbeCis, ReadProduct,
     StoreDevice, TryProbe, StoreMgr, BringUp, ExitStop, ExitUnregister,
     ExitProduct, TakeDevice, TakeMgr
<1>12. ASSUME NEW t \in Callers, NEW c \in {"On", "Verify", "GpioTest", "Off"},
              Start(t, c)
       PROVE  BusType'
  BY <1>1, <1>12 DEF Start
<1>13. ASSUME Use \/ UseEnds \/ UNCHANGED vars  PROVE BusType'
  BY <1>1, <1>13 DEF Use, UseEnds, vars
<1> QED
  BY <1>2, <1>3, <1>4, <1>5, <1>6, <1>7, <1>8, <1>10, <1>11, <1>12, <1>13
     DEF Next, Step

(* What a step of a call does to the caller's own state. *)
LEMMA StepMoves ==
  ASSUME NEW t \in Callers, Step(t)
  PROVE  /\ \E s \in Steps : Go(t, s)
         /\ UNCHANGED <<chip, call, calls, alone>>
         /\ \/ res' = res
            \/ res' = [res EXCEPT ![t] = "OK"]
            \/ res' = [res EXCEPT ![t] = "ERR"]
         /\ pid' = pid \/ pid' = [pid EXCEPT ![t] = product]
<1> USE StepNames DEF Return, Sent, CmdFails, Quiet, Continues, busVars,
            cardVars, callVars, histVars, sharedVars
<1>1. CASE CardFails(t)
  BY <1>1 DEF CardFails
<1>2. CASE Lock(t)
  BY <1>2 DEF Lock
<1>3. CASE PowerOn(t)
  BY <1>3 DEF PowerOn
<1>4. CASE Register(t)
  BY <1>4 DEF Register
<1>5. CASE HostInit(t)
  BY <1>5 DEF HostInit
<1>6. CASE Cmd0(t)
  BY <1>6 DEF Cmd0, CardCommand
<1>7. CASE Cmd5Ocr(t)
  BY <1>7 DEF Cmd5Ocr, CardCommand
<1>8. CASE Cmd5(t)
  BY <1>8 DEF Cmd5
<1>9. CASE Cmd5NotReady(t)
  BY <1>9 DEF Cmd5NotReady
<1>10. CASE Cmd3(t)
  BY <1>10 DEF Cmd3, CardCommand
<1>11. CASE Cmd7(t)
  BY <1>11 DEF Cmd7, CardCommand
<1>12. CASE EnableHighSpeed(t)
  BY <1>12 DEF EnableHighSpeed
<1>13. CASE SetClock(t)
  BY <1>13 DEF SetClock
<1>14. CASE EnableF1(t)
  BY <1>14 DEF EnableF1
<1>15. CASE ProbeCis(t)
  BY <1>15 DEF ProbeCis
<1>16. CASE ReadProduct(t)
  BY <1>16 DEF ReadProduct
<1>17. CASE BlockSizeF1(t)
  BY <1>17 DEF BlockSizeF1, Writes
<1>18. CASE ConfigF1(t)
  BY <1>18 DEF ConfigF1, Writes
<1>19. CASE Enable4Bit(t)
  BY <1>19 DEF Enable4Bit
<1>20. CASE EnableF2(t)
  BY <1>20 DEF EnableF2
<1>21. CASE StoreDevice(t)
  BY <1>21 DEF StoreDevice
<1>22. CASE TryProbe(t)
  BY <1>22 DEF TryProbe
<1>23. CASE StoreMgr(t)
  BY <1>23 DEF StoreMgr
<1>24. CASE IntrConfig(t)
  BY <1>24 DEF IntrConfig
<1>25. CASE BringUp(t)
  BY <1>25 DEF BringUp
<1>26. CASE ExitStop(t)
  BY <1>26 DEF ExitStop
<1>27. CASE ExitUnregister(t)
  BY <1>27 DEF ExitUnregister
<1>28. CASE ExitDisable(t)
  BY <1>28 DEF ExitDisable
<1>29. CASE ExitProduct(t)
  BY <1>29 DEF ExitProduct
<1>30. CASE TakeDevice(t)
  BY <1>30 DEF TakeDevice
<1>31. CASE TakeMgr(t)
  BY <1>31 DEF TakeMgr
<1> QED
  BY <1>1, <1>2, <1>3, <1>4, <1>5, <1>6, <1>7, <1>8, <1>9, <1>10, <1>11,
     <1>12, <1>13, <1>14, <1>15, <1>16, <1>17, <1>18, <1>19, <1>20, <1>21,
     <1>22, <1>23, <1>24, <1>25, <1>26, <1>27, <1>28, <1>29, <1>30, <1>31 DEF
     Step

(* The counters of a caller and of the model. *)
LEMMA CountsStep ==
  ASSUME TypeOK, NEW t \in Callers, Step(t)
  PROVE  tries' \in [Callers -> 0 .. MaxCmd5] /\ fails' \in 0 .. MaxFails
<1> USE DEF Sent, CmdFails
<1>0. tries \in [Callers -> 0 .. MaxCmd5] /\ fails \in 0 .. MaxFails
  BY DEF TypeOK
<1>1. CASE CardFails(t) \/ EnableHighSpeed(t) \/ Enable4Bit(t)
  BY <1>0, <1>1 DEF CardFails, EnableHighSpeed, Enable4Bit
<1>2. CASE IntrConfig(t) \/ ExitDisable(t)
  <2>1. tries' = tries /\ (fails' = fails \/ (fails < MaxFails /\ fails' = fails + 1))
    BY <1>2, Zenon DEF IntrConfig, ExitDisable
  <2> QED
    BY <1>0, <2>1
<1>3. CASE HostInit(t)
  BY <1>0, <1>3 DEF HostInit
<1>4. CASE Cmd5(t)
  BY <1>0, <1>4 DEF Cmd5
<1>5. CASE Cmd0(t) \/ Cmd5Ocr(t) \/ Cmd3(t) \/ Cmd7(t)
  BY <1>0, <1>5 DEF Cmd0, Cmd5Ocr, Cmd3, Cmd7, CardCommand
<1>6. CASE Lock(t) \/ PowerOn(t) \/ Register(t) \/ Cmd5NotReady(t) \/ SetClock(t)
  BY <1>0, <1>6 DEF Lock, PowerOn, Register, Cmd5NotReady, SetClock
<1>7. CASE \/ EnableF1(t) \/ ProbeCis(t) \/ ReadProduct(t) \/ BlockSizeF1(t)
           \/ ConfigF1(t) \/ EnableF2(t)
  BY <1>0, <1>7 DEF EnableF1, ProbeCis, ReadProduct, BlockSizeF1, ConfigF1,
     Writes, EnableF2
<1>8. CASE StoreDevice(t) \/ TryProbe(t) \/ StoreMgr(t)
  BY <1>0, <1>8 DEF StoreDevice, TryProbe, StoreMgr
<1>9. CASE ExitStop(t) \/ ExitUnregister(t) \/ ExitProduct(t) \/ TakeDevice(t) \/ TakeMgr(t)
  BY <1>0, <1>9 DEF ExitStop, ExitUnregister, ExitProduct, TakeDevice, TakeMgr
<1>10. CASE BringUp(t)
  <2>1. tries' = tries /\ (fails' = fails \/ (fails < MaxFails /\ fails' = fails + 1))
    BY <1>10, Zenon DEF BringUp
  <2> QED
    BY <1>0, <2>1
<1> QED
  BY <1>1, <1>2, <1>3, <1>4, <1>5, <1>6, <1>7, <1>8, <1>9, <1>10 DEF Step

LEMMA CallTypeStep == TypeOK /\ [Next]_vars => CallType'
<1> SUFFICES ASSUME TypeOK, [Next]_vars
             PROVE  CallType'
  OBVIOUS
<1>0. CallType
  BY TypeParts
<1>1. ASSUME NEW t \in Callers, Step(t)  PROVE CallType'
  <2>1. product \in Chips \cup {"NONE"}
    BY DEF TypeOK
  <2> QED
    BY <1>0, <1>1, <2>1, StepMoves, CountsStep DEF CallType, Go
<1>2. ASSUME NEW t \in Callers, NEW c \in {"On", "Verify", "GpioTest", "Off"},
             Start(t, c)
      PROVE  CallType'
  <2>1. \E s \in Steps : Go(t, s)
    BY <1>2, StepNames DEF Start
  <2>2. /\ calls < MaxCalls /\ calls' = calls + 1
        /\ call' = [call EXCEPT ![t] = c]
        /\ res' = [res EXCEPT ![t] = "none"]
        /\ pid' = [pid EXCEPT ![t] = "NONE"]
        /\ UNCHANGED <<tries, fails>>
    BY <1>2 DEF Start
  <2> QED
    BY <1>0, <2>1, <2>2 DEF CallType, Go
<1>3. ASSUME Use \/ UseEnds \/ UNCHANGED vars  PROVE CallType'
  BY <1>0, <1>3 DEF Use, UseEnds, vars, callVars, CallType
<1> QED
  BY <1>1, <1>2, <1>3 DEF Next

(* What a step of a call does to the globals. *)
LEMMA StepShares ==
  ASSUME NEW t \in Callers, Step(t)
  PROVE  /\ power_lock' = power_lock \/ power_lock' = t \/ power_lock' = "none"
         /\ registered' = registered \/ registered' = TRUE \/ registered' = FALSE
         /\ mgr' = mgr \/ mgr' = TRUE \/ mgr' = FALSE
         /\ product' = product \/ product' = chip \/ product' = "NONE"
         /\ dev' = dev \/ dev' = gen \/ dev' = 0
         /\ upBy' = upBy \/ upBy' = gen \/ upBy' = 0
         /\ using' = using
         /\ gen' = gen \/ (gen' = gen + 1 /\ dev' = dev /\ upBy' = 0)
<1> USE DEF Return, Quiet, Continues, busVars, cardVars, callVars, histVars,
            sharedVars
<1>1. CASE CardFails(t)
  BY <1>1 DEF CardFails
<1>2. CASE Lock(t)
  BY <1>2 DEF Lock
<1>3. CASE PowerOn(t)
  BY <1>3 DEF PowerOn
<1>4. CASE Register(t)
  BY <1>4 DEF Register
<1>5. CASE HostInit(t)
  BY <1>5 DEF HostInit
<1>6. CASE Cmd0(t)
  BY <1>6 DEF Cmd0, CardCommand
<1>7. CASE Cmd5Ocr(t)
  BY <1>7 DEF Cmd5Ocr, CardCommand
<1>8. CASE Cmd5(t)
  BY <1>8 DEF Cmd5
<1>9. CASE Cmd5NotReady(t)
  BY <1>9 DEF Cmd5NotReady
<1>10. CASE Cmd3(t)
  BY <1>10 DEF Cmd3, CardCommand
<1>11. CASE Cmd7(t)
  BY <1>11 DEF Cmd7, CardCommand
<1>12. CASE EnableHighSpeed(t)
  BY <1>12 DEF EnableHighSpeed
<1>13. CASE SetClock(t)
  BY <1>13 DEF SetClock
<1>14. CASE EnableF1(t)
  BY <1>14 DEF EnableF1
<1>15. CASE ProbeCis(t)
  BY <1>15 DEF ProbeCis
<1>16. CASE ReadProduct(t)
  BY <1>16 DEF ReadProduct
<1>17. CASE BlockSizeF1(t)
  BY <1>17 DEF BlockSizeF1, Writes
<1>18. CASE ConfigF1(t)
  BY <1>18 DEF ConfigF1, Writes
<1>19. CASE Enable4Bit(t)
  BY <1>19 DEF Enable4Bit
<1>20. CASE EnableF2(t)
  BY <1>20 DEF EnableF2
<1>21. CASE StoreDevice(t)
  BY <1>21 DEF StoreDevice
<1>22. CASE TryProbe(t)
  BY <1>22 DEF TryProbe
<1>23. CASE StoreMgr(t)
  BY <1>23 DEF StoreMgr
<1>24. CASE IntrConfig(t)
  BY <1>24 DEF IntrConfig
<1>25. CASE BringUp(t)
  BY <1>25 DEF BringUp
<1>26. CASE ExitStop(t)
  BY <1>26 DEF ExitStop
<1>27. CASE ExitUnregister(t)
  BY <1>27 DEF ExitUnregister
<1>28. CASE ExitDisable(t)
  BY <1>28 DEF ExitDisable
<1>29. CASE ExitProduct(t)
  BY <1>29 DEF ExitProduct
<1>30. CASE TakeDevice(t)
  BY <1>30 DEF TakeDevice
<1>31. CASE TakeMgr(t)
  BY <1>31 DEF TakeMgr
<1> QED
  BY <1>1, <1>2, <1>3, <1>4, <1>5, <1>6, <1>7, <1>8, <1>9, <1>10, <1>11,
     <1>12, <1>13, <1>14, <1>15, <1>16, <1>17, <1>18, <1>19, <1>20, <1>21,
     <1>22, <1>23, <1>24, <1>25, <1>26, <1>27, <1>28, <1>29, <1>30, <1>31 DEF
     Step

LEMMA SharedTypeStep == TypeOK /\ [Next]_vars => SharedType' /\ HistType'
<1> SUFFICES ASSUME TypeOK, [Next]_vars
             PROVE  SharedType' /\ HistType'
  OBVIOUS
<1>0. SharedType /\ HistType /\ gen \in Nat /\ chip \in Chips
  BY TypeParts DEF BusType
<1>1. ASSUME NEW t \in Callers, Step(t)  PROVE SharedType' /\ HistType'
  <2>1. SharedType'
    BY <1>0, <1>1, StepShares DEF SharedType
  <2>2. HistType'
    <3>1. alone' \in [Callers -> BOOLEAN]
      BY <1>0, <1>1, StepMoves DEF HistType
    <3>2. dev' \in 0 .. gen' /\ upBy' \in 0 .. gen'
      <4>1. /\ dev' = dev \/ dev' = gen \/ dev' = 0
            /\ upBy' = upBy \/ upBy' = gen \/ upBy' = 0
            /\ gen' = gen \/ (gen' = gen + 1 /\ dev' = dev /\ upBy' = 0)
        BY <1>1, StepShares
      <4>2. dev \in 0 .. gen /\ upBy \in 0 .. gen /\ gen \in Nat
        BY <1>0 DEF HistType
      <4> QED
        BY <4>1, <4>2
    <3> QED
      BY <3>1, <3>2 DEF HistType
  <2> QED
    BY <2>1, <2>2
<1>2. ASSUME NEW t \in Callers, NEW c \in {"On", "Verify", "GpioTest", "Off"},
             Start(t, c)
      PROVE  SharedType' /\ HistType'
  <2>1. /\ UNCHANGED <<gen, power_lock, registered, product, dev, mgr, using>>
        /\ upBy' = upBy \/ upBy' = 0
    BY <1>2 DEF Start, busVars, sharedVars
  <2>2. alone' \in [Callers -> BOOLEAN]
    <3>1. CASE c = "Off"
      BY <1>2, <3>1 DEF Start
    <3>2. CASE c # "Off"
      BY <1>2, <3>2 DEF Start
    <3> QED
      BY <3>1, <3>2
  <2>3. SharedType'
    BY <1>0, <2>1, Zenon DEF SharedType
  <2>4. dev' \in 0 .. gen' /\ upBy' \in 0 .. gen'
    BY <1>0, <2>1 DEF HistType
  <2> QED
    BY <2>2, <2>3, <2>4, Zenon DEF HistType
<1>3. ASSUME Use \/ UseEnds \/ UNCHANGED vars  PROVE SharedType' /\ HistType'
  BY <1>0, <1>3 DEF Use, UseEnds, vars, busVars, sharedVars, histVars, SharedType,
     HistType
<1> QED
  BY <1>1, <1>2, <1>3 DEF Next

-----------------------------------------------------------------------------
(* The steps at which a power on holds power_lock. *)
HoldSteps == {"power"} \cup InitSteps \cup LateSteps

(* After probe_from_sdio_cis, and with the card selected (CMD7). *)
DeviceSteps == {"pid", "block", "f1 regs", "wide", "f2", "device"}
SelectedSteps == {"speed", "clock", "f1", "cis"} \cup DeviceSteps \cup LateSteps

(* power_lock is held from the power cycle to the end of the bring-up, by at  *)
(* most one caller; a caller's step says what it called.                      *)
LockInv ==
  \A t \in Callers :
    /\ pc[t] \in HoldSteps <=> power_lock = t
    /\ pc[t] \in ExitSteps => call[t] = "Off"
    /\ pc[t] \in HoldSteps \cup {"lock"} => call[t] # "Off"
    /\ pc[t] # "idle" => res[t] = "none"

(* What a power on has done by the step it is at: to the card, whoever else   *)
(* calls, and, if no power off ran since it began, to the globals.            *)
CardInv ==
  \A t \in Callers :
    /\ pc[t] = "cmd3" => card = "ready"
    /\ pc[t] = "cmd7" => card = "stby"
    /\ pc[t] \in SelectedSteps => card = "tran"

AloneInv ==
  \A t \in Callers :
    alone[t] /\ pc[t] \in HoldSteps \cup {"lock"} =>
      /\ \A u \in Callers : pc[u] \notin ExitSteps
      /\ pc[t] \notin {"lock", "power", "register"} => registered
      /\ pc[t] \in {"cis"} \cup DeviceSteps \cup LateSteps => 1 \in funcs
      /\ pc[t] \in DeviceSteps \cup LateSteps => product = chip
      /\ pc[t] \in LateSteps => dev = gen
      /\ pc[t] \in {"intr", "bring up"} => mgr

(* Until power off starts or power is cycled, nobody is past the power cycle. *)
UpInv ==
  upBy # 0 =>
    /\ OnMeansUp
    /\ \A t \in Callers : pc[t] \notin ExitSteps \cup InitSteps \cup LateSteps

(* What a power off that runs alone has undone by the step it is at. *)
OffInv ==
  \A t \in Callers :
    call[t] = "Off" /\ alone[t] =>
      /\ \A u \in Callers \ {t} : pc[u] = "idle"
      /\ pc[t] \notin {"stop", "unregister"} => ~registered
      /\ pc[t] \notin {"stop", "unregister", "disable", "product"} => product = "NONE"
      /\ pc[t] \in {"take mgr", "idle"} => dev = 0
      /\ pc[t] = "idle" => ~mgr

(* Which step is of which kind. *)
LEMMA Classes ==
  /\ "idle" \notin HoldSteps /\ "idle" \notin ExitSteps
  /\ "lock" \notin HoldSteps /\ "lock" \notin ExitSteps
  /\ "power" \in HoldSteps /\ "power" \notin ExitSteps
  /\ "register" \in HoldSteps /\ "register" \notin ExitSteps
  /\ "host" \in HoldSteps /\ "host" \notin ExitSteps
  /\ "cmd0" \in HoldSteps /\ "cmd0" \notin ExitSteps
  /\ "cmd5" \in HoldSteps /\ "cmd5" \notin ExitSteps
  /\ "ocr" \in HoldSteps /\ "ocr" \notin ExitSteps
  /\ "cmd3" \in HoldSteps /\ "cmd3" \notin ExitSteps
  /\ "cmd7" \in HoldSteps /\ "cmd7" \notin ExitSteps
  /\ "speed" \in HoldSteps /\ "speed" \notin ExitSteps
  /\ "clock" \in HoldSteps /\ "clock" \notin ExitSteps
  /\ "f1" \in HoldSteps /\ "f1" \notin ExitSteps
  /\ "cis" \in HoldSteps /\ "cis" \notin ExitSteps
  /\ "pid" \in HoldSteps /\ "pid" \notin ExitSteps
  /\ "block" \in HoldSteps /\ "block" \notin ExitSteps
  /\ "f1 regs" \in HoldSteps /\ "f1 regs" \notin ExitSteps
  /\ "wide" \in HoldSteps /\ "wide" \notin ExitSteps
  /\ "f2" \in HoldSteps /\ "f2" \notin ExitSteps
  /\ "device" \in HoldSteps /\ "device" \notin ExitSteps
  /\ "probe" \in HoldSteps /\ "probe" \notin ExitSteps
  /\ "mgr" \in HoldSteps /\ "mgr" \notin ExitSteps
  /\ "intr" \in HoldSteps /\ "intr" \notin ExitSteps
  /\ "bring up" \in HoldSteps /\ "bring up" \notin ExitSteps
  /\ "stop" \notin HoldSteps /\ "stop" \in ExitSteps
  /\ "unregister" \notin HoldSteps /\ "unregister" \in ExitSteps
  /\ "disable" \notin HoldSteps /\ "disable" \in ExitSteps
  /\ "product" \notin HoldSteps /\ "product" \in ExitSteps
  /\ "take dev" \notin HoldSteps /\ "take dev" \in ExitSteps
  /\ "take mgr" \notin HoldSteps /\ "take mgr" \in ExitSteps
  BY DEF HoldSteps, InitSteps, LateSteps, ExitSteps, DeviceSteps, SelectedSteps

LEMMA OnClasses ==
  /\ "idle" \notin InitSteps /\ "idle" \notin LateSteps
  /\ "lock" \notin InitSteps /\ "lock" \notin LateSteps
  /\ "power" \notin InitSteps /\ "power" \notin LateSteps
  /\ "register" \in InitSteps /\ "register" \notin LateSteps
  /\ "host" \in InitSteps /\ "host" \notin LateSteps
  /\ "cmd0" \in InitSteps /\ "cmd0" \notin LateSteps
  /\ "cmd5" \in InitSteps /\ "cmd5" \notin LateSteps
  /\ "ocr" \in InitSteps /\ "ocr" \notin LateSteps
  /\ "cmd3" \in InitSteps /\ "cmd3" \notin LateSteps
  /\ "cmd7" \in InitSteps /\ "cmd7" \notin LateSteps
  /\ "speed" \in InitSteps /\ "speed" \notin LateSteps
  /\ "clock" \in InitSteps /\ "clock" \notin LateSteps
  /\ "f1" \in InitSteps /\ "f1" \notin LateSteps
  /\ "cis" \in InitSteps /\ "cis" \notin LateSteps
  /\ "pid" \in InitSteps /\ "pid" \notin LateSteps
  /\ "block" \in InitSteps /\ "block" \notin LateSteps
  /\ "f1 regs" \in InitSteps /\ "f1 regs" \notin LateSteps
  /\ "wide" \in InitSteps /\ "wide" \notin LateSteps
  /\ "f2" \in InitSteps /\ "f2" \notin LateSteps
  /\ "device" \in InitSteps /\ "device" \notin LateSteps
  /\ "probe" \notin InitSteps /\ "probe" \in LateSteps
  /\ "mgr" \notin InitSteps /\ "mgr" \in LateSteps
  /\ "intr" \notin InitSteps /\ "intr" \in LateSteps
  /\ "bring up" \notin InitSteps /\ "bring up" \in LateSteps
  /\ "stop" \notin InitSteps /\ "stop" \notin LateSteps
  /\ "unregister" \notin InitSteps /\ "unregister" \notin LateSteps
  /\ "disable" \notin InitSteps /\ "disable" \notin LateSteps
  /\ "product" \notin InitSteps /\ "product" \notin LateSteps
  /\ "take dev" \notin InitSteps /\ "take dev" \notin LateSteps
  /\ "take mgr" \notin InitSteps /\ "take mgr" \notin LateSteps
  BY DEF HoldSteps, InitSteps, LateSteps, ExitSteps, DeviceSteps, SelectedSteps

LEMMA DoneClasses ==
  /\ "idle" \notin DeviceSteps /\ "idle" \notin SelectedSteps
  /\ "lock" \notin DeviceSteps /\ "lock" \notin SelectedSteps
  /\ "power" \notin DeviceSteps /\ "power" \notin SelectedSteps
  /\ "register" \notin DeviceSteps /\ "register" \notin SelectedSteps
  /\ "host" \notin DeviceSteps /\ "host" \notin SelectedSteps
  /\ "cmd0" \notin DeviceSteps /\ "cmd0" \notin SelectedSteps
  /\ "cmd5" \notin DeviceSteps /\ "cmd5" \notin SelectedSteps
  /\ "ocr" \notin DeviceSteps /\ "ocr" \notin SelectedSteps
  /\ "cmd3" \notin DeviceSteps /\ "cmd3" \notin SelectedSteps
  /\ "cmd7" \notin DeviceSteps /\ "cmd7" \notin SelectedSteps
  /\ "speed" \notin DeviceSteps /\ "speed" \in SelectedSteps
  /\ "clock" \notin DeviceSteps /\ "clock" \in SelectedSteps
  /\ "f1" \notin DeviceSteps /\ "f1" \in SelectedSteps
  /\ "cis" \notin DeviceSteps /\ "cis" \in SelectedSteps
  /\ "pid" \in DeviceSteps /\ "pid" \in SelectedSteps
  /\ "block" \in DeviceSteps /\ "block" \in SelectedSteps
  /\ "f1 regs" \in DeviceSteps /\ "f1 regs" \in SelectedSteps
  /\ "wide" \in DeviceSteps /\ "wide" \in SelectedSteps
  /\ "f2" \in DeviceSteps /\ "f2" \in SelectedSteps
  /\ "device" \in DeviceSteps /\ "device" \in SelectedSteps
  /\ "probe" \notin DeviceSteps /\ "probe" \in SelectedSteps
  /\ "mgr" \notin DeviceSteps /\ "mgr" \in SelectedSteps
  /\ "intr" \notin DeviceSteps /\ "intr" \in SelectedSteps
  /\ "bring up" \notin DeviceSteps /\ "bring up" \in SelectedSteps
  /\ "stop" \notin DeviceSteps /\ "stop" \notin SelectedSteps
  /\ "unregister" \notin DeviceSteps /\ "unregister" \notin SelectedSteps
  /\ "disable" \notin DeviceSteps /\ "disable" \notin SelectedSteps
  /\ "product" \notin DeviceSteps /\ "product" \notin SelectedSteps
  /\ "take dev" \notin DeviceSteps /\ "take dev" \notin SelectedSteps
  /\ "take mgr" \notin DeviceSteps /\ "take mgr" \notin SelectedSteps
  BY DEF HoldSteps, InitSteps, LateSteps, ExitSteps, DeviceSteps, SelectedSteps

(* A caller that neither waits for power_lock nor holds it runs a power off. *)
LEMMA StepKinds ==
  ASSUME NEW t \in Callers, Step(t), pc[t] \notin HoldSteps \cup {"lock"}
  PROVE  \/ ExitStop(t) \/ ExitUnregister(t) \/ ExitDisable(t) \/ ExitProduct(t)
         \/ TakeDevice(t) \/ TakeMgr(t)
<1>1. \A s \in CardSteps : s \in HoldSteps
  BY DEF CardSteps, HoldSteps, InitSteps
<1> QED
  BY <1>1, Classes DEF Step, At, CardFails, Lock, PowerOn, Register, HostInit, Cmd0,
     Cmd5Ocr, Cmd5, Cmd5NotReady, Cmd3, Cmd7, CardCommand, EnableHighSpeed, SetClock,
     EnableF1, ProbeCis, ReadProduct, BlockSizeF1, ConfigF1, Writes, Enable4Bit,
     EnableF2, StoreDevice, TryProbe, StoreMgr, IntrConfig, BringUp

(* LockInv, for a step of a call: power_lock is taken once and dropped on
   every return. *)
LEMMA LockStep ==
  ASSUME TypeOK, LockInv, NEW t \in Callers, Step(t)
  PROVE  LockInv'
<1> USE DEF LockInv, At, Go, Return, Quiet, Continues, Sent, busVars, cardVars,
            callVars, histVars, sharedVars
<1>0. /\ pc \in [Callers -> Steps]
      /\ res \in [Callers -> {"none", "OK", "ERR"}]
  BY Zenon DEF TypeOK, Steps
<1>1. CASE CardFails(t)
  BY <1>1, <1>0, Classes DEF CardFails
<1>2. CASE Lock(t)
  <2>1. \A u \in Callers : power_lock # u
    BY <1>2 DEF Lock
  <2>2. /\ pc[t] = "lock" /\ pc' = [pc EXCEPT ![t] = "power"]
        /\ power_lock' = t /\ UNCHANGED <<call, res>>
    BY <1>2 DEF Lock
  <2> QED
    BY <2>2, <1>0, <2>1, Classes
<1>3. CASE PowerOn(t)
  BY <1>3, <1>0, Classes, ZenonT(60) DEF PowerOn
<1>4. CASE Register(t)
  BY <1>4, <1>0, Classes DEF Register
<1>5. CASE HostInit(t)
  BY <1>5, <1>0, Classes DEF HostInit
<1>6. CASE Cmd0(t)
  BY <1>6, <1>0, Classes DEF Cmd0, CardCommand
<1>7. CASE Cmd5Ocr(t)
  BY <1>7, <1>0, Classes DEF Cmd5Ocr, CardCommand
<1>8. CASE Cmd5(t)
  BY <1>8, <1>0, Classes DEF Cmd5
<1>9. CASE Cmd5NotReady(t)
  BY <1>9, <1>0, Classes DEF Cmd5NotReady
<1>10. CASE Cmd3(t)
  BY <1>10, <1>0, Classes DEF Cmd3, CardCommand
<1>11. CASE Cmd7(t)
  BY <1>11, <1>0, Classes DEF Cmd7, CardCommand
<1>12. CASE EnableHighSpeed(t)
  BY <1>12, <1>0, Classes DEF EnableHighSpeed
<1>13. CASE SetClock(t)
  BY <1>13, <1>0, Classes DEF SetClock
<1>14. CASE EnableF1(t)
  BY <1>14, <1>0, Classes DEF EnableF1
<1>15. CASE ProbeCis(t)
  BY <1>15, <1>0, Classes DEF ProbeCis
<1>16. CASE ReadProduct(t)
  BY <1>16, <1>0, Classes, ZenonT(60) DEF ReadProduct
<1>17. CASE BlockSizeF1(t)
  BY <1>17, <1>0, Classes DEF BlockSizeF1, Writes
<1>18. CASE ConfigF1(t)
  BY <1>18, <1>0, Classes DEF ConfigF1, Writes
<1>19. CASE Enable4Bit(t)
  BY <1>19, <1>0, Classes DEF Enable4Bit
<1>20. CASE EnableF2(t)
  BY <1>20, <1>0, Classes DEF EnableF2
<1>21. CASE StoreDevice(t)
  BY <1>21, <1>0, Classes DEF StoreDevice
<1>22. CASE TryProbe(t)
  BY <1>22, <1>0, Classes DEF TryProbe
<1>23. CASE StoreMgr(t)
  BY <1>23, <1>0, Classes DEF StoreMgr
<1>24. CASE IntrConfig(t)
  BY <1>24, <1>0, Classes DEF IntrConfig
<1>25. CASE BringUp(t)
  BY <1>25, <1>0, Classes, ZenonT(60) DEF BringUp
<1>26. CASE ExitStop(t)
  BY <1>26, <1>0, Classes DEF ExitStop
<1>27. CASE ExitUnregister(t)
  BY <1>27, <1>0, Classes DEF ExitUnregister
<1>28. CASE ExitDisable(t)
  BY <1>28, <1>0, Classes DEF ExitDisable
<1>29. CASE ExitProduct(t)
  BY <1>29, <1>0, Classes DEF ExitProduct
<1>30. CASE TakeDevice(t)
  BY <1>30, <1>0, Classes DEF TakeDevice
<1>31. CASE TakeMgr(t)
  BY <1>31, <1>0, Classes DEF TakeMgr
<1> QED
  BY <1>1, <1>2, <1>3, <1>4, <1>5, <1>6, <1>7, <1>8, <1>9, <1>10, <1>11,
     <1>12, <1>13, <1>14, <1>15, <1>16, <1>17, <1>18, <1>19, <1>20, <1>21,
     <1>22, <1>23, <1>24, <1>25, <1>26, <1>27, <1>28, <1>29, <1>30, <1>31 DEF
     Step

(* LockInv, for a new call. *)
LEMMA LockStart ==
  ASSUME TypeOK, LockInv, NEW t \in Callers,
         NEW c \in {"On", "Verify", "GpioTest", "Off"},
         Start(t, c)
  PROVE  LockInv'
<1> USE DEF LockInv, At, Go, Return, Quiet, Continues, Sent, busVars, cardVars,
            callVars, histVars, sharedVars
<1>0. /\ pc \in [Callers -> Steps]
      /\ res \in [Callers -> {"none", "OK", "ERR"}]
      /\ call \in [Callers -> {"none", "On", "Verify", "GpioTest", "Off"}]
  BY Zenon DEF TypeOK, Steps
<1>1. CASE c = "Off"
  BY <1>0, <1>1, Classes DEF Start
<1>2. CASE c # "Off"
  BY <1>0, <1>2, Classes DEF Start
<1> QED
  BY <1>1, <1>2

(* LockInv, for a transfer of another thread. *)
LEMMA LockUse ==
  ASSUME LockInv, Use \/ UseEnds \/ UNCHANGED vars
  PROVE  LockInv'
  BY DEF LockInv, Use, UseEnds, vars, busVars, cardVars, callVars, histVars,
     sharedVars, OnMeansUp

(* CardInv: only the holder of power_lock sends commands to the card. *)
LEMMA CardStep ==
  ASSUME TypeOK, LockInv, CardInv, NEW t \in Callers, Step(t)
  PROVE  CardInv'
<1> USE DEF CardInv, At, Go, Return, Quiet, Continues, Sent, busVars, cardVars,
            callVars, histVars, sharedVars
<1>0. /\ pc \in [Callers -> Steps]
  BY Zenon DEF TypeOK, Steps
<1>a. \A u \in Callers :
        /\ pc[u] = "cmd3" \/ pc[u] = "cmd7" \/ pc[u] \in SelectedSteps => pc[u] \in HoldSteps
        /\ pc[u] \in HoldSteps /\ pc[t] \in HoldSteps => u = t
  BY DEF LockInv, HoldSteps, SelectedSteps, DeviceSteps, InitSteps, LateSteps
<1>1. CASE CardFails(t)
  BY <1>1, <1>0, <1>a, Classes, DoneClasses DEF CardFails
<1>2. CASE Lock(t)
  BY <1>2, <1>0, <1>a, Classes, DoneClasses DEF Lock
<1>3. CASE PowerOn(t)
  BY <1>3, <1>0, <1>a, Classes, DoneClasses DEF PowerOn
<1>4. CASE Register(t)
  BY <1>4, <1>0, <1>a, Classes, DoneClasses DEF Register
<1>5. CASE HostInit(t)
  BY <1>5, <1>0, <1>a, Classes, DoneClasses DEF HostInit
<1>6. CASE Cmd0(t)
  <2>1. PICK s \in {"idle", "ready", "stby", "tran"} :
          CardCommand(t, "cmd0", "cmd5", s, "idle")
    BY <1>6 DEF Cmd0
  <2> QED
    BY <2>1, <1>0, <1>a, Classes, DoneClasses DEF CardCommand
<1>7. CASE Cmd5Ocr(t)
  BY <1>7, <1>0, <1>a, Classes, DoneClasses DEF Cmd5Ocr, CardCommand
<1>8. CASE Cmd5(t)
  BY <1>8, <1>0, <1>a, Classes, DoneClasses DEF Cmd5
<1>9. CASE Cmd5NotReady(t)
  BY <1>9, <1>0, <1>a, Classes, DoneClasses DEF Cmd5NotReady
<1>10. CASE Cmd3(t)
  BY <1>10, <1>0, <1>a, Classes, DoneClasses DEF Cmd3, CardCommand
<1>11. CASE Cmd7(t)
  BY <1>11, <1>0, <1>a, Classes, DoneClasses DEF Cmd7, CardCommand
<1>12. CASE EnableHighSpeed(t)
  BY <1>12, <1>0, <1>a, Classes, DoneClasses DEF EnableHighSpeed
<1>13. CASE SetClock(t)
  BY <1>13, <1>0, <1>a, Classes, DoneClasses DEF SetClock
<1>14. CASE EnableF1(t)
  BY <1>14, <1>0, <1>a, Classes, DoneClasses DEF EnableF1
<1>15. CASE ProbeCis(t)
  BY <1>15, <1>0, <1>a, Classes, DoneClasses DEF ProbeCis
<1>16. CASE ReadProduct(t)
  BY <1>16, <1>0, <1>a, Classes, DoneClasses DEF ReadProduct
<1>17. CASE BlockSizeF1(t)
  BY <1>17, <1>0, <1>a, Classes, DoneClasses DEF BlockSizeF1, Writes
<1>18. CASE ConfigF1(t)
  BY <1>18, <1>0, <1>a, Classes, DoneClasses DEF ConfigF1, Writes
<1>19. CASE Enable4Bit(t)
  BY <1>19, <1>0, <1>a, Classes, DoneClasses DEF Enable4Bit
<1>20. CASE EnableF2(t)
  BY <1>20, <1>0, <1>a, Classes, DoneClasses DEF EnableF2
<1>21. CASE StoreDevice(t)
  BY <1>21, <1>0, <1>a, Classes, DoneClasses DEF StoreDevice
<1>22. CASE TryProbe(t)
  BY <1>22, <1>0, <1>a, Classes, DoneClasses DEF TryProbe
<1>23. CASE StoreMgr(t)
  BY <1>23, <1>0, <1>a, Classes, DoneClasses DEF StoreMgr
<1>24. CASE IntrConfig(t)
  BY <1>24, <1>0, <1>a, Classes, DoneClasses DEF IntrConfig
<1>25. CASE BringUp(t)
  BY <1>25, <1>0, <1>a, Classes, DoneClasses DEF BringUp
<1>26. CASE ExitStop(t)
  BY <1>26, <1>0, <1>a, Classes, DoneClasses DEF ExitStop
<1>27. CASE ExitUnregister(t)
  BY <1>27, <1>0, <1>a, Classes, DoneClasses DEF ExitUnregister
<1>28. CASE ExitDisable(t)
  BY <1>28, <1>0, <1>a, Classes, DoneClasses DEF ExitDisable
<1>29. CASE ExitProduct(t)
  BY <1>29, <1>0, <1>a, Classes, DoneClasses DEF ExitProduct
<1>30. CASE TakeDevice(t)
  BY <1>30, <1>0, <1>a, Classes, DoneClasses DEF TakeDevice
<1>31. CASE TakeMgr(t)
  BY <1>31, <1>0, <1>a, Classes, DoneClasses DEF TakeMgr
<1> QED
  BY <1>1, <1>2, <1>3, <1>4, <1>5, <1>6, <1>7, <1>8, <1>9, <1>10, <1>11,
     <1>12, <1>13, <1>14, <1>15, <1>16, <1>17, <1>18, <1>19, <1>20, <1>21,
     <1>22, <1>23, <1>24, <1>25, <1>26, <1>27, <1>28, <1>29, <1>30, <1>31 DEF
     Step

LEMMA CardStart ==
  ASSUME TypeOK, LockInv, CardInv, NEW t \in Callers,
         NEW c \in {"On", "Verify", "GpioTest", "Off"},
         Start(t, c)
  PROVE  CardInv'
<1> USE DEF CardInv, At, Go, Return, Quiet, Continues, Sent, busVars, cardVars,
            callVars, histVars, sharedVars
<1>0. /\ pc \in [Callers -> Steps]
  BY Zenon DEF TypeOK, Steps
<1>1. CASE c = "Off"
  BY <1>0, <1>1, DoneClasses DEF Start
<1>2. CASE c # "Off"
  BY <1>0, <1>2, DoneClasses DEF Start
<1> QED
  BY <1>1, <1>2

LEMMA CardUse ==
  ASSUME CardInv, Use \/ UseEnds \/ UNCHANGED vars
  PROVE  CardInv'
  BY DEF CardInv, Use, UseEnds, vars, busVars, cardVars, callVars, histVars,
     sharedVars, OnMeansUp

(* AloneInv: a power on that no power off disturbs keeps what it did. *)
LEMMA AloneStep ==
  ASSUME TypeOK, LockInv, AloneInv, NEW t \in Callers, Step(t)
  PROVE  AloneInv'
<1> USE DEF AloneInv, At, Go, Return, Quiet, Continues, Sent, busVars, cardVars,
            callVars, histVars, sharedVars
<1>0. /\ pc \in [Callers -> Steps]
  BY Zenon DEF TypeOK, Steps
<1>a. \A u \in Callers : pc[u] \in HoldSteps /\ pc[t] \in HoldSteps => u = t
  BY DEF LockInv
<1>1. CASE CardFails(t)
  BY <1>1, <1>0, <1>a, Classes, OnClasses, DoneClasses DEF CardFails
<1>2. CASE Lock(t)
  BY <1>2, <1>0, <1>a, Classes, OnClasses, DoneClasses DEF Lock
<1>3. CASE PowerOn(t)
  <2>1. /\ pc[t] = "power" /\ pc' \in {[pc EXCEPT ![t] = "idle"], [pc EXCEPT ![t] = "register"]}
        /\ alone' = alone
    BY <1>3 DEF PowerOn
  <2>2. ASSUME NEW u \in Callers, pc'[u] \in HoldSteps  PROVE u = t /\ pc'[u] = "register"
    BY <2>1, <2>2, <1>0, <1>a, Classes
  <2> QED
    BY <2>1, <2>2, <1>0, Classes, OnClasses, DoneClasses
<1>4. CASE Register(t)
  BY <1>4, <1>0, <1>a, Classes, OnClasses, DoneClasses DEF Register
<1>5. CASE HostInit(t)
  BY <1>5, <1>0, <1>a, Classes, OnClasses, DoneClasses DEF HostInit
<1>6. CASE Cmd0(t)
  <2>1. PICK s \in {"idle", "ready", "stby", "tran"} :
          CardCommand(t, "cmd0", "cmd5", s, "idle")
    BY <1>6 DEF Cmd0
  <2> QED
    BY <2>1, <1>0, <1>a, Classes, OnClasses, DoneClasses DEF CardCommand
<1>7. CASE Cmd5Ocr(t)
  BY <1>7, <1>0, <1>a, Classes, OnClasses, DoneClasses DEF Cmd5Ocr, CardCommand
<1>8. CASE Cmd5(t)
  BY <1>8, <1>0, <1>a, Classes, OnClasses, DoneClasses, ZenonT(60) DEF Cmd5
<1>9. CASE Cmd5NotReady(t)
  BY <1>9, <1>0, <1>a, Classes, OnClasses, DoneClasses DEF Cmd5NotReady
<1>10. CASE Cmd3(t)
  BY <1>10, <1>0, <1>a, Classes, OnClasses, DoneClasses DEF Cmd3, CardCommand
<1>11. CASE Cmd7(t)
  BY <1>11, <1>0, <1>a, Classes, OnClasses, DoneClasses DEF Cmd7, CardCommand
<1>12. CASE EnableHighSpeed(t)
  BY <1>12, <1>0, <1>a, Classes, OnClasses, DoneClasses DEF EnableHighSpeed
<1>13. CASE SetClock(t)
  BY <1>13, <1>0, <1>a, Classes, OnClasses, DoneClasses DEF SetClock
<1>14. CASE EnableF1(t)
  BY <1>14, <1>0, <1>a, Classes, OnClasses, DoneClasses DEF EnableF1
<1>15. CASE ProbeCis(t)
  BY <1>15, <1>0, <1>a, Classes, OnClasses, DoneClasses DEF ProbeCis
<1>16. CASE ReadProduct(t)
  <2>1. /\ pc[t] = "pid" /\ \E s \in {"idle", "block", "wide"} : pc' = [pc EXCEPT ![t] = s]
        /\ UNCHANGED <<alone, chip, gen, registered, product, dev, mgr, funcs>>
    BY <1>16 DEF ReadProduct
  <2> QED
    BY <2>1, <1>0, <1>a, Classes, OnClasses, DoneClasses, ZenonT(60)
<1>17. CASE BlockSizeF1(t)
  BY <1>17, <1>0, <1>a, Classes, OnClasses, DoneClasses DEF BlockSizeF1, Writes
<1>18. CASE ConfigF1(t)
  BY <1>18, <1>0, <1>a, Classes, OnClasses, DoneClasses DEF ConfigF1, Writes
<1>19. CASE Enable4Bit(t)
  BY <1>19, <1>0, <1>a, Classes, OnClasses, DoneClasses DEF Enable4Bit
<1>20. CASE EnableF2(t)
  BY <1>20, <1>0, <1>a, Classes, OnClasses, DoneClasses DEF EnableF2
<1>21. CASE StoreDevice(t)
  BY <1>21, <1>0, <1>a, Classes, OnClasses, DoneClasses DEF StoreDevice
<1>22. CASE TryProbe(t)
  BY <1>22, <1>0, <1>a, Classes, OnClasses, DoneClasses DEF TryProbe
<1>23. CASE StoreMgr(t)
  BY <1>23, <1>0, <1>a, Classes, OnClasses, DoneClasses DEF StoreMgr
<1>24. CASE IntrConfig(t)
  BY <1>24, <1>0, <1>a, Classes, OnClasses, DoneClasses DEF IntrConfig
<1>25. CASE BringUp(t)
  BY <1>25, <1>0, <1>a, Classes, OnClasses, DoneClasses DEF BringUp
<1>26. CASE ExitStop(t)
  BY <1>26, <1>0, <1>a, Classes, OnClasses, DoneClasses DEF ExitStop
<1>27. CASE ExitUnregister(t)
  BY <1>27, <1>0, <1>a, Classes, OnClasses, DoneClasses DEF ExitUnregister
<1>28. CASE ExitDisable(t)
  BY <1>28, <1>0, <1>a, Classes, OnClasses, DoneClasses DEF ExitDisable
<1>29. CASE ExitProduct(t)
  BY <1>29, <1>0, <1>a, Classes, OnClasses, DoneClasses DEF ExitProduct
<1>30. CASE TakeDevice(t)
  BY <1>30, <1>0, <1>a, Classes, OnClasses, DoneClasses DEF TakeDevice
<1>31. CASE TakeMgr(t)
  <2>1. /\ pc[t] = "take mgr" /\ pc' = [pc EXCEPT ![t] = "idle"]
        /\ UNCHANGED <<alone, chip, gen, registered, product, dev, funcs>>
    BY <1>31 DEF TakeMgr
  <2>2. ASSUME NEW u \in Callers, alone[u], pc[u] \in HoldSteps \cup {"lock"}  PROVE FALSE
    BY <2>1, <2>2, Classes
  <2> QED
    BY <2>1, <2>2, <1>0, Classes
<1> QED
  BY <1>1, <1>2, <1>3, <1>4, <1>5, <1>6, <1>7, <1>8, <1>9, <1>10, <1>11,
     <1>12, <1>13, <1>14, <1>15, <1>16, <1>17, <1>18, <1>19, <1>20, <1>21,
     <1>22, <1>23, <1>24, <1>25, <1>26, <1>27, <1>28, <1>29, <1>30, <1>31 DEF
     Step

LEMMA AloneStart ==
  ASSUME TypeOK, LockInv, AloneInv, NEW t \in Callers,
         NEW c \in {"On", "Verify", "GpioTest", "Off"},
         Start(t, c)
  PROVE  AloneInv'
<1> USE DEF AloneInv, At, Go, Return, Quiet, Continues, Sent, busVars, cardVars,
            callVars, histVars, sharedVars
<1>0. /\ pc \in [Callers -> Steps]
      /\ alone \in [Callers -> BOOLEAN]
      /\ call \in [Callers -> {"none", "On", "Verify", "GpioTest", "Off"}]
  BY Zenon DEF TypeOK, Steps
<1>1. CASE c = "Off"
  BY <1>0, <1>1, Classes, OnClasses, DoneClasses DEF Start
<1>2. CASE c # "Off"
  BY <1>0, <1>2, Classes, OnClasses, DoneClasses, ZenonT(60) DEF Start
<1> QED
  BY <1>1, <1>2

LEMMA AloneUse ==
  ASSUME AloneInv, Use \/ UseEnds \/ UNCHANGED vars
  PROVE  AloneInv'
<1>1. UNCHANGED <<alone, pc, chip, gen, registered, product, dev, mgr, funcs>>
  BY DEF Use, UseEnds, vars, busVars, cardVars, histVars, sharedVars
<1> QED
  BY <1>1 DEF AloneInv

(* UpInv: the bring-up ends with everything done; the next power cycle or
   power off ends it. *)
LEMMA UpStep ==
  ASSUME TypeOK, LockInv, CardInv, AloneInv, UpInv, NEW t \in Callers, Step(t)
  PROVE  UpInv'
<1> USE DEF UpInv, At, Go, Return, Quiet, Continues, Sent, busVars, cardVars,
            callVars, histVars, sharedVars
<1>0. /\ pc \in [Callers -> Steps]
  BY Zenon DEF TypeOK, Steps
<1> USE DEF OnMeansUp
<1>1. CASE CardFails(t)
  BY <1>1, <1>0, Classes, OnClasses, DoneClasses DEF CardFails
<1>2. CASE Lock(t)
  BY <1>2, <1>0, Classes, OnClasses, DoneClasses DEF Lock
<1>3. CASE PowerOn(t)
  BY <1>3, <1>0, Classes, OnClasses, DoneClasses DEF PowerOn
<1>4. CASE Register(t)
  BY <1>4, <1>0, Classes, OnClasses, DoneClasses DEF Register
<1>5. CASE HostInit(t)
  BY <1>5, <1>0, Classes, OnClasses, DoneClasses DEF HostInit
<1>6. CASE Cmd0(t)
  <2>1. PICK s \in {"idle", "ready", "stby", "tran"} :
          CardCommand(t, "cmd0", "cmd5", s, "idle")
    BY <1>6 DEF Cmd0
  <2> QED
    BY <2>1, <1>0, Classes, OnClasses, DoneClasses DEF CardCommand
<1>7. CASE Cmd5Ocr(t)
  BY <1>7, <1>0, Classes, OnClasses, DoneClasses DEF Cmd5Ocr, CardCommand
<1>8. CASE Cmd5(t)
  BY <1>8, <1>0, Classes, OnClasses, DoneClasses DEF Cmd5
<1>9. CASE Cmd5NotReady(t)
  BY <1>9, <1>0, Classes, OnClasses, DoneClasses DEF Cmd5NotReady
<1>10. CASE Cmd3(t)
  BY <1>10, <1>0, Classes, OnClasses, DoneClasses DEF Cmd3, CardCommand
<1>11. CASE Cmd7(t)
  BY <1>11, <1>0, Classes, OnClasses, DoneClasses DEF Cmd7, CardCommand
<1>12. CASE EnableHighSpeed(t)
  BY <1>12, <1>0, Classes, OnClasses, DoneClasses DEF EnableHighSpeed
<1>13. CASE SetClock(t)
  BY <1>13, <1>0, Classes, OnClasses, DoneClasses DEF SetClock
<1>14. CASE EnableF1(t)
  BY <1>14, <1>0, Classes, OnClasses, DoneClasses DEF EnableF1
<1>15. CASE ProbeCis(t)
  BY <1>15, <1>0, Classes, OnClasses, DoneClasses DEF ProbeCis
<1>16. CASE ReadProduct(t)
  BY <1>16, <1>0, Classes, OnClasses, DoneClasses DEF ReadProduct
<1>17. CASE BlockSizeF1(t)
  BY <1>17, <1>0, Classes, OnClasses, DoneClasses DEF BlockSizeF1, Writes
<1>18. CASE ConfigF1(t)
  BY <1>18, <1>0, Classes, OnClasses, DoneClasses DEF ConfigF1, Writes
<1>19. CASE Enable4Bit(t)
  BY <1>19, <1>0, Classes, OnClasses, DoneClasses DEF Enable4Bit
<1>20. CASE EnableF2(t)
  BY <1>20, <1>0, Classes, OnClasses, DoneClasses DEF EnableF2
<1>21. CASE StoreDevice(t)
  BY <1>21, <1>0, Classes, OnClasses, DoneClasses DEF StoreDevice
<1>22. CASE TryProbe(t)
  BY <1>22, <1>0, Classes, OnClasses, DoneClasses DEF TryProbe
<1>23. CASE StoreMgr(t)
  BY <1>23, <1>0, Classes, OnClasses, DoneClasses DEF StoreMgr
<1>24. CASE IntrConfig(t)
  BY <1>24, <1>0, Classes, OnClasses, DoneClasses DEF IntrConfig
<1>25. CASE BringUp(t)
  <2>1. /\ pc[t] = "bring up" /\ pc' = [pc EXCEPT ![t] = "idle"]
        /\ UNCHANGED <<chip, gen, registered, product, dev, mgr, funcs, card>>
        /\ upBy' = upBy \/ (alone[t] /\ upBy' = gen)
    BY <1>25 DEF BringUp
  <2>2. upBy = 0
    BY <2>1, OnClasses
  <2>3. ASSUME alone[t]
        PROVE  /\ dev = gen /\ mgr /\ product = chip /\ registered
               /\ card = "tran" /\ 1 \in funcs
               /\ \A u \in Callers : pc[u] \notin ExitSteps
    BY <2>1, <2>3, Classes, OnClasses, DoneClasses DEF AloneInv, CardInv
  <2>4. \A u \in Callers \ {t} : pc[u] \notin InitSteps \cup LateSteps
    BY <2>1, Classes DEF LockInv, HoldSteps
  <2>5. "idle" \notin ExitSteps \cup InitSteps \cup LateSteps
    BY Classes, OnClasses
  <2> QED
    BY <2>1, <2>2, <2>3, <2>4, <2>5, <1>0
<1>26. CASE ExitStop(t)
  BY <1>26, <1>0, Classes, OnClasses, DoneClasses DEF ExitStop
<1>27. CASE ExitUnregister(t)
  BY <1>27, <1>0, Classes, OnClasses, DoneClasses DEF ExitUnregister
<1>28. CASE ExitDisable(t)
  BY <1>28, <1>0, Classes, OnClasses, DoneClasses DEF ExitDisable
<1>29. CASE ExitProduct(t)
  BY <1>29, <1>0, Classes, OnClasses, DoneClasses DEF ExitProduct
<1>30. CASE TakeDevice(t)
  BY <1>30, <1>0, Classes, OnClasses, DoneClasses DEF TakeDevice
<1>31. CASE TakeMgr(t)
  <2>1. pc[t] = "take mgr" /\ upBy' = upBy
    BY <1>31 DEF TakeMgr
  <2> QED
    BY <2>1, Classes
<1> QED
  BY <1>1, <1>2, <1>3, <1>4, <1>5, <1>6, <1>7, <1>8, <1>9, <1>10, <1>11,
     <1>12, <1>13, <1>14, <1>15, <1>16, <1>17, <1>18, <1>19, <1>20, <1>21,
     <1>22, <1>23, <1>24, <1>25, <1>26, <1>27, <1>28, <1>29, <1>30, <1>31 DEF
     Step

LEMMA UpStart ==
  ASSUME TypeOK, LockInv, UpInv, NEW t \in Callers,
         NEW c \in {"On", "Verify", "GpioTest", "Off"},
         Start(t, c)
  PROVE  UpInv'
<1> USE DEF UpInv, At, Go, Return, Quiet, Continues, Sent, busVars, cardVars,
            callVars, histVars, sharedVars
<1>0. /\ pc \in [Callers -> Steps]
  BY Zenon DEF TypeOK, Steps
<1>1. CASE c = "Off"
  BY <1>0, <1>1, Classes, OnClasses DEF Start
<1>2. CASE c # "Off"
  <2>1. /\ pc' = [pc EXCEPT ![t] = "lock"]
        /\ UNCHANGED <<chip, gen, registered, product, dev, mgr, funcs, card, upBy>>
    BY <1>2 DEF Start
  <2> QED
    BY <2>1, <1>0, Classes, OnClasses DEF OnMeansUp
<1> QED
  BY <1>1, <1>2

LEMMA UpUse ==
  ASSUME UpInv, Use \/ UseEnds \/ UNCHANGED vars
  PROVE  UpInv'
  BY DEF UpInv, Use, UseEnds, vars, busVars, cardVars, callVars, histVars,
     sharedVars, OnMeansUp

(* OffInv: nobody else runs, and each step of the power off clears its own. *)
LEMMA OffStep ==
  ASSUME TypeOK, LockInv, OffInv, NEW t \in Callers, Step(t)
  PROVE  OffInv'
<1> USE DEF OffInv, At, Go, Return, Quiet, Continues, sharedVars, histVars
<1>0. pc \in [Callers -> Steps]
  BY DEF TypeOK, Steps
<1>1. UNCHANGED <<call, alone>>
  BY StepMoves
<1>2. CASE pc[t] \in HoldSteps \cup {"lock"}
  <2>1. \A u \in Callers : ~(call[u] = "Off" /\ alone[u])
    BY <1>2, Classes DEF LockInv
  <2> QED
    BY <1>1, <2>1
<1>3. CASE pc[t] \notin HoldSteps \cup {"lock"}
  <2>0. \A u \in Callers : call[u] = "Off" /\ alone[u] /\ pc[t] # "idle" => u = t
    OBVIOUS
  <2>1. CASE ExitStop(t)
    BY <2>1, <2>0, <1>0, <1>1 DEF ExitStop
  <2>2. CASE ExitUnregister(t)
    BY <2>2, <2>0, <1>0, <1>1 DEF ExitUnregister
  <2>3. CASE ExitDisable(t)
    BY <2>3, <2>0, <1>0, <1>1 DEF ExitDisable
  <2>4. CASE ExitProduct(t)
    BY <2>4, <2>0, <1>0, <1>1 DEF ExitProduct
  <2>5. CASE TakeDevice(t)
    BY <2>5, <2>0, <1>0, <1>1 DEF TakeDevice
  <2>6. CASE TakeMgr(t)
    BY <2>6, <2>0, <1>0, <1>1 DEF TakeMgr
  <2> QED
    BY <1>3, <2>1, <2>2, <2>3, <2>4, <2>5, <2>6, StepKinds
<1> QED
  BY <1>2, <1>3

LEMMA OffStart ==
  ASSUME TypeOK, LockInv, OffInv, NEW t \in Callers,
         NEW c \in {"On", "Verify", "GpioTest", "Off"},
         Start(t, c)
  PROVE  OffInv'
<1> USE DEF OffInv, At, Go, Return, Quiet, Continues, Sent, busVars, cardVars,
            callVars, histVars, sharedVars
<1>0. /\ pc \in [Callers -> Steps]
      /\ call \in [Callers -> {"none", "On", "Verify", "GpioTest", "Off"}]
  BY Zenon DEF TypeOK, Steps
<1>1. CASE c = "Off"
  BY <1>0, <1>1, Classes DEF Start
<1>2. CASE c # "Off"
  <2>1. /\ call' = [call EXCEPT ![t] = c]
        /\ \A u \in Callers \ {t} : alone'[u] => call[u] # "Off"
    BY <1>2 DEF Start
  <2> QED
    BY <2>1, <1>0, <1>2
<1> QED
  BY <1>1, <1>2

LEMMA OffUse ==
  ASSUME OffInv, Use \/ UseEnds \/ UNCHANGED vars
  PROVE  OffInv'
  BY DEF OffInv, Use, UseEnds, vars, busVars, cardVars, callVars, histVars,
     sharedVars, OnMeansUp
-----------------------------------------------------------------------------
(* The inductive invariant. *)

IInv == TypeOK /\ LockInv /\ CardInv /\ AloneInv /\ UpInv /\ OffInv

LEMMA IInvInit == Init => IInv
<1> SUFFICES ASSUME Init  PROVE IInv
  OBVIOUS
<1>1. LockInv /\ CardInv
  BY Classes, OnClasses, DoneClasses DEF Init, LockInv, CardInv
<1>2. AloneInv /\ OffInv
  BY DEF Init, AloneInv, OffInv
<1>3. UpInv
  BY DEF Init, UpInv
<1> QED
  BY TypeInit, <1>1, <1>2, <1>3 DEF IInv

LEMMA IInvStep == IInv /\ [Next]_vars => IInv'
<1> SUFFICES ASSUME IInv, [Next]_vars  PROVE IInv'
  OBVIOUS
<1>0. TypeOK'
  BY BusTypeStep, SharedTypeStep, CallTypeStep, TypeParts DEF IInv
<1>1. ASSUME NEW t \in Callers, Step(t)  PROVE IInv'
  BY <1>0, <1>1, LockStep, CardStep, AloneStep, UpStep, OffStep DEF IInv
<1>2. ASSUME NEW t \in Callers, NEW c \in {"On", "Verify", "GpioTest", "Off"},
             Start(t, c)
      PROVE  IInv'
  BY <1>0, <1>2, LockStart, CardStart, AloneStart, UpStart, OffStart
     DEF IInv
<1>3. ASSUME Use \/ UseEnds \/ UNCHANGED vars  PROVE IInv'
  BY <1>0, <1>3, LockUse, CardUse, AloneUse, UpUse, OffUse DEF IInv
<1> QED
  BY <1>1, <1>2, <1>3 DEF Next

LEMMA IInvAlways == Spec => []IInv
  BY IInvInit, IInvStep, PTL DEF Spec

-----------------------------------------------------------------------------
(* The theorems. *)

(* Type correctness of power on and off (aicbsp_set_subsys, aicbsp_exit). *)
THEOREM TypeCorrect == Spec => []TypeOK
<1>1. IInv => TypeOK
  BY DEF IInv
<1> QED
  BY <1>1, IInvAlways, PTL

(* POWER_LOCK excludes: at most one caller is between the power cycle and the *)
(* end of aicbsp_driver_fw_init, whatever fails and whoever powers off.       *)
THEOREM PowerLockExcludes ==
  Spec => [](\A t, u \in Callers : pc[t] \in HoldSteps /\ pc[u] \in HoldSteps => t = u)
<1>1. IInv => \A t, u \in Callers : pc[t] \in HoldSteps /\ pc[u] \in HoldSteps => t = u
  BY DEF IInv, LockInv
<1> QED
  BY <1>1, IInvAlways, PTL

(* A power on that succeeded with no power off in between leaves device,      *)
(* manager, product and card of its own power cycle.                          *)
THEOREM OnLeavesUp == Spec => []OnMeansUp
<1>1. IInv => OnMeansUp
  BY DEF IInv, UpInv, OnMeansUp
<1> QED
  BY <1>1, IInvAlways, PTL

(* A power off that ran alone leaves no device, manager, product or driver.   *)
THEOREM OffLeavesDown == Spec => []OffMeansDown
<1>1. IInv => OffMeansDown
  BY DEF IInv, LockInv, OffInv, OffMeansDown
<1> QED
  BY <1>1, IInvAlways, PTL
=============================================================================
