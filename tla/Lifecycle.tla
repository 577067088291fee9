----------------------------- MODULE Lifecycle ------------------------------
(***************************************************************************)
(* Power on and off (driver/bsp/src/lib.rs, sdio/flow.rs, sdio/backend.rs): *)
(* aicbsp_set_subsys, aicbsp_minimal_ipc_verify, aicbsp_init_gpio_test and  *)
(* aicbsp_exit, called by any thread at any time.  Power on holds           *)
(* power_lock from the power cycle to the end of the firmware bring-up;     *)
(* power off (aicbsp_sdio_exit) does not take it.                           *)
(*                                                                          *)
(* A call is a row of steps; a step is one command to the card or one       *)
(* access to shared state.  Data abstraction: the card is the state of its  *)
(* SDIO machine, its bus settings and the registers the driver writes,      *)
(* which a CMD52 names by function and address.  The generation of a power  *)
(* cycle tells devices of different cycles apart.  PROBE_SIGNAL is left     *)
(* out: no code waits for it.  The firmware bring-up (FwInit) and the IPC   *)
(* test are one step here.                                                  *)
(***************************************************************************)
EXTENDS Integers

CONSTANTS
  Callers,   \* threads that call the functions above
  Chips,     \* the products the card may be, "8801" or another
  MaxCmd5,   \* tries of CMD5, 100
  MaxCalls,  \* bound: calls in a behaviour
  MaxFails   \* bound: commands that fail

ASSUME LifecycleAssumption ==
  /\ MaxCmd5 \in Nat \ {0} /\ MaxCalls \in Nat /\ MaxFails \in Nat
  /\ "none" \notin Callers /\ "NONE" \notin Chips

(* CMD52 addresses, as <<function, register>>. *)
F1RegisterBlock == <<1, 11>>
F1ByteMode == <<1, 17>>
F1IntrConfig == <<1, 4>>
Fbr1CisPtr == <<0, 267>>    \* 0x10B
Fbr1BlockHigh == <<0, 273>> \* 0x111
BlockLow(f) == <<f, 16>>
BlockHigh(f) == <<f, 17>>

Regs == {F1RegisterBlock, F1ByteMode, F1IntrConfig, Fbr1CisPtr, Fbr1BlockHigh,
         BlockLow(1), BlockLow(2), BlockHigh(2)}

VARIABLES
  chip,        \* external: the product
  gen,         \* power cycles so far
  card,        \* external: "off", or its SDIO state after the last command
  regs,        \* external: the registers above
  funcs,       \* external: functions enabled in CCCR IO_ENABLE
  card_bus,    \* external: [width, hs] as the card has been told
  host_bus,    \* [width, hs] as HOST_CTRL1 has them
  power_lock,  \* holder of POWER_LOCK, or "none"
  registered,  \* mmc: a driver is registered
  product,     \* CURRENT_PRODUCT_ID, or "NONE"
  dev,         \* SDIO_DEVICE: the generation it was made for, 0 for None
  mgr,         \* CMD_MGR is Some
  using,       \* bustx or busrx has SDIO_DEVICE locked for a transfer
  pc,          \* where a caller is
  call,        \* what it called
  tries,       \* CMD5 sent
  pid,         \* the product id it read
  res,         \* what its last call returned
  calls,       \* calls so far
  fails,       \* commands that failed
  alone,       \* history: no power off ran during the call (for a power
               \* off: no other call, nor since)
  upBy         \* history: the generation of the last power on that succeeded
               \* alone, until power off starts or power is cycled again

cardVars == <<card, regs, funcs, card_bus>>
busVars == <<chip, gen, cardVars, host_bus>>
sharedVars == <<registered, product, dev, mgr>>
callVars == <<call, res, calls>>
histVars == <<alone, upBy>>
vars == <<busVars, power_lock, sharedVars, using, pc, callVars, tries, pid,
          fails, histVars>>

NoBus == [width |-> 1, hs |-> FALSE]

(* The steps between the power cycle and the end of a power on. *)
InitSteps == {"register", "host", "cmd0", "cmd5", "ocr", "cmd3", "cmd7", "speed",
              "clock", "f1", "cis", "pid", "block", "f1 regs", "wide", "f2",
              "device"}
LateSteps == {"probe", "mgr", "intr", "bring up"}
ExitSteps == {"stop", "unregister", "disable", "product", "take dev",
              "take mgr"}

TypeOK ==
  /\ chip \in Chips
  /\ gen \in Nat
  /\ card \in {"off", "idle", "ready", "stby", "tran"}
  /\ regs \in [Regs -> 0 .. 7]
  /\ funcs \subseteq {1, 2}
  /\ card_bus \in [width: {1, 4}, hs: BOOLEAN]
  /\ host_bus \in [width: {1, 4}, hs: BOOLEAN]
  /\ power_lock \in Callers \cup {"none"}
  /\ registered \in BOOLEAN /\ mgr \in BOOLEAN /\ using \in BOOLEAN
  /\ product \in Chips \cup {"NONE"}
  /\ dev \in 0 .. gen
  /\ pc \in [Callers -> {"idle", "lock", "power"} \cup InitSteps \cup LateSteps
                          \cup ExitSteps]
  /\ call \in [Callers -> {"none", "On", "Verify", "GpioTest", "Off"}]
  /\ tries \in [Callers -> 0 .. MaxCmd5]
  /\ pid \in [Callers -> Chips \cup {"NONE"}]
  /\ res \in [Callers -> {"none", "OK", "ERR"}]
  /\ calls \in 0 .. MaxCalls /\ fails \in 0 .. MaxFails
  /\ alone \in [Callers -> BOOLEAN]
  /\ upBy \in 0 .. gen

Init ==
  /\ chip \in Chips
  /\ gen = 0
  /\ card = "off" /\ regs = [r \in Regs |-> 0] /\ funcs = {}
  /\ card_bus = NoBus /\ host_bus = NoBus
  /\ power_lock = "none"
  /\ registered = FALSE /\ product = "NONE" /\ dev = 0 /\ mgr = FALSE
  /\ using = FALSE
  /\ pc = [t \in Callers |-> "idle"]
  /\ call = [t \in Callers |-> "none"]
  /\ tries = [t \in Callers |-> 0]
  /\ pid = [t \in Callers |-> "NONE"]
  /\ res = [t \in Callers |-> "none"]
  /\ calls = 0 /\ fails = 0
  /\ alone = [t \in Callers |-> FALSE]
  /\ upBy = 0

-----------------------------------------------------------------------------
At(t, step) == pc[t] = step
Go(t, step) == pc' = [pc EXCEPT ![t] = step]

(* Slip: an error return that does not go through the guard. *)
ReturnLocked(t, x) ==
  /\ Go(t, "idle")
  /\ res' = [res EXCEPT ![t] = x]
  /\ power_lock' = IF power_lock = t /\ x = "OK" THEN "none" ELSE power_lock

(* The call returns; the guard of power_lock is dropped. *)
Return(t, x) ==
  /\ Go(t, "idle")
  /\ res' = [res EXCEPT ![t] = x]
  /\ power_lock' = IF power_lock = t THEN "none" ELSE power_lock

(* A command to the card completes, or wait_not_inhibit, wait_cmd_complete or *)
(* the R5 report an error.                                                    *)
Sent == UNCHANGED fails
CmdFails == fails < MaxFails /\ fails' = fails + 1

(* What a step of a call that has nothing to do with them leaves alone. *)
Quiet == UNCHANGED <<chip, gen, using, call, calls>>
Continues == UNCHANGED <<power_lock, res>>

(* The steps at which an error of the card ends a power on with BadState. *)
CardSteps == {"cmd0", "cmd5", "ocr", "cmd3", "cmd7", "f1", "cis", "block",
              "f1 regs", "f2"}

CardFails(t) ==
  /\ pc[t] \in CardSteps
  /\ At(t, "ocr") => tries[t] < MaxCmd5
  /\ CmdFails
  /\ Return(t, "ERR")
  /\ Quiet
  /\ UNCHANGED <<cardVars, host_bus, sharedVars, tries, pid, histVars>>

(* SDIO_DEVICE.lock() *)
DeviceFree == ~using

-----------------------------------------------------------------------------
(* Slips a maintainer could make in the steps below. *)

(* The product is forgotten only if the functions could be disabled. *)
ExitProductIfDisabled(t) ==
  /\ At(t, "product")
  /\ product' = IF funcs = {} THEN "NONE" ELSE product
  /\ Go(t, "take dev")
  /\ Quiet /\ Continues
  /\ UNCHANGED <<busVars, registered, dev, mgr, tries, pid, fails, histVars>>

(* SDIO_DEVICE keeps the device it has. *)
KeepDevice(t) ==
  /\ At(t, "device")
  /\ DeviceFree
  /\ dev' = IF dev = 0 THEN gen ELSE dev
  /\ Go(t, "probe")
  /\ Quiet /\ Continues
  /\ UNCHANGED <<busVars, registered, product, mgr, tries, pid, fails,
                 histVars>>

(* One try of CMD5 too many. *)
Cmd5OnceMore(t) ==
  /\ At(t, "ocr")
  /\ tries[t] <= MaxCmd5
  /\ Quiet
  /\ Sent
  /\ tries' = [tries EXCEPT ![t] = @ + 1]
  /\ \/ card' = "ready" /\ Go(t, "cmd3")
     \/ card' = "idle" /\ Go(t, "ocr")
  /\ Continues
  /\ UNCHANGED <<regs, funcs, card_bus, host_bus, sharedVars, pid, histVars>>

-----------------------------------------------------------------------------
(* The calls. *)

Start(t, c) ==
  /\ At(t, "idle") /\ calls < MaxCalls
  /\ calls' = calls + 1
  /\ call' = [call EXCEPT ![t] = c]
  /\ res' = [res EXCEPT ![t] = "none"]
  /\ pid' = [pid EXCEPT ![t] = "NONE"]
  /\ Go(t, IF c = "Off" THEN "stop" ELSE "lock")
  /\ IF c = "Off"
     THEN /\ upBy' = 0
          /\ alone' = [u \in Callers |->
                         u = t /\ \A v \in Callers \ {t} : pc[v] = "idle"]
     ELSE /\ UNCHANGED upBy
          /\ alone' = [u \in Callers |->
               IF u = t THEN \A v \in Callers : pc[v] \notin ExitSteps
               ELSE alone[u] /\ call[u] # "Off"]
  /\ UNCHANGED <<busVars, power_lock, sharedVars, using, tries, fails>>

(* sync::power_lock() *)
Lock(t) ==
  /\ At(t, "lock")
  /\ power_lock = "none"
  /\ power_lock' = t
  /\ Go(t, "power")
  /\ Quiet
  /\ UNCHANGED <<busVars, sharedVars, res, tries, pid, fails, histVars>>

(* aicbsp_power_on_with_stable_ms: pinmux, power pin low and high. *)
PowerOn(t) ==
  /\ At(t, "power")
  /\ gen' = gen + 1
  /\ card' = "idle" /\ regs' = [r \in Regs |-> 0] /\ funcs' = {}
  /\ card_bus' = NoBus
  /\ upBy' = 0
  /\ IF call[t] = "GpioTest" THEN Return(t, "OK")
     ELSE Go(t, "register") /\ Continues
  /\ UNCHANGED <<chip, host_bus, sharedVars, using, call, calls, tries, pid,
                 fails, alone>>

-----------------------------------------------------------------------------
(* aicbsp_sdio_init: the host and the card. *)

(* register_aicbsp_sdio_driver; EBUSY is ignored. *)
Register(t) ==
  /\ At(t, "register")
  /\ registered' = TRUE
  /\ Go(t, "host")
  /\ Quiet /\ Continues
  /\ UNCHANGED <<busVars, product, dev, mgr, tries, pid, fails, histVars>>

(* new_sd1_with_card_init: sd1_host_init and enable_sd_interface_clock with   *)
(* reset_all and set_clock(400 kHz).                                          *)
HostInit(t) ==
  /\ At(t, "host")
  /\ host_bus' = NoBus
  /\ tries' = [tries EXCEPT ![t] = 0]
  /\ Go(t, "cmd0")
  /\ Quiet /\ Continues
  /\ UNCHANGED <<cardVars, sharedVars, pid, fails, histVars>>

(* sdio_card_init: a command that takes the card from one state to the next. *)
CardCommand(t, at, next, from, to) ==
  /\ At(t, at) /\ card = from
  /\ Sent /\ card' = to
  /\ Go(t, next)
  /\ Quiet /\ Continues
  /\ UNCHANGED <<regs, funcs, card_bus, host_bus, sharedVars, tries, pid,
                 histVars>>

(* CMD0; it has no response. *)
Cmd0(t) ==
  \E s \in {"idle", "ready", "stby", "tran"} :
    CardCommand(t, "cmd0", "cmd5", s, "idle")

(* CMD5 with argument 0: no function answers (ENODEV), or the voltages.       *)
Cmd5Ocr(t) == CardCommand(t, "cmd5", "ocr", "idle", "idle")

(* CMD5 with the voltages, until the card is ready or the tries are used up.  *)
Cmd5(t) ==
  /\ At(t, "ocr")
  /\ tries[t] < MaxCmd5
  /\ Sent
  /\ \/ /\ card' = "ready" /\ Go(t, "cmd3")
        /\ tries' = [tries EXCEPT ![t] = 0]
     \/ /\ card' = "idle" /\ Go(t, "ocr")
        /\ tries' = [tries EXCEPT ![t] = @ + 1]
  /\ Quiet /\ Continues
  /\ UNCHANGED <<regs, funcs, card_bus, host_bus, sharedVars, pid, histVars>>

Cmd5NotReady(t) ==
  /\ At(t, "ocr")
  /\ tries[t] = MaxCmd5
  /\ Return(t, "ERR")
  /\ Quiet
  /\ UNCHANGED <<cardVars, host_bus, sharedVars, tries, pid, fails, histVars>>

Cmd3(t) == CardCommand(t, "cmd3", "cmd7", "ready", "stby")

(* CMD7, and DAT0 is released. *)
Cmd7(t) == CardCommand(t, "cmd7", "speed", "stby", "tran")

(* enable_sdio_high_speed: the card supports it and is told so; else, or      *)
(* after an error, nothing.                                                   *)
EnableHighSpeed(t) ==
  /\ At(t, "speed")
  /\ \/ Sent /\ card_bus' = [card_bus EXCEPT !.hs = TRUE]
     \/ Sent /\ UNCHANGED card_bus
     \/ CmdFails /\ UNCHANGED card_bus
  /\ Go(t, "clock")
  /\ Quiet /\ Continues
  /\ UNCHANGED <<card, regs, funcs, host_bus, sharedVars, tries, pid,
                 histVars>>

(* set_clock(25 MHz) also sets HISPD. *)
SetClock(t) ==
  /\ At(t, "clock")
  /\ host_bus' = [host_bus EXCEPT !.hs = TRUE]
  /\ Go(t, "f1")
  /\ Quiet /\ Continues
  /\ UNCHANGED <<cardVars, sharedVars, tries, pid, fails, histVars>>

(* CCCR 0x02 |= F1; IO_READY is awaited for 100 ms and its absence ignored. *)
EnableF1(t) ==
  /\ At(t, "f1")
  /\ Sent /\ funcs' = funcs \cup {1}
  /\ Go(t, "cis")
  /\ Quiet /\ Continues
  /\ UNCHANGED <<card, regs, card_bus, host_bus, sharedVars, tries, pid,
                 histVars>>

(* probe_from_sdio_cis and aicbsp_sdio_probe. *)
ProbeCis(t) ==
  /\ At(t, "cis")
  /\ Sent /\ product' = chip
  /\ Go(t, "pid")
  /\ Quiet /\ Continues
  /\ UNCHANGED <<cardVars, host_bus, registered, dev, mgr, tries, pid,
                 histVars>>

(* aicbsp_current_product_id().ok_or(BadState): the global is read again. *)
ReadProduct(t) ==
  /\ At(t, "pid")
  /\ pid' = [pid EXCEPT ![t] = product]
  /\ IF product = "NONE" THEN Return(t, "ERR")
     ELSE Go(t, IF product = "8801" THEN "block" ELSE "wide") /\ Continues
  /\ Quiet
  /\ UNCHANGED <<cardVars, host_bus, sharedVars, tries, fails, histVars>>

-----------------------------------------------------------------------------
(* aicbsp_sdio_init: the product. *)

(* A row of CMD52 writes, each as <<address, value>>. *)
Writes(t, at, next, ws) ==
  /\ At(t, at)
  /\ Sent
  /\ regs' = [r \in Regs |-> IF \E w \in ws : w[1] = r
                             THEN (CHOOSE w \in ws : w[1] = r)[2]
                             ELSE regs[r]]
  /\ Go(t, next)
  /\ Quiet /\ Continues
  /\ UNCHANGED <<card, funcs, card_bus, host_bus, sharedVars, tries, pid,
                 histVars>>

(* set_block_size(1, 512): registers 0x10 and 0x11 of function 1. *)
BlockSizeF1(t) ==
  Writes(t, "block", "f1 regs", {<<BlockLow(1), 0>>, <<BlockHigh(1), 2>>})

(* host.write_byte(0x10B, 1) and host.write_byte(0x111, 1): function 0. *)
ConfigF1(t) ==
  Writes(t, "f1 regs", "device", {<<Fbr1CisPtr, 1>>, <<Fbr1BlockHigh, 1>>})

(* enable_4bit_bus: the host switches whether or not the card was told. *)
Enable4Bit(t) ==
  /\ At(t, "wide")
  /\ \/ Sent /\ card_bus' = [card_bus EXCEPT !.width = 4]
     \/ CmdFails /\ UNCHANGED card_bus
  /\ host_bus' = [host_bus EXCEPT !.width = 4]
  /\ Go(t, "f2")
  /\ Quiet /\ Continues
  /\ UNCHANGED <<card, regs, funcs, sharedVars, tries, pid, histVars>>

(* CCCR 0x02 |= F2, IO_READY, set_block_size(2, 512). *)
EnableF2(t) ==
  /\ At(t, "f2")
  /\ Sent /\ funcs' = funcs \cup {2}
  /\ regs' = [regs EXCEPT ![BlockLow(2)] = 0, ![BlockHigh(2)] = 2]
  /\ Go(t, "device")
  /\ Quiet /\ Continues
  /\ UNCHANGED <<card, card_bus, host_bus, sharedVars, tries, pid, histVars>>

-----------------------------------------------------------------------------
(* aicbsp_sdio_init: the shared state. *)

(* SDIO_DEVICE.lock().replace(sdio) *)
StoreDevice(t) ==
  /\ At(t, "device")
  /\ DeviceFree
  /\ dev' = gen
  /\ Go(t, "probe")
  /\ Quiet /\ Continues
  /\ UNCHANGED <<busVars, registered, product, mgr, tries, pid, fails,
                 histVars>>

(* register_aicbsp_sdio_driver once more, and sdio_try_probe, which only      *)
(* warns.                                                                     *)
TryProbe(t) ==
  /\ At(t, "probe")
  /\ DeviceFree
  /\ registered' = TRUE
  /\ Go(t, "mgr")
  /\ Quiet /\ Continues
  /\ UNCHANGED <<busVars, product, dev, mgr, tries, pid, fails, histVars>>

(* CMD_MGR.lock().replace(RwnxCmdMgr::new()); the bustx thread is started. *)
StoreMgr(t) ==
  /\ At(t, "mgr")
  /\ mgr' = TRUE
  /\ Go(t, IF pid[t] = "8801" THEN "intr" ELSE "bring up")
  /\ Quiet /\ Continues
  /\ UNCHANGED <<busVars, registered, product, dev, tries, pid, fails,
                 histVars>>

(* INTR_CONFIG of function 1, if there is a device; an error only warns. *)
IntrConfig(t) ==
  /\ At(t, "intr")
  /\ DeviceFree
  /\ \/ Sent /\ regs' = [regs EXCEPT ![F1IntrConfig] = IF dev = 0 THEN @ ELSE 7]
     \/ CmdFails /\ dev # 0 /\ UNCHANGED regs
  /\ Go(t, "bring up")
  /\ Quiet /\ Continues
  /\ UNCHANGED <<card, funcs, card_bus, host_bus, sharedVars, tries, pid,
                 histVars>>

CanBringUp(t) ==
  /\ product # "NONE" /\ dev # 0 /\ mgr
  /\ call[t] = "Verify" => product = "8801"

(* aicbsp_driver_fw_init, or the rest of aicbsp_minimal_ipc_verify: fails     *)
(* without product, device or manager, or for a reason of its own.            *)
BringUp(t) ==
  /\ At(t, "bring up")
  /\ \/ /\ CanBringUp(t) /\ Sent
        /\ Return(t, "OK")
        /\ upBy' = IF alone[t] THEN gen ELSE upBy
     \/ /\ ~CanBringUp(t) /\ Sent
        /\ Return(t, "ERR") /\ UNCHANGED upBy
     \/ CmdFails /\ Return(t, "ERR") /\ UNCHANGED upBy
  /\ Quiet
  /\ UNCHANGED <<cardVars, host_bus, sharedVars, tries, pid, alone>>

-----------------------------------------------------------------------------
(* aicbsp_sdio_exit *)

(* BUSTX_RUNNING and BUSRX_RUNNING are cleared (BusTx, RxPath); remove is     *)
(* called with the device.                                                    *)
ExitStop(t) ==
  /\ At(t, "stop")
  /\ DeviceFree
  /\ Go(t, "unregister")
  /\ Quiet /\ Continues
  /\ UNCHANGED <<busVars, sharedVars, tries, pid, fails, histVars>>

ExitUnregister(t) ==
  /\ At(t, "unregister")
  /\ registered' = FALSE
  /\ Go(t, "disable")
  /\ Quiet /\ Continues
  /\ UNCHANGED <<busVars, product, dev, mgr, tries, pid, fails, histVars>>

(* CCCR 0x02 &= ~(F1 | F2) if there is a device; errors are ignored. *)
ExitDisable(t) ==
  /\ At(t, "disable")
  /\ DeviceFree
  /\ \/ Sent /\ funcs' = IF dev = 0 THEN funcs ELSE {}
     \/ CmdFails /\ dev # 0 /\ UNCHANGED funcs
  /\ Go(t, "product")
  /\ Quiet /\ Continues
  /\ UNCHANGED <<card, regs, card_bus, host_bus, sharedVars, tries, pid,
                 histVars>>

ExitProduct(t) ==
  /\ At(t, "product")
  /\ product' = "NONE"
  /\ Go(t, "take dev")
  /\ Quiet /\ Continues
  /\ UNCHANGED <<busVars, registered, dev, mgr, tries, pid, fails, histVars>>

TakeDevice(t) ==
  /\ At(t, "take dev")
  /\ DeviceFree
  /\ dev' = 0
  /\ Go(t, "take mgr")
  /\ Quiet /\ Continues
  /\ UNCHANGED <<busVars, registered, product, mgr, tries, pid, fails,
                 histVars>>

TakeMgr(t) ==
  /\ At(t, "take mgr")
  /\ mgr' = FALSE
  /\ Return(t, "OK")
  /\ Quiet
  /\ UNCHANGED <<busVars, registered, product, dev, tries, pid, fails,
                 histVars>>

-----------------------------------------------------------------------------
(* bustx, busrx or sdio_irq_work locks SDIO_DEVICE for a transfer. *)
Use ==
  /\ ~using /\ dev # 0
  /\ using' = TRUE
  /\ UNCHANGED <<busVars, power_lock, sharedVars, pc, callVars, tries, pid,
                 fails, histVars>>

UseEnds ==
  /\ using
  /\ using' = FALSE
  /\ UNCHANGED <<busVars, power_lock, sharedVars, pc, callVars, tries, pid,
                 fails, histVars>>

Step(t) ==
  \/ CardFails(t)
  \/ Lock(t) \/ PowerOn(t) \/ Register(t) \/ HostInit(t)
  \/ Cmd0(t) \/ Cmd5Ocr(t) \/ Cmd5(t) \/ Cmd5NotReady(t) \/ Cmd3(t) \/ Cmd7(t)
  \/ EnableHighSpeed(t) \/ SetClock(t) \/ EnableF1(t) \/ ProbeCis(t)
  \/ ReadProduct(t) \/ BlockSizeF1(t) \/ ConfigF1(t) \/ Enable4Bit(t)
  \/ EnableF2(t) \/ StoreDevice(t) \/ TryProbe(t) \/ StoreMgr(t) \/ IntrConfig(t)
  \/ BringUp(t)
  \/ ExitStop(t) \/ ExitUnregister(t) \/ ExitDisable(t) \/ ExitProduct(t)
  \/ TakeDevice(t) \/ TakeMgr(t)

Next ==
  \/ \E t \in Callers, c \in {"On", "Verify", "GpioTest", "Off"} : Start(t, c)
  \/ \E t \in Callers : Step(t)
  \/ Use \/ UseEnds

Spec == Init /\ [][Next]_vars

(* A call goes on: its waits are bounded, transfers end, and a spin lock that *)
(* is free again and again is taken some time.  The threads that use the      *)
(* device leave it alone again and again (they sleep 1 ms between polls).     *)
FairSpec ==
  /\ Spec
  /\ WF_vars(UseEnds)
  /\ \A t \in Callers : SF_vars(Step(t))

-----------------------------------------------------------------------------
(* A power on that succeeded without a power off in between leaves the driver *)
(* up until the next call disturbs it: device, manager and product of this    *)
(* power cycle, a selected card with F1 enabled.  Power ons that wait for the *)
(* lock, or fail later, do not reach into it.                                 *)
OnMeansUp ==
  upBy # 0 =>
    /\ dev = gen /\ upBy = gen /\ mgr /\ product = chip /\ registered
    /\ card = "tran" /\ 1 \in funcs

(* A power off that ran alone leaves nothing behind. *)
OffMeansDown ==
  \A t \in Callers :
    call[t] = "Off" /\ res[t] = "OK" /\ alone[t] =>
      dev = 0 /\ ~mgr /\ product = "NONE" /\ ~registered

(* Every call returns, whatever the card does and whoever else calls. *)
CallsReturn == \A t \in Callers : pc[t] # "idle" ~> pc[t] = "idle"

(* "Aic8801 F1 0x0B=1 0x11=1 in 1-bit" (aicbsp_sdio_init): after the          *)
(* configuration, registers REGISTER_BLOCK and BYTEMODE_ENABLE of function 1  *)
(* are 1.                                                                     *)
F1Configured ==
  \A t \in Callers :
    pc[t] \in {"device", "probe", "mgr", "intr"} /\ pid[t] = "8801" =>
      regs[F1RegisterBlock] = 1 /\ regs[F1ByteMode] = 1
=============================================================================
