------------------------------- MODULE FwInit -------------------------------
(***************************************************************************)
(* aicbsp_driver_fw_init (driver/bsp/src/sdio/flow.rs): the request by     *)
(* request bring-up of the chip after aicbsp_sdio_init, on the same        *)
(* command manager as CmdClients, with the sizes of the source.            *)
(*                                                                         *)
(* The function is a straight line of requests, so it is data here: plan   *)
(* is the sequence of requests it makes for the probed product, and a      *)
(* request says which CFM it waits for, whether its sender calls take_cfm  *)
(* afterwards, and whether the CMD_MGR lock is held around it (steps 4 and *)
(* 5).  Every failure ends the function.  The chip is external: it         *)
(* executes what it receives in order, and a CFM may get lost.  A          *)
(* concurrent aicbsp_set_subsys(.., Off) may run aicbsp_sdio_exit, which   *)
(* takes no power lock.                                                    *)
(***************************************************************************)
EXTENDS CmdMgr, Sequences

CONSTANTS
  Products,     \* the products that may have been probed
  SyscfgLen,    \* AICBSP_SYSCFG_TBL_8801.len(), 10
  PatchTblLen,  \* PATCH_TBL_8801.len(), 3
  MaskLen,      \* SYSCFG_TBL_MASKED_8801.len() + RF_TBL_MASKED_8801.len(), 2
  FwBlocks,     \* bound: 1 KiB blocks of the firmware image
  PatchBlocks   \* bound: 1 KiB blocks of the patch image

ASSUME SizesAssumption ==
  /\ {SyscfgLen, PatchTblLen, MaskLen, FwBlocks, PatchBlocks} \subseteq Nat
  /\ CfmIds = {"READ", "WRITE", "MASK_WRITE", "BLOCK_WRITE", "START_APP"}

VARIABLES
  product,   \* CURRENT_PRODUCT_ID
  plan,      \* the requests the function will make, in order
  step,      \* the request it is at
  pc,        \* where it is in that request
  token,     \* the slot push returned
  err,       \* the error it ended with
  dev,       \* SDIO_DEVICE is Some
  wire,      \* the request the chip has received and not executed, or 0
  rx,        \* the request whose CFM waits to be read from the chip, or 0
  executed,  \* history: the requests the chip executed, in order
  trouble    \* history: the bus, the chip or an exit gave a reason to fail

vars == <<mgrVars, product, plan, step, pc, token, err, dev, wire, rx, executed,
          trouble>>

Req(id, take, held) == [cfm |-> id, take |-> take, held |-> held]

Repeat(n, x) == [i \in 1 .. n |-> x]

-----------------------------------------------------------------------------
(* A slip a maintainer could make below: block writes wait for the CFM and
   do not take it. *)
UploadKeeps(blocks) == Repeat(blocks, Req("BLOCK_WRITE", FALSE, FALSE))

-----------------------------------------------------------------------------
(* fw_upload_blocks: one BLOCK_WRITE per 1 KiB; none without an image. *)
Upload(blocks) == Repeat(blocks, Req("BLOCK_WRITE", TRUE, FALSE))

(* aicbsp_system_config_8801 with send_one. *)
SystemConfig == Repeat(SyscfgLen, Req("WRITE", TRUE, FALSE))

(* aicwifi_patch_config_8801_init: a read, the address and the count of the   *)
(* patch table, two writes per entry; send_dbg_mem_write_direct does not call *)
(* take_cfm.                                                                  *)
PatchConfig ==
  <<Req("READ", TRUE, FALSE)>>
    \o Repeat(2 + 2 * PatchTblLen, Req("WRITE", FALSE, FALSE))

(* aicwifi_sys_config_8801: masked writes under the CMD_MGR lock. *)
SysConfig == Repeat(MaskLen, Req("MASK_WRITE", FALSE, TRUE))

(* fw_start_app, under the same lock. *)
StartApp == <<Req("START_APP", FALSE, TRUE)>>

(* Steps 1 to 5 for product p, with fw and patch blocks to upload. *)
Plan(p, fw, patch) ==
  <<Req("READ", TRUE, FALSE)>> \o
  (IF p = "Aic8801"
   THEN SystemConfig \o Upload(fw) \o Upload(patch) \o PatchConfig \o SysConfig
   ELSE Upload(fw))
  \o StartApp

TypeOK ==
  /\ MgrTypeOK
  /\ product \in Products
  /\ \E fw \in {0, FwBlocks}, patch \in {0, PatchBlocks} :
       plan = Plan(product, fw, patch)
  /\ step \in 1 .. Len(plan)
  /\ pc \in {"start", "push", "tx", "wait", "take", "ok", "fail"}
  /\ token \in Slot
  /\ err \in {"none", "BadState", "ENOMEM", "ETX", "ETIMEDOUT", "EIO"}
  /\ dev \in BOOLEAN
  /\ wire \in 0 .. Len(plan)
  /\ rx \in 0 .. Len(plan)
  /\ executed \in Seq(1 .. Len(plan))
  /\ trouble \in BOOLEAN

(* aicbsp_sdio_init has stored the device and an empty manager. *)
Init ==
  /\ up = TRUE
  /\ slots = [s \in Slot |-> Free]
  /\ queue_sz = 0
  /\ product \in Products
  /\ \E fw \in {0, FwBlocks}, patch \in {0, PatchBlocks} :
       plan = Plan(product, fw, patch)
  /\ step = 1
  /\ pc = "start"
  /\ token = 0
  /\ err = "none"
  /\ dev = TRUE
  /\ wire = 0
  /\ rx = 0
  /\ executed = <<>>
  /\ trouble = FALSE

(* CMD_MGR is locked by the function from step 4 to its end. *)
Held == plan[step].held /\ pc \in {"push", "tx", "wait"}

Fail(e) == pc' = "fail" /\ err' = e

(* A slip: the step is counted up before the end is noticed. *)
AdvanceTooFar ==
  /\ pc' = IF step = Len(plan) THEN "ok" ELSE "push"
  /\ step' = step + 1

(* The request is over: on to the next one, or the function returns Ok. *)
Advance ==
  IF step = Len(plan)
  THEN pc' = "ok" /\ UNCHANGED step
  ELSE pc' = "push" /\ step' = step + 1

-----------------------------------------------------------------------------
(* Slips a maintainer could make in the steps below. *)

(* "Only send, do not wait". *)
AnsweredUnchecked == dev

(* The wait has no time limit. *)
NoTimeout ==
  /\ pc = "wait" /\ err # "none"
  /\ Fail("ETIMEDOUT")
  /\ trouble' = TRUE
  /\ UNCHANGED <<mgrVars, product, plan, step, token, dev, wire, rx, executed>>

(* Only the reads take their CFM. *)
TakeReadsOnly ==
  /\ pc = "take"
  /\ IF up /\ plan[step].cfm = "READ" THEN TakeSlot(token) ELSE UNCHANGED mgrVars
  /\ plan[step].cfm = "READ" => IsDone(token)
  /\ Advance
  /\ UNCHANGED <<product, plan, token, err, dev, wire, rx, executed, trouble>>

-----------------------------------------------------------------------------
(* The device is there, threads are started, F1 INTR_CONFIG is written. *)
Start ==
  /\ pc = "start"
  /\ dev
  /\ pc' = "push"
  /\ UNCHANGED <<mgrVars, product, plan, step, token, err, dev, wire, rx,
                 executed, trouble>>

(* No device any more, or the write of INTR_CONFIG (8801 only) failed. *)
StartFails ==
  /\ pc = "start"
  /\ ~dev \/ product = "Aic8801"
  /\ Fail("BadState")
  /\ trouble' = TRUE
  /\ UNCHANGED <<mgrVars, product, plan, step, token, dev, wire, rx, executed>>

(* push(cfm) of the request's sender. *)
Push ==
  /\ pc = "push"
  /\ CanPush
  /\ PushCmd(plan[step].cfm, step)
  /\ token' = PushSlot
  /\ pc' = "tx"
  /\ UNCHANGED <<product, plan, step, err, dev, wire, rx, executed, trouble>>

(* push returns None: -12 (-5 or BadState in a sender that first finds no     *)
(* manager).                                                                  *)
PushFails ==
  /\ pc = "push"
  /\ ~CanPush
  /\ Fail(IF up THEN "ENOMEM" ELSE "BadState")
  /\ UNCHANGED <<mgrVars, product, plan, step, token, dev, wire, rx, executed,
                 trouble>>

(* The message is in the chip's FIFO. *)
TxOk ==
  /\ pc = "tx"
  /\ dev
  /\ pc' = "wait"
  /\ wire' = step
  /\ UNCHANGED <<mgrVars, product, plan, step, token, err, dev, rx, executed,
                 trouble>>

(* The bus failed, or bustx did not report in time and may still send. *)
TxFails ==
  /\ pc = "tx"
  /\ wire' \in {0} \cup (IF dev THEN {step} ELSE {})
  /\ Fail("ETX")
  /\ trouble' = TRUE
  /\ UNCHANGED <<mgrVars, product, plan, step, token, dev, rx, executed>>

(* is_done(token), as wait_done and wait_done_until poll it. *)
Answered == IsDone(token)

(* The wait sees the CFM. *)
WaitOk ==
  /\ pc = "wait"
  /\ Answered
  /\ IF plan[step].take THEN pc' = "take" /\ UNCHANGED step ELSE Advance
  /\ UNCHANGED <<mgrVars, product, plan, token, err, dev, wire, rx, executed,
                 trouble>>

(* The wait gives up. *)
WaitTimeout ==
  /\ pc = "wait"
  /\ Fail("ETIMEDOUT")
  /\ trouble' = TRUE
  /\ UNCHANGED <<mgrVars, product, plan, step, token, dev, wire, rx, executed>>

(* take_cfm; the writes ignore what it returns. *)
Take ==
  /\ pc = "take"
  /\ IF up THEN TakeSlot(token) ELSE UNCHANGED mgrVars
  /\ plan[step].cfm = "READ" => IsDone(token)
  /\ Advance
  /\ UNCHANGED <<product, plan, token, err, dev, wire, rx, executed, trouble>>

(* take_cfm of a read: no CFM (the manager is gone), a CFM too short to parse *)
(* or, in step 1, a chip revision without firmware table.                     *)
TakeFails ==
  /\ pc = "take"
  /\ plan[step].cfm = "READ"
  /\ IF up THEN TakeSlot(token) ELSE UNCHANGED mgrVars
  /\ Fail("EIO")
  /\ trouble' = TRUE
  /\ UNCHANGED <<product, plan, step, token, dev, wire, rx, executed>>

(* The chip executes the request; its CFM is ready or lost. *)
Execute ==
  /\ wire # 0
  /\ executed' = Append(executed, wire)
  /\ wire' = 0
  /\ \/ rx' = wire /\ UNCHANGED trouble
     \/ rx' = rx /\ trouble' = TRUE
  /\ UNCHANGED <<mgrVars, product, plan, step, pc, token, err, dev>>

(* poll_rx_one reads the CFM and calls on_cfm: in busrx or, while the         *)
(* function holds CMD_MGR, in its own wait_done.                              *)
Receive ==
  /\ rx # 0
  /\ up /\ dev
  /\ Held => pc = "wait"
  /\ OnCfm(plan[rx].cfm, rx)
  /\ rx' = 0
  /\ UNCHANGED <<product, plan, step, pc, token, err, dev, wire, executed,
                 trouble>>

(* aicbsp_sdio_exit, SDIO_DEVICE.lock().take() *)
ExitDevice ==
  /\ dev
  /\ dev' = FALSE
  /\ trouble' = TRUE
  /\ UNCHANGED <<mgrVars, product, plan, step, pc, token, err, wire, rx,
                 executed>>

(* aicbsp_sdio_exit, CMD_MGR.lock().take(): waits for the lock. *)
ExitManager ==
  /\ ~dev /\ up
  /\ ~Held
  /\ DropMgr
  /\ UNCHANGED <<product, plan, step, pc, token, err, dev, wire, rx, executed,
                 trouble>>

Function ==
  \/ Start \/ StartFails \/ Push \/ PushFails \/ TxOk \/ TxFails
  \/ WaitOk \/ WaitTimeout \/ Take \/ TakeFails

Next ==
  \/ Function
  \/ Execute \/ Receive
  \/ ExitDevice \/ ExitManager

Spec == Init /\ [][Next]_vars

(* The function's own steps happen: its sleeps and waits are bounded. *)
FairSpec == Spec /\ WF_vars(Function)

-----------------------------------------------------------------------------
(* The chip executes the requests in the order of the function, none twice    *)
(* and none left out, whatever fails on the way; START_APP is sent only after *)
(* all the others were executed, and Ok means that all were.                  *)
InOrder ==
  /\ executed = [i \in 1 .. Len(executed) |-> i]
  /\ pc = "wait" => Len(executed) >= step - 1
  /\ pc = "ok" => Len(executed) = Len(plan)

(* Between two requests the table holds exactly the commands of the senders   *)
(* that do not take their CFM, all of them completed: nothing else leaks a    *)
(* slot and no CFM is outstanding.                                            *)
OnlyKeptOccupy ==
  pc = "push" /\ up =>
    /\ {slots[s].serial : s \in Occupied}
         = {i \in 1 .. step - 1 : ~plan[i].take}
    /\ Waiting = {}
    /\ queue_sz = 0

(* The function fails only if the bus, the chip, the firmware table or a      *)
(* concurrent exit gave it a reason; products other than the 8801.            *)
OthersFailForCause == product # "Aic8801" /\ pc = "fail" => trouble

(* The same for the 8801, whose senders say why the table is large enough:    *)
(* "release the slot after the wait, or the 10 syscfg entries fill the 8      *)
(* slots and the 9th push returns -ENOMEM(-12)" (flow.rs, send_one).          *)
FailsForCause == pc = "fail" => trouble

(* driver_fw_init returns, whatever the chip and the exit do. *)
InitEnds == <>(pc \in {"ok", "fail"})
=============================================================================
