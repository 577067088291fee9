------------------------------- MODULE CmdMgr -------------------------------
(***************************************************************************)
(* The command manager of the BSP (driver/bsp/src/cmd.rs, RwnxCmdMgr): a   *)
(* table of MaxPending slots.  A request to the firmware occupies a slot    *)
(* until its confirmation (CFM) has been copied out by take_cfm.            *)
(*                                                                          *)
(* Every operation runs under the CMD_MGR lock (flow.rs, with_cmd_mgr), so  *)
(* each is one atomic step.  The module gives the table and its operations; *)
(* CmdClients and FwInit are the two users of the table that this project   *)
(* models, and each says which thread takes which operation when.           *)
(*                                                                          *)
(* Data abstraction.  A PendingCmd's flags and `done' move together in      *)
(* on_cfm, so `flags' stands for both.  The bytes of a CFM are abstracted   *)
(* to the number of the request that the firmware answered with it (`cfm'). *)
(* `serial' is that number: the n-th successful push carries n.  It plays   *)
(* the part of next_tkn, which the code only logs.  complete_timeout and    *)
(* the Crashed state are left out: no code calls complete_timeout, so no    *)
(* manager is ever Crashed.                                                 *)
(***************************************************************************)
EXTENDS Integers, FiniteSets, FiniteSetsExt

CONSTANTS
  MaxPending,  \* CMD_MGR_MAX_PENDING, 8 in the code: slots, and max_queue_sz
  CfmIds       \* the confirmation ids commands wait for (reqid)

ASSUME MaxPendingAssumption == MaxPending \in Nat \ {0}

VARIABLES
  up,        \* CMD_MGR is Some: sdio_init stores a manager, sdio_exit takes it
  slots,     \* slots: [Option<PendingCmd>; MaxPending]
  queue_sz   \* queue_sz: commands pushed and not completed, as the code counts

mgrVars == <<up, slots, queue_sz>>

Slot == 0 .. MaxPending - 1

(* Option::None. *)
Free == [flags |-> "FREE"]

(* Some(PendingCmd); cfm is meaningful once flags is DONE. *)
PendingCmd ==
  [flags: {"WAIT_CFM", "DONE"}, reqid: CfmIds, serial: Nat, cfm: Nat]

MgrTypeOK ==
  /\ up \in BOOLEAN
  /\ slots \in [Slot -> PendingCmd \cup {Free}]
  /\ queue_sz \in Nat

FreeSlots == {s \in Slot : slots[s] = Free}

Occupied == Slot \ FreeSlots

(* Commands the manager still waits for. *)
Waiting == {s \in Slot : slots[s].flags = "WAIT_CFM"}

WaitingFor(r) == {s \in Waiting : slots[s].reqid = r}

(* RwnxCmdMgr::new(): stored in CMD_MGR at the end of aicbsp_sdio_init. *)
FreshMgr ==
  /\ up' = TRUE
  /\ slots' = [s \in Slot |-> Free]
  /\ queue_sz' = 0

(* CMD_MGR.lock().take() in aicbsp_sdio_exit. *)
DropMgr ==
  /\ up' = FALSE
  /\ slots' = [s \in Slot |-> Free]
  /\ queue_sz' = 0

MgrInit ==
  /\ up = FALSE
  /\ slots = [s \in Slot |-> Free]
  /\ queue_sz = 0

(* cmd p, completed with the answer to request n. *)
Completed(p, n) ==
  [flags |-> "DONE", reqid |-> p.reqid, serial |-> p.serial, cfm |-> n]

-----------------------------------------------------------------------------
(* Slips a maintainer could make in the operations below, each of which a    *)
(* property is shown to notice.                                              *)

(* The first slot that is not waiting: a completed command is overwritten. *)
FirstNotWaiting == Min(Slot \ Waiting)

(* on_cfm that forgets cmd_complete: queue_sz is not decremented. *)
OnCfmNoComplete(r, n) ==
  /\ slots' = IF WaitingFor(r) = {} THEN slots
              ELSE [slots EXCEPT ![Min(WaitingFor(r))] =
                      Completed(@, n)]
  /\ UNCHANGED <<up, queue_sz>>

(* on_cfm that matches by id only and forgets the WAIT_CFM test. *)
OnCfmAnyFlags(r, n) ==
  LET match == {s \in Occupied : slots[s].reqid = r}
  IN  /\ IF match = {} THEN UNCHANGED <<slots, queue_sz>>
         ELSE /\ slots' = [slots EXCEPT ![Min(match)] =
                             Completed(@, n)]
              /\ queue_sz' = IF queue_sz > 0 THEN queue_sz - 1 ELSE 0
      /\ UNCHANGED up

(* take_cfm that decrements queue_sz a second time, with a plain subtraction. *)
TakeSlotUnderflows(s) ==
  /\ slots' = [slots EXCEPT ![s] = Free]
  /\ queue_sz' = queue_sz - 1
  /\ UNCHANGED up

(* The same with saturating_sub. *)
TakeSlotTwice(s) ==
  /\ slots' = [slots EXCEPT ![s] = Free]
  /\ queue_sz' = IF queue_sz > 0 THEN queue_sz - 1 ELSE 0
  /\ UNCHANGED up

-----------------------------------------------------------------------------
(* push's early returns: no manager, queue full, no free slot. *)
CanPush ==
  /\ up
  /\ queue_sz < MaxPending
  /\ FreeSlots # {}

(* The slot push fills: the first None in index order. *)
PushSlot == Min(FreeSlots)

(* push(reqid), given CanPush: PushSlot now waits for r. *)
PushCmd(r, n) ==
  /\ slots' = [slots EXCEPT ![PushSlot] =
                 [flags |-> "WAIT_CFM", reqid |-> r, serial |-> n, cfm |-> 0]]
  /\ queue_sz' = queue_sz + 1
  /\ UNCHANGED up

(* on_cfm(msg_id, param) with cmd_complete: the first slot in index order    *)
(* that waits for r is completed with the answer to request n; a CFM nobody  *)
(* waits for is dropped.                                                     *)
OnCfm(r, n) ==
  /\ IF WaitingFor(r) = {}
     THEN UNCHANGED <<slots, queue_sz>>
     ELSE /\ slots' = [slots EXCEPT ![Min(WaitingFor(r))] =
                         Completed(@, n)]
          /\ queue_sz' = IF queue_sz > 0 THEN queue_sz - 1 ELSE 0
  /\ UNCHANGED up

(* is_done(token), false without a manager. *)
IsDone(s) == up /\ slots[s].flags = "DONE"

(* take_cfm(token): the slot is released whatever its state, and queue_sz is *)
(* left alone; only a completed command yields its CFM (see IsDone).         *)
TakeSlot(s) ==
  /\ slots' = [slots EXCEPT ![s] = Free]
  /\ UNCHANGED <<up, queue_sz>>
=============================================================================
