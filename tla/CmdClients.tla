----------------------------- MODULE CmdClients -----------------------------
(***************************************************************************)
(* Threads that send commands through the shared command manager, and the  *)
(* firmware that confirms them.                                            *)
(*                                                                         *)
(* A client call is send_lmac_cmd_and_wait_cfm_with_buf (fdrv, wiphy_impl)  *)
(* or one of the BSP's senders: push, hand the message to the bus, wait    *)
(* for is_done up to a timeout (wait_done_until), take_cfm.  The lock is    *)
(* released between the steps, so clients, the receive thread (on_cfm) and  *)
(* the power sequence (sdio_init, sdio_exit) interleave between them.       *)
(* send_dbg_mem_write_direct and the other senders of DBG writes that pass   *)
(* the lock around skip take_cfm: WaitOkKeep.                                *)
(*                                                                         *)
(* The firmware is external.  It may answer late or never, but answers the  *)
(* requests of one kind in the order it received them.                      *)
(***************************************************************************)
EXTENDS CmdMgr

CONSTANTS
  Clients,   \* threads that send commands
  MaxCmds,   \* bound: commands pushed in a behaviour
  MaxInits   \* bound: times aicbsp_sdio_init stores a manager

ASSUME BoundsAssumption == MaxCmds \in Nat /\ MaxInits \in Nat
ASSUME CfmIdsAssumption == CfmIds # {}

VARIABLES
  inits,   \* managers stored so far
  serial,  \* commands pushed so far; the last one's number
  pc,      \* where a client's call is
  token,   \* the slot index push returned to the client
  mine,    \* the number of the client's command
  reqid,   \* the confirmation id it waits for
  res,     \* the result of the client's last call
  got,     \* the request whose CFM ended the client's last successful call
  wire,    \* requests the firmware has and will answer or drop
  ambig    \* history: ids pushed while another command waited for the same id

clientVars == <<pc, token, mine, reqid, res, got>>
vars == <<mgrVars, inits, serial, clientVars, wire, ambig>>

Request == [reqid: CfmIds, serial: Nat]

TypeOK ==
  /\ MgrTypeOK
  /\ inits \in Nat
  /\ serial \in Nat
  /\ pc \in [Clients -> {"idle", "pushed", "wait", "take"}]
  /\ token \in [Clients -> Slot]
  /\ mine \in [Clients -> Nat]
  /\ reqid \in [Clients -> CfmIds]
  /\ res \in [Clients -> {"none", "OK", "ENOMEM", "ETX", "ETIMEDOUT", "EIO"}]
  /\ got \in [Clients -> Nat]
  /\ wire \subseteq Request
  /\ ambig \subseteq CfmIds

Init ==
  /\ MgrInit
  /\ inits = 0
  /\ serial = 0
  /\ pc = [c \in Clients |-> "idle"]
  /\ token = [c \in Clients |-> 0]
  /\ mine = [c \in Clients |-> 0]
  /\ reqid = [c \in Clients |-> CHOOSE r \in CfmIds : TRUE]
  /\ res = [c \in Clients |-> "none"]
  /\ got = [c \in Clients |-> 0]
  /\ wire = {}
  /\ ambig = {}

(* The call ends with result x. *)
Return(c, x) ==
  /\ pc' = [pc EXCEPT ![c] = "idle"]
  /\ res' = [res EXCEPT ![c] = x]

-----------------------------------------------------------------------------
(* Slips a maintainer could make in the actions below. *)

(* wait_done_until without its time limit. *)
NoTimeout(c) == FALSE /\ pc[c] = "wait" /\ Return(c, "ETIMEDOUT")
                /\ UNCHANGED <<mgrVars, inits, serial, token, mine, reqid,
                               got, wire, ambig>>

(* A timed-out call releases its slot although the CFM may still come. *)
TimeoutTakes(c) ==
  /\ pc[c] = "wait"
  /\ IF up THEN TakeSlot(token[c]) ELSE UNCHANGED mgrVars
  /\ Return(c, "ETIMEDOUT")
  /\ UNCHANGED <<inits, serial, token, mine, reqid, got, wire, ambig>>

-----------------------------------------------------------------------------
(* with_cmd_mgr(|c| c.push(cfm_id)) *)
Push(c) ==
  /\ pc[c] = "idle"
  /\ CanPush
  /\ serial < MaxCmds
  /\ \E r \in CfmIds :
       /\ PushCmd(r, serial + 1)
       /\ reqid' = [reqid EXCEPT ![c] = r]
       /\ ambig' = IF WaitingFor(r) = {} THEN ambig ELSE ambig \cup {r}
  /\ serial' = serial + 1
  /\ token' = [token EXCEPT ![c] = PushSlot]
  /\ mine' = [mine EXCEPT ![c] = serial + 1]
  /\ pc' = [pc EXCEPT ![c] = "pushed"]
  /\ UNCHANGED <<inits, res, got, wire>>

(* push returned None, or there is no manager: the call returns -12. *)
PushFails(c) ==
  /\ pc[c] = "idle"
  /\ ~CanPush
  /\ Return(c, "ENOMEM")
  /\ UNCHANGED <<mgrVars, inits, serial, token, mine, reqid, got, wire,
                 ambig>>

(* The message reached the firmware. *)
TxOk(c) ==
  /\ pc[c] = "pushed"
  /\ pc' = [pc EXCEPT ![c] = "wait"]
  /\ wire' = wire \cup {[reqid |-> reqid[c], serial |-> mine[c]]}
  /\ UNCHANGED <<mgrVars, inits, serial, token, mine, reqid, res, got,
                 ambig>>

(* The send failed: the call returns the error and leaves its slot waiting.  *)
(* After -110 the bus thread may still have sent the message.                *)
TxFail(c) ==
  /\ pc[c] = "pushed"
  /\ wire' \in {wire, wire \cup {[reqid |-> reqid[c], serial |-> mine[c]]}}
  /\ Return(c, "ETX")
  /\ UNCHANGED <<mgrVars, inits, serial, token, mine, reqid, got, ambig>>

(* wait_done_until sees is_done(token) and the caller goes on to take_cfm. *)
WaitOk(c) ==
  /\ pc[c] = "wait"
  /\ IsDone(token[c])
  /\ pc' = [pc EXCEPT ![c] = "take"]
  /\ UNCHANGED <<mgrVars, inits, serial, token, mine, reqid, res, got, wire,
                 ambig>>

(* As WaitOk, in a sender that returns without take_cfm: its completed       *)
(* command stays in the table.                                               *)
WaitOkKeep(c) ==
  /\ pc[c] = "wait"
  /\ IsDone(token[c])
  /\ Return(c, "OK")
  /\ got' = [got EXCEPT ![c] = slots[token[c]].cfm]
  /\ UNCHANGED <<mgrVars, inits, serial, token, mine, reqid, wire, ambig>>

(* wait_done_until gives up; the CFM may arrive between the last look at     *)
(* is_done and the return, so the slot may be in any state.  Neither         *)
(* wait_done_until nor a caller touches the slot.                            *)
WaitTimeout(c) ==
  /\ pc[c] = "wait"
  /\ Return(c, "ETIMEDOUT")
  /\ UNCHANGED <<mgrVars, inits, serial, token, mine, reqid, got, wire,
                 ambig>>

(* with_cmd_mgr(|c| c.take_cfm(token, buf)); None becomes -5. *)
Take(c) ==
  /\ pc[c] = "take"
  /\ IF up THEN TakeSlot(token[c]) ELSE UNCHANGED mgrVars
  /\ IF IsDone(token[c])
     THEN Return(c, "OK") /\ got' = [got EXCEPT ![c] = slots[token[c]].cfm]
     ELSE Return(c, "EIO") /\ UNCHANGED got
  /\ UNCHANGED <<inits, serial, token, mine, reqid, wire, ambig>>

(* The receive path reads the firmware's answer to m and calls on_cfm. *)
Confirm(m) ==
  /\ up
  /\ \A o \in wire : o.reqid = m.reqid => m.serial <= o.serial
  /\ OnCfm(m.reqid, m.serial)
  /\ wire' = wire \ {m}
  /\ UNCHANGED <<inits, serial, clientVars, ambig>>

(* The firmware never answers m, or the answer is lost on the way. *)
Drop(m) ==
  /\ wire' = wire \ {m}
  /\ UNCHANGED <<mgrVars, inits, serial, clientVars, ambig>>

(* aicbsp_sdio_init stores a new manager, over an old one if there is one;   *)
(* the power-on before it reset the chip.                                    *)
SdioInit ==
  /\ inits < MaxInits
  /\ inits' = inits + 1
  /\ FreshMgr
  /\ wire' = {}
  /\ UNCHANGED <<serial, clientVars, ambig>>

(* aicbsp_sdio_exit, which does not wait for calls in progress. *)
SdioExit ==
  /\ up
  /\ DropMgr
  /\ UNCHANGED <<inits, serial, clientVars, wire, ambig>>

ClientStep(c) ==
  \/ Push(c) \/ PushFails(c) \/ TxOk(c) \/ TxFail(c)
  \/ WaitOk(c) \/ WaitOkKeep(c) \/ WaitTimeout(c) \/ Take(c)

Next ==
  \/ \E c \in Clients : ClientStep(c)
  \/ \E m \in wire : Confirm(m) \/ Drop(m)
  \/ SdioInit
  \/ SdioExit

Spec == Init /\ [][Next]_vars

(* A call in progress goes on: its waits are all bounded by timeouts. *)
Fairness ==
  \A c \in Clients :
    /\ WF_vars(TxOk(c) \/ TxFail(c))
    /\ WF_vars(WaitOk(c) \/ WaitOkKeep(c) \/ WaitTimeout(c))
    /\ WF_vars(Take(c))

FairSpec == Spec /\ Fairness

-----------------------------------------------------------------------------
(* No manager has been replaced yet.  sdio_exit and sdio_init do not wait    *)
(* for calls in progress, so after a second init a call may hold a token of  *)
(* the old table; what is said below of tokens holds in the first life only. *)
FirstLife == inits <= 1

(* queue_sz never falls below the number of waiting commands and never       *)
(* exceeds max_queue_sz, through every restart: push's test of queue_sz      *)
(* admits no more than MaxPending waiting commands and saturating_sub in     *)
(* cmd_complete never has to saturate.                                       *)
QueueSzBound ==
  /\ Cardinality(Waiting) <= queue_sz
  /\ queue_sz <= MaxPending

(* In the first life queue_sz is the number of commands that still wait,     *)
(* although take_cfm frees slots without touching it: take_cfm is only ever  *)
(* called on a completed command.                                            *)
QueueSzExact == FirstLife => queue_sz = Cardinality(Waiting)

(* A call in progress finds its own command in the slot its token names,     *)
(* whatever the other threads, late CFMs and timed-out calls did since push  *)
(* released the lock; so no two calls hold the same token.                   *)
OwnSlot ==
  FirstLife /\ up =>
    \A c \in Clients :
      pc[c] # "idle" =>
        /\ slots[token[c]] # Free
        /\ slots[token[c]].serial = mine[c]
        /\ slots[token[c]].reqid = reqid[c]
        /\ pc[c] = "take" => slots[token[c]].flags = "DONE"

(* A successful call ends with the CFM that answers its own request, as long *)
(* as no two commands ever waited for the same confirmation id at once:      *)
(* on_cfm has only the id to match a CFM with a command.                     *)
CfmIsMine ==
  FirstLife =>
    \A c \in Clients :
      pc[c] = "idle" /\ res[c] = "OK" /\ reqid[c] \notin ambig
        => got[c] = mine[c]

(* What a slot may do in a step.  A command enters a free slot and waits; it *)
(* is completed at most once, and the CFM of a completed command is never    *)
(* overwritten by a later one; only the call that pushed it frees the slot,  *)
(* and only once it is completed.                                            *)
SlotStep(s) ==
  \/ slots'[s] = slots[s]
  \/ slots[s] = Free /\ slots'[s].flags = "WAIT_CFM" /\ slots'[s].serial = serial'
  \/ /\ slots[s].flags = "WAIT_CFM"
     /\ \E n \in 1 .. serial : slots'[s] = Completed(slots[s], n)
  \/ /\ slots[s].flags = "DONE"
     /\ slots'[s] = Free
     /\ \E c \in Clients :
          pc[c] = "take" /\ mine[c] = slots[s].serial /\ pc'[c] = "idle"

SlotLifecycle ==
  [][FirstLife' /\ up /\ up' => \A s \in Slot : SlotStep(s)]_vars

(* Every call ends: with its CFM or with an error, also when the firmware    *)
(* never answers, the table is full of dead commands or the manager is gone. *)
CommandEnds ==
  \A c \in Clients : pc[c] # "idle" ~> pc[c] = "idle"
=============================================================================
