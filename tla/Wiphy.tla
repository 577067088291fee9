------------------------------- MODULE Wiphy --------------------------------
(***************************************************************************)
(* FDRV's cfg80211 operations (driver/fdrv/src/wiphy_impl.rs, behind the    *)
(* PLATFORM_WIPHY lock of platform.rs, which has been initialised), over    *)
(* the command manager (CmdMgr).  An operation pushes a command, submits    *)
(* its request and waits for the CFM with the lock held; whoever polls the  *)
(* receive path meanwhile runs on_cfm and the callbacks of the indications. *)
(*                                                                          *)
(* Data abstraction.  A request is its operation and the index it carries.  *)
(* A message from the firmware is its id and the serial number of the       *)
(* request it answers, 0 for an indication; `answers' keeps what a CFM says: *)
(* whether it has parameters, its status, and the index it reports.         *)
(* Message ids are the numbers of driver/bsp/src/cmd.rs.  default_key and   *)
(* default_mgmt_key are written and never read, and left out.               *)
(***************************************************************************)
EXTENDS CmdMgr, Sequences

CONSTANTS
  Ops,       \* the operations applications ask for, [kind, vif, key, mac, arg]
  MaxVif,    \* MAX_VIF, 4
  MaxKeys,   \* MAX_KEYS_PER_VIF, 8
  TableLen,  \* STA_TABLE_LEN, 16
  HwKeys,    \* indices of the firmware's key slots
  StaIdxs,   \* indices of the firmware's stations
  Macs,      \* addresses of access points
  MaxCalls,  \* bound: calls
  MaxCmds,   \* bound: calls with a command
  MaxLost,   \* bound: CFMs lost, and requests that fail to be sent
  MaxInds    \* bound: indications

Bcast == "ff:ff:ff:ff:ff:ff"
None == "None"
NoIdx == -1     \* Option::None of an index or a channel
NoPower == 128  \* Option::None of an i8

(* cmd.rs: lmac_first_msg(task) and the ids of the messages. *)
MM == 0
SCANU == 4 * 1024
SM == 6 * 1024
APM == 7 * 1024
MM_KEY_ADD_REQ == MM + 72
MM_PS_CHANGE_IND == MM + 75
SM_CONNECT_IND == SM + 2

CfmId == [
  add_if |-> MM + 4 + 1, remove_if |-> MM + 6 + 1,
  add_station |-> MM + 10 + 1, del_station |-> MM + 12 + 1,
  set_power |-> MM + 46 + 1,
  add_key |-> MM_KEY_ADD_REQ + 1, del_key |-> MM_KEY_ADD_REQ + 3,
  get_station |-> MM + 368 + 1,
  scan |-> SCANU + 1, connect |-> SM + 1, disconnect |-> SM + 4,
  start_ap |-> APM + 1, stop_ap |-> APM + 3]

(* An interface id is the byte add_interface got from the firmware, so        *)
(* `iface_id as u8' keeps it.                                                 *)
ASSUME WiphyAssumption ==
  /\ Ops \subseteq [kind: DOMAIN CfmId, vif: 0 .. 255, key: Nat,
                    mac: Macs \cup {Bcast, None}, arg: Int]
  /\ CfmIds = {CfmId[k] : k \in DOMAIN CfmId}
  /\ {MaxVif, MaxKeys, TableLen, MaxCalls, MaxCmds, MaxLost, MaxInds} \subseteq Nat
  /\ HwKeys \subseteq Nat /\ StaIdxs \subseteq Nat
  /\ {Bcast, None} \cap Macs = {}

Keys == (0 .. MaxVif - 1) \X (0 .. MaxKeys - 1)
VifRange == 0 .. MaxVif - 1

VARIABLES
  key_hw,     \* key_hw
  sta_table,  \* sta_table
  channel,    \* current_channel
  tx_power,   \* last_tx_power_dbm
  op,         \* the operation of the thread that has PLATFORM_WIPHY locked
              \* and waits for its CFM, or NoOp
  token,      \* the slot of its command
  todo,       \* external: requests the firmware has not executed
  air,        \* external: messages on their way to the host
  answers,    \* external: what the CFM of a request says
  rx,         \* the message a poll has taken, with CMD_MGR locked, or <<>>
  fw_keys,    \* external: the key in each slot of the firmware
  cmds,       \* calls with a command
  regs,       \* stations registered and unregistered
  lost,       \* CFMs lost, requests not sent
  inds,       \* indications
  last,       \* history: how the last command ended
  undeleted,  \* history: a delete was sent and not confirmed
  told,       \* history: the index last registered for an address, or NoIdx
  holed       \* history: addresses whose entry was overwritten or not made,
              \* or that were entered a second time

mgr == <<up, slots, queue_sz>>
stateVars == <<key_hw, sta_table, channel, tx_power>>
chipVars == <<todo, air, answers, fw_keys>>
countVars == <<cmds, regs, lost, inds>>
histVars == <<last, undeleted, told, holed>>
opVars == <<op, token>>
vars == <<mgr, stateVars, opVars, chipVars, rx, countVars, histVars>>

Unused == [mac |-> None, sta_idx |-> 0, used |-> FALSE]
NoLast == [kind |-> None, res |-> 0, mine |-> TRUE]

NoAnswer == [len |-> 0, st |-> 0, val |-> 0]
NoOp == [kind |-> None, vif |-> 0, key |-> 0, mac |-> None, arg |-> 0]

TypeOK ==
  /\ op \in Ops \cup {NoOp}
  /\ key_hw \in [Keys -> HwKeys \cup {NoIdx}]
  /\ sta_table \in [0 .. TableLen - 1 ->
       [mac: Macs \cup {Bcast, None}, sta_idx: StaIdxs \cup {0}, used: BOOLEAN]]
  /\ channel \in [VifRange -> {o.arg : o \in Ops} \cup {NoIdx}]
  /\ tx_power \in [VifRange -> (-128 .. 127) \cup {NoPower}]
  /\ token \in Slot
  /\ MgrTypeOK /\ queue_sz <= MaxPending
  /\ fw_keys \in [HwKeys -> {<<o.vif, o.key>> : o \in Ops} \cup {<<>>}]

Init ==
  /\ up = TRUE /\ slots = [s \in Slot |-> Free] /\ queue_sz = 0
  /\ key_hw = [k \in Keys |-> NoIdx]
  /\ sta_table = [i \in 0 .. TableLen - 1 |-> Unused]
  /\ channel = [v \in VifRange |-> NoIdx]
  /\ tx_power = [v \in VifRange |-> NoPower]
  /\ op = NoOp /\ token = 0
  /\ todo = <<>> /\ air = <<>> /\ answers = [n \in 1 .. MaxCmds |-> NoAnswer]
  /\ rx = <<>>
  /\ fw_keys = [h \in HwKeys |-> <<>>]
  /\ cmds = 0 /\ regs = 0 /\ lost = 0 /\ inds = 0
  /\ last = NoLast /\ undeleted = FALSE
  /\ told = [m \in Macs |-> NoIdx] /\ holed = {}

-----------------------------------------------------------------------------
(* The station table. *)

(* The first of the entries found, or -1. *)
FirstEntry(found) == IF found = {} THEN -1 ELSE Min(found)

EntryOf(mac) ==
  FirstEntry({i \in DOMAIN sta_table : sta_table[i].used /\ sta_table[i].mac = mac})

(* lookup_sta_idx *)
LookupStaIdx(mac) ==
  IF EntryOf(mac) = -1 THEN NoIdx ELSE sta_table[EntryOf(mac)].sta_idx

(* Slip: a station that is in the table already gets a second entry. *)
SlotForFirstFree(mac) ==
  FirstEntry({i \in DOMAIN sta_table : ~sta_table[i].used})

(* The entry register_sta_from_connect_ind writes: the first that is free or *)
(* has the address.                                                          *)
SlotFor(mac) ==
  FirstEntry({i \in DOMAIN sta_table :
                ~sta_table[i].used \/ sta_table[i].mac = mac})

-----------------------------------------------------------------------------
(* Commands. *)

CmdFree == rx = <<>>   \* CMD_MGR can be locked

(* Pushing and submitting (send_lmac_cmd_and_wait_cfm_with_buf). *)
InRange(o) == o.vif < MaxVif /\ o.key < MaxKeys

(* The checks before the request is built: none, or an error. *)
Refused(o) ==
  \/ o.kind = "del_key" /\ (~InRange(o) \/ key_hw[<<o.vif, o.key>>] = NoIdx)
  \/ o.kind = "get_station" /\ LookupStaIdx(o.mac) = NoIdx
  \/ o.kind = "set_power" /\ o.vif >= MaxVif

IndexOf(o) ==
  CASE o.kind = "del_key" -> key_hw[<<o.vif, o.key>>]
    [] o.kind = "get_station" -> LookupStaIdx(o.mac)
    [] OTHER -> o.arg

(* parse_*_cfm(&cfm_buf[..n]) of the operations that look at the status. *)
Accepted(c) == c.len # 0 /\ c.st = 0

(* What an operation makes of its CFM: 0 is Ok.  Some ignore the message;    *)
(* add_interface and start_ap parse their whole zeroed buffer, whatever its  *)
(* length; the others want the bytes.                                        *)
Answer(o, c) ==
  CASE o.kind \in {"remove_if", "scan", "disconnect", "stop_ap", "del_key"} -> 0
    [] o.kind \in {"add_if", "start_ap"} ->
         IF c.len = 0 \/ c.st = 0 THEN 0 ELSE -5
    [] o.kind \in {"get_station", "set_power"} -> IF c.len = 0 THEN -5 ELSE 0
    [] o.kind = "connect" /\ c.len # 0 /\ c.st = 8 -> -115
    [] o.kind = "connect" /\ c.len # 0 /\ c.st = 9 -> -114
    [] OTHER -> IF Accepted(c) THEN 0 ELSE -5

(* set_tx_power: mBm to dBm, rounded towards 0, as an i8. *)
PowerDbm(power) ==
  LET dbm == IF power < 0 THEN -((-power) \div 100) ELSE power \div 100
  IN  IF power >= 12700 THEN 127 ELSE ((dbm + 128) % 256) - 128

(* The index an operation reads from its CFM. *)
Value(c) == IF c.len = 0 THEN 0 ELSE c.val

-----------------------------------------------------------------------------
(* Slips a maintainer could make in the steps below. *)

(* start_ap enters the broadcast station without a look at bcmc_idx. *)
EnterBcastUnchecked(v) ==
  [i \in DOMAIN sta_table \cup {v} |->
     IF i = v THEN [mac |-> Bcast, sta_idx |-> v, used |-> TRUE] ELSE sta_table[i]]

(* del_key leaves its entry. *)
HwKeyKept(o, v, old) == IF o.kind = "add_key" THEN v ELSE old

(* A call that times out takes its command back. *)
TimeOutTakesBack ==
  /\ op # NoOp /\ CmdFree
  /\ ~IsDone(token)
  /\ slots' = [slots EXCEPT ![token] = Free]
  /\ queue_sz' = queue_sz - 1
  /\ op' = NoOp /\ token' = 0
  /\ last' = NoLast
  /\ undeleted' = (undeleted \/ op.kind = "del_key")
  /\ UNCHANGED <<up, stateVars, chipVars, rx, countVars, told, holed>>

(* The dispatcher registers the station itself, in the receive path. *)
DispatchRegisters ==
  /\ rx # <<>>
  /\ rx[1].id = SM_CONNECT_IND => op = NoOp
  /\ rx' = <<>>
  /\ OnCfm(rx[1].id, rx[1].serial)
  /\ UNCHANGED <<stateVars, opVars, chipVars, countVars, histVars>>

-----------------------------------------------------------------------------
(* with_wiphy_mut: an operation with a command. *)

(* The operation takes the lock, passes its checks, and pushes its command;   *)
(* where a check fails the error is returned and nothing has changed.         *)
Begin(o) ==
  /\ op = NoOp /\ CmdFree /\ cmds < MaxCmds /\ cmds + regs < MaxCalls
  /\ ~Refused(o) /\ CanPush
  /\ cmds' = cmds + 1
  /\ PushCmd(CfmId[o.kind], cmds + 1)

(* submit_cmd_tx_and_wait_tx_done succeeds. *)
Send(o) ==
  /\ Begin(o)
  /\ todo' = Append(todo, [serial |-> cmds + 1, op |-> o, idx |-> IndexOf(o)])
  /\ op' = o /\ token' = PushSlot
  /\ last' = NoLast
  /\ UNCHANGED <<stateVars, air, answers, fw_keys, rx, regs, lost, inds,
                 undeleted, told, holed>>

(* It fails: the command stays in its slot, the request may be on its way.    *)
SendFails(o) ==
  /\ lost < MaxLost /\ lost' = lost + 1
  /\ Begin(o)
  /\ todo' \in {todo, Append(todo, [serial |-> cmds + 1, op |-> o,
                                    idx |-> IndexOf(o)])}
  /\ last' = NoLast
  /\ undeleted' = (undeleted \/ o.kind = "del_key")
  /\ UNCHANGED <<opVars, stateVars, air, answers, fw_keys, rx, regs, inds,
                 told, holed>>

(* push refuses (-12): the leftovers of calls that timed out fill the table.  *)
PushFails(o) ==
  /\ op = NoOp /\ CmdFree
  /\ ~Refused(o) /\ ~CanPush
  /\ last' = [NoLast EXCEPT !.res = -12]
  /\ UNCHANGED <<mgr, stateVars, opVars, chipVars, rx, countVars, undeleted,
                 told, holed>>

(* wait_done_until ends after 6 s; nobody takes the command back. *)
TimeOut ==
  /\ op # NoOp /\ CmdFree
  /\ ~IsDone(token)
  /\ op' = NoOp /\ token' = 0
  /\ last' = NoLast
  /\ undeleted' = (undeleted \/ op.kind = "del_key")
  /\ UNCHANGED <<mgr, stateVars, chipVars, rx, countVars, told, holed>>

(* What start_ap does to the table: bcmc_idx is an index of it. *)
EnterBcast(v) ==
  IF v \notin DOMAIN sta_table THEN sta_table
  ELSE [sta_table EXCEPT ![v] = [mac |-> Bcast, sta_idx |-> v, used |-> TRUE]]

(* What add_key and del_key leave of the entry of their key. *)
HwKeyAfter(o, v, old) ==
  CASE o.kind = "add_key" -> v
    [] o.kind = "del_key" -> NoIdx
    [] OTHER -> old

(* The state an operation that succeeds leaves. *)
Remember(o, v) ==
  /\ key_hw' = [k \in Keys |->
       IF k = <<o.vif, o.key>> THEN HwKeyAfter(o, v, key_hw[k]) ELSE key_hw[k]]
  /\ sta_table' = IF o.kind = "start_ap" THEN EnterBcast(v) ELSE sta_table
  /\ channel' = IF o.kind = "start_ap" /\ o.vif < MaxVif
                THEN [channel EXCEPT ![o.vif] = o.arg] ELSE channel
  /\ tx_power' = IF o.kind = "set_power"
                 THEN [tx_power EXCEPT ![o.vif] = PowerDbm(o.arg)] ELSE tx_power
  /\ holed' = IF o.kind = "start_ap" /\ v < TableLen
              THEN holed \cup ({sta_table[v].mac} \cap Macs) ELSE holed

(* take_cfm, the parser, the bookkeeping, and the lock is dropped. *)
Finish ==
  /\ op # NoOp /\ CmdFree
  /\ IsDone(token)
  /\ LET n == slots[token].cfm
         c == IF n = 0 THEN NoAnswer ELSE answers[n]
         o == op
         r == Answer(o, c)
     IN  /\ IF r = 0 THEN Remember(o, Value(c))
            ELSE UNCHANGED <<stateVars, holed>>
         /\ last' = [kind |-> o.kind, res |-> r, mine |-> n = slots[token].serial]
         /\ answers' = [k \in DOMAIN answers |->
                         IF k = n THEN NoAnswer ELSE answers[k]]
  /\ TakeSlot(token)
  /\ op' = NoOp /\ token' = 0
  /\ UNCHANGED <<todo, air, fw_keys, rx, countVars, undeleted, told>>

-----------------------------------------------------------------------------
(* Stations: the application tells WiphyOpsImpl what SM_CONNECT_IND said. *)

(* register_sta_from_connect_ind *)
Register(m, i) ==
  /\ op = NoOp /\ cmds + regs < MaxCalls
  /\ regs' = regs + 1
  /\ LET s == SlotFor(m)
     IN  /\ sta_table' = IF s = -1 THEN sta_table
                         ELSE [sta_table EXCEPT ![s] =
                                 [mac |-> m, sta_idx |-> i, used |-> TRUE]]
         /\ holed' = IF s = -1 \/ s < EntryOf(m) THEN holed \cup {m} ELSE holed
  /\ told' = [told EXCEPT ![m] = i]
  /\ UNCHANGED <<mgr, key_hw, channel, tx_power, opVars, chipVars, rx, cmds,
                 lost, inds, last, undeleted>>

(* unregister_sta_by_mac *)
Unregister(m) ==
  /\ op = NoOp /\ cmds + regs < MaxCalls
  /\ LookupStaIdx(m) # NoIdx
  /\ regs' = regs + 1
  /\ sta_table' = [sta_table EXCEPT ![EntryOf(m)].used = FALSE]
  /\ told' = [told EXCEPT ![m] = NoIdx]
  /\ UNCHANGED <<mgr, key_hw, channel, tx_power, opVars, chipVars, rx, cmds,
                 lost, inds, last, undeleted, holed>>

-----------------------------------------------------------------------------
(* External: the firmware. *)

(* It answers request q. *)
Confirm(q, len, st, val) ==
  /\ air' = Append(air, [id |-> CfmId[q.op.kind], serial |-> q.serial])
  /\ answers' = [answers EXCEPT ![q.serial] =
                   [len |-> len, st |-> st, val |-> val]]

(* A key is put into the slot it is in, or into a free one. *)
AddKey(q) ==
  /\ q.op.kind = "add_key"
  /\ \/ \E h \in HwKeys :
          /\ fw_keys[h] \in {<<>>, <<q.op.vif, q.op.key>>}
          /\ fw_keys' = [fw_keys EXCEPT ![h] = <<q.op.vif, q.op.key>>]
          /\ Confirm(q, 1, 0, h)
     \/ UNCHANGED fw_keys /\ Confirm(q, 1, 1, 0)

DelKey(q) ==
  /\ q.op.kind = "del_key"
  /\ fw_keys' = [fw_keys EXCEPT ![q.idx] = <<>>]
  /\ Confirm(q, 0, 0, 0)

(* What it may say to the others, as length, status and index. *)
Replies(kind) ==
  CASE kind = "start_ap" -> {<<1, 0, i>> : i \in StaIdxs} \cup {<<1, 1, 0>>, <<0, 0, 0>>}
    [] kind = "connect" -> {<<1, st, 0>> : st \in {0, 1, 8, 9}}
    [] OTHER -> {<<1, 0, 0>>, <<1, 1, 0>>}

OtherRequest(q) ==
  /\ q.op.kind \notin {"add_key", "del_key"}
  /\ UNCHANGED fw_keys
  /\ \E r \in Replies(q.op.kind) : Confirm(q, r[1], r[2], r[3])

(* It executes a request, in order, and sends its CFM. *)
Execute ==
  /\ todo # <<>>
  /\ todo' = Tail(todo)
  /\ AddKey(Head(todo)) \/ DelKey(Head(todo)) \/ OtherRequest(Head(todo))
  /\ UNCHANGED <<mgr, stateVars, opVars, rx, countVars, histVars>>

(* A packet is lost (a failed read, see RxPath). *)
Lose ==
  /\ air # <<>> /\ lost < MaxLost
  /\ lost' = lost + 1
  /\ air' = Tail(air)
  /\ UNCHANGED <<mgr, stateVars, opVars, todo, answers, fw_keys, rx, cmds,
                 regs, inds, histVars>>

(* SM_CONNECT_IND and MM_PS_CHANGE_IND. *)
Indicate ==
  /\ inds < MaxInds
  /\ inds' = inds + 1
  /\ \E id \in {SM_CONNECT_IND, MM_PS_CHANGE_IND} :
       air' = Append(air, [id |-> id, serial |-> 0])
  /\ UNCHANGED <<mgr, stateVars, opVars, todo, answers, fw_keys, rx, cmds,
                 regs, lost, histVars>>

-----------------------------------------------------------------------------
(* The receive path: busrx, or the call that waits. *)

Poll ==
  /\ rx = <<>> /\ air # <<>>
  /\ rx' = <<Head(air)>>
  /\ air' = Tail(air)
  /\ UNCHANGED <<mgr, stateVars, opVars, todo, answers, fw_keys, countVars,
                 histVars>>

(* on_cfm for every message, whatever its kind, then e2a_indication_handler,  *)
(* which hands an SM_CONNECT_IND to the application.                          *)
Dispatch ==
  /\ rx # <<>>
  /\ rx' = <<>>
  /\ OnCfm(rx[1].id, rx[1].serial)
  /\ UNCHANGED <<stateVars, opVars, chipVars, countVars, histVars>>

Next ==
  \/ \E o \in Ops : Send(o) \/ SendFails(o) \/ PushFails(o)
  \/ TimeOut \/ Finish
  \/ \E m \in Macs : Unregister(m) \/ \E i \in StaIdxs : Register(m, i)
  \/ Execute \/ Lose \/ Indicate \/ Poll \/ Dispatch

Spec == Init /\ [][Next]_vars

(* A call that waits goes on (its wait is bounded), and a poll that has a     *)
(* message hands it over.                                                     *)
FairSpec ==
  /\ Spec
  /\ WF_vars(Dispatch)
  /\ SF_vars(TimeOut \/ Finish)

-----------------------------------------------------------------------------
(* An operation that reports Ok was answered by its own CFM, never by one of  *)
(* an earlier call that gave up: the commands such calls leave in the table   *)
(* take the late answers.  (Not del_key, whose CFM has the id of              *)
(* MM_PS_CHANGE_IND.)                                                         *)
ReportsTruth == last.res = 0 /\ last.kind # "del_key" => last.mine

(* Unless a delete went unconfirmed, every key WiphyOpsImpl remembers is the  *)
(* firmware's key for that interface and index, or is being deleted: del_key  *)
(* never deletes another's.                                                   *)
KeysAgree ==
  ~undeleted =>
    \A k \in Keys :
      key_hw[k] # NoIdx =>
        \/ fw_keys[key_hw[k]] = k
        \/ op.kind = "del_key" /\ k = <<op.vif, op.key>>

(* get_station asks for the index the application registered last, and for    *)
(* none after it unregistered the station, unless the table was full, start_ap *)
(* overwrote the entry, or the station was entered twice (a free entry before *)
(* its own).                                                                  *)
StationsTold ==
  \A m \in Macs \ holed : LookupStaIdx(m) = told[m]

(* Every operation returns and gives the lock back. *)
OpsReturn == op # NoOp ~> op = NoOp

(* "send the REQ and wait for the CFM" (send_lmac_cmd_and_wait_cfm_with_buf): *)
(* an operation that reports Ok was answered by the CFM of its request.       *)
ConfirmedByCfm == last.res = 0 => last.mine
=============================================================================
