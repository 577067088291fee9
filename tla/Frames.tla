------------------------------- MODULE Frames -------------------------------
(***************************************************************************)
(* What becomes of a request on its way to the chip: a builder of          *)
(* lmac_cmd.rs or fw_load.rs lays out its parameters, LmacMsg::serialize   *)
(* puts a header in front, the sender and the bustx thread pad it          *)
(* (ipc_send_len_8801, aicwf_sdio_tx_msg_pad), send_msg waits for room in  *)
(* the chip, and sdio_io_rw_ext_helper_write cuts it into CMD53s.          *)
(*                                                                         *)
(* Bytes are counted, not carried.  send_msg runs under SDIO_DEVICE, but   *)
(* every CMD53 may find CARD_INT set and return EAGAIN; bustx then gives   *)
(* the lock back and starts the whole message again.  How a thread waits   *)
(* and is woken is BusTx's subject.  The chip is external.                 *)
(***************************************************************************)
EXTENDS Integers, Sequences

CONSTANTS
  Products,   \* the chips to choose from
  Kinds,      \* the requests to send
  DataLens,   \* sizes of the last piece of a firmware image
  MaxRoom,    \* the chip's receive buffers, at most FLOWCTRL_MASK
  Rounds,     \* rounds of flow control in send_msg, 10
  MaxFrames,  \* bound: requests sent in a behaviour
  MaxAgain    \* bound: CMD53s that return EAGAIN

Aic8801 == "Aic8801"

(* The parameters of each request, field by field as the builder adds them    *)
(* up, and the array it writes them to.                                       *)
LmacMsgMaxLen == 1032
Layout(cap, len) == [cap |-> cap, len |-> len]

(* lmac_cmd.rs *)
ScanuStartReq == Layout(400, 42 * 5 + 33 * 3 + 6 + 6 + 4 + 4)
SmConnectReq == Layout(320, 33 + 6 + 4 + 10 + 4 + 256)
MmAddIfReq == Layout(LmacMsgMaxLen, 1 + 6 + 1)
SmDisconnectReq == Layout(LmacMsgMaxLen, 2 + 1)
MmKeyAddReq == Layout(64, 1 + 1 + 1 + 32 + 1 + 1 + 1 + 1)
MmSetPowerReq == Layout(LmacMsgMaxLen, 1 + 1)
MmStaAddReq == Layout(LmacMsgMaxLen, 6 + 1)
ApmStartReq == Layout(128, 1 + 12 + (2 + 1 + 1 + 1) + (4 + 4 + 1) + (4 + 2 + 2 + 2)
                             + (4 + 2 + 1 + 1))
(* Those with one index: remove_if, key_del, sta_del, get_sta_info, apm_stop. *)
OneIndexReq == Layout(LmacMsgMaxLen, 1)

(* fw_load.rs *)
DbgMemReadReq == Layout(LmacMsgMaxLen, 4)
DbgMemWriteReq == Layout(LmacMsgMaxLen, 4 + 4)
DbgMemMaskWriteReq == Layout(LmacMsgMaxLen, 4 + 4 + 4)
DbgMemBlockWriteReq(n) == Layout(LmacMsgMaxLen, 4 + 4 + n)

FdrvLayout == [
  scanu_start |-> ScanuStartReq, sm_connect |-> SmConnectReq,
  mm_add_if |-> MmAddIfReq, sm_disconnect |-> SmDisconnectReq,
  mm_key_add |-> MmKeyAddReq, mm_set_power |-> MmSetPowerReq,
  mm_sta_add |-> MmStaAddReq, apm_start |-> ApmStartReq,
  one_index |-> OneIndexReq]

(* The direct senders and aicbsp_system_config_8801 have paths of their own;  *)
(* DBG_START_APP_REQ has the length and the path of mem_write.                *)
BspLayout(n) == [
  mem_read |-> DbgMemReadReq, mem_read_direct |-> DbgMemReadReq,
  mem_write |-> DbgMemWriteReq, mem_write_direct |-> DbgMemWriteReq,
  mem_mask_write |-> DbgMemMaskWriteReq,
  block_write |-> DbgMemBlockWriteReq(n), system_config |-> DbgMemWriteReq]

FdrvKinds == DOMAIN FdrvLayout
BspKinds == DOMAIN BspLayout(0)
DirectKinds == {"mem_read_direct", "mem_write_direct"}

ASSUME FramesAssumption ==
  /\ Kinds \subseteq FdrvKinds \cup BspKinds
  /\ DataLens \subseteq 1 .. 1024
  /\ MaxRoom \in 0 .. 127
  /\ Rounds \in Nat \ {0}
  /\ {MaxFrames, MaxAgain} \subseteq Nat

VARIABLES
  product,  \* CURRENT_PRODUCT_ID
  caller,   \* the requesting thread: idle, waiting for bustx, or sending itself
  slot,     \* PENDING_CMD_TX
  at,       \* where bustx and a direct sender are with their message
  msg,      \* the message each of them sends
  holder,   \* who holds SDIO_DEVICE
  round,    \* retry in send_msg
  off,      \* offset in sdio_io_rw_ext_helper_write
  room,     \* FLOW_CTRL: the chip's free receive buffers
  frames, agains,
  taken,    \* history: what the chip has taken of each sender's message
  res       \* what the last send returned

vars == <<product, caller, slot, at, msg, holder, round, off, room, frames,
          agains, taken, res>>

Senders == {"bustx", "direct"}
NoMsg == [len |-> 0, hdr |-> 0, count |-> 0]

-----------------------------------------------------------------------------
(* Pure parts. *)

(* A builder that would overrun its array returns None. *)
Params(k, n) ==
  LET l == IF k \in FdrvKinds THEN FdrvLayout[k] ELSE BspLayout(n)[k]
  IN  IF l.len > l.cap THEN 0 ELSE l.len

(* serialize and serialize_8801: 8 bytes of header, for Aic8801 behind 8 more *)
(* whose first 12 bits are a length.                                          *)
Serialize(plen) ==
  IF product = Aic8801 THEN [len |-> 16 + plen, hdr |-> (8 + plen + 4) % 4096]
  ELSE [len |-> 8 + plen, hdr |-> 0]

Align4(n) == ((n + 3) \div 4) * 4

(* ipc_send_len_8801, in flow.rs and again in wiphy_impl.rs *)
IpcSendLen(n) ==
  IF Align4(n) % 512 = 0 THEN Align4(n)
  ELSE ((Align4(n) + 4 + 511) \div 512) * 512

(* aicwf_sdio_tx_msg_pad *)
TxMsgPad(n) ==
  IF Align4(n) % 512 = 0 THEN Align4(n)
  ELSE ((Align4(n) + 4) \div 512 + 1) * 512

(* mmc_io_rw_extended_arg_{block,byte}: the count in the low 9 bits, and what *)
(* the card makes of it.                                                      *)
ArgCount(n) == n % 512
CardBytes(blocks, n) ==
  IF blocks THEN 512 * ArgCount(n)
  ELSE IF ArgCount(n) = 0 THEN 512 ELSE ArgCount(n)

(* Whether sdio_io_rw_ext_helper_write begins with block mode. *)
ByteModeOnly(size) == FALSE
BlockMode(size) == size > 512

(* Which of the senders pads, and which sends through bustx. *)
Pads(k) ==
  product = Aic8801 /\ k \in FdrvKinds \cup DirectKinds \cup {"system_config"}
ToBustx(k) ==
  \/ k \in FdrvKinds \cup {"mem_read", "system_config"}
  \/ product = Aic8801 /\ k \notin DirectKinds

(* The sender's buffer, and PENDING_CMD_TX_CAP for what it submits. *)
Cap(k) == IF k \in FdrvKinds THEN 512 ELSE 1536

(* aicbsp_system_config and the direct senders are for Aic8801 only. *)
Used(k) == k \in DirectKinds \cup {"system_config"} => product = Aic8801

-----------------------------------------------------------------------------
Init ==
  /\ product \in Products
  /\ caller = "idle"
  /\ slot = <<>>
  /\ at = [t \in Senders |-> "idle"]
  /\ msg = [t \in Senders |-> NoMsg]
  /\ holder = "none"
  /\ round = 0 /\ off = 0
  /\ room \in 0 .. MaxRoom
  /\ frames = 0 /\ agains = 0
  /\ taken = [t \in Senders |-> 0]
  /\ res = "none"

(* t has a new message to send. *)
Load(t, m) ==
  /\ at' = [at EXCEPT ![t] = "ready"]
  /\ msg' = [msg EXCEPT ![t] = m]
  /\ taken' = [taken EXCEPT ![t] = 0]

(* send_msg returns x to t.  Whoever waits for bustx takes that as the result *)
(* of its own message.                                                        *)
Return(t, x) ==
  /\ at' = [at EXCEPT ![t] = "idle"]
  /\ holder' = "none"
  /\ caller' = IF caller = t THEN "idle" ELSE caller
  /\ res' = x

(* A retry goes on with the room it has seen before. *)
SendMsgTrusting(t) ==
  /\ at[t] \in {"ready", "again"}
  /\ holder = "none"
  /\ holder' = t
  /\ at' = [at EXCEPT ![t] = IF product = Aic8801 /\ at[t] = "ready" THEN "flow"
                             ELSE "write"]
  /\ round' = 0 /\ off' = 0
  /\ UNCHANGED <<product, caller, slot, msg, room, frames, agains, taken, res>>

-----------------------------------------------------------------------------
(* A request is built, serialised, padded and handed over, or refused. *)
Send(k, n) ==
  LET s == Serialize(Params(k, n))
      out == IF Pads(k) THEN IpcSendLen(s.len) ELSE s.len
      m == [len |-> s.len, hdr |-> s.hdr, count |-> out]
  IN
  /\ caller = "idle" /\ frames < MaxFrames /\ Used(k)
  /\ frames' = frames + 1
  /\ IF Params(k, n) = 0 \/ out > Cap(k)
     THEN res' = "EINVAL" /\ UNCHANGED <<caller, slot, at, msg, taken>>
     ELSE /\ caller' = IF ToBustx(k) THEN "bustx" ELSE "direct"
          /\ res' = "none"
          /\ IF ToBustx(k)
             THEN slot' = <<m>> /\ UNCHANGED <<at, msg, taken>>
             ELSE Load("direct", m) /\ UNCHANGED slot
  /\ UNCHANGED <<product, holder, round, off, room, agains>>

(* bustx takes the message and pads it, again for some. *)
Take ==
  /\ at["bustx"] = "idle" /\ slot # <<>>
  /\ Load("bustx", [Head(slot) EXCEPT !.count = TxMsgPad(@)])
  /\ slot' = <<>>
  /\ UNCHANGED <<product, caller, holder, round, off, room, frames, agains, res>>

(* submit_cmd_tx_and_wait_tx_done: 5 s are over, the message stays. *)
GiveUp ==
  /\ caller = "bustx"
  /\ caller' = "idle"
  /\ res' = "ETIMEDOUT"
  /\ UNCHANGED <<product, slot, at, msg, holder, round, off, room, frames,
                 agains, taken>>

(* send_msg begins, with the lock; only Aic8801 has flow control. *)
SendMsg(t) ==
  /\ at[t] \in {"ready", "again"}
  /\ holder = "none"
  /\ holder' = t
  /\ at' = [at EXCEPT ![t] = IF product = Aic8801 THEN "flow" ELSE "write"]
  /\ round' = 0 /\ off' = 0
  /\ UNCHANGED <<product, caller, slot, msg, room, frames, agains, taken, res>>

(* A round of flow control: FLOW_CTRL is read until it is not 0, at most 50   *)
(* times; it must exceed what the message takes.                              *)
FlowCtrl(t) ==
  /\ at[t] = "flow"
  /\ IF msg[t].count < room * 1536
     THEN /\ at' = [at EXCEPT ![t] = "write"]
          /\ UNCHANGED <<round, holder, caller, res>>
     ELSE IF round < Rounds - 1
     THEN round' = round + 1 /\ UNCHANGED <<at, holder, caller, res>>
     ELSE Return(t, "ETIMEDOUT") /\ UNCHANGED round
  /\ UNCHANGED <<product, slot, msg, off, room, frames, agains, taken>>

(* One CMD53 of sdio_io_rw_ext_helper_write: blocks while there is a whole    *)
(* one left, then the tail byte by byte.                                      *)
Write(t) ==
  LET size == msg[t].count
      rest == size - off
      blocks == BlockMode(size) /\ rest >= 512
      limit == IF blocks THEN 511 ELSE 512
      want == IF blocks THEN rest \div 512 ELSE rest
      n == IF want < limit THEN want ELSE limit
  IN
  /\ at[t] = "write" /\ rest > 0
  /\ off' = off + (IF blocks THEN 512 * n ELSE n)
  /\ taken' = [taken EXCEPT ![t] = @ + CardBytes(blocks, n)]
  /\ UNCHANGED <<product, caller, slot, at, msg, holder, round, room, frames,
                 agains, res>>

(* All of it is written: the chip has a buffer less. *)
Sent(t) ==
  /\ at[t] = "write" /\ off = msg[t].count
  /\ Return(t, "OK")
  /\ room' = IF room = 0 THEN 0 ELSE room - 1
  /\ UNCHANGED <<product, slot, msg, round, off, frames, agains, taken>>

(* A CMD53 finds CARD_INT before it is issued: EAGAIN.  bustx releases the    *)
(* lock, waits for sdio_irq_work and calls send_msg again; a direct sender    *)
(* reports the error.                                                         *)
Again(t) ==
  /\ at[t] = "write" /\ off < msg[t].count
  /\ agains < MaxAgain
  /\ agains' = agains + 1
  /\ IF t = "bustx"
     THEN /\ at' = [at EXCEPT ![t] = "again"]
          /\ holder' = "none"
          /\ UNCHANGED <<caller, res>>
     ELSE Return(t, "EAGAIN")
  /\ UNCHANGED <<product, slot, msg, round, off, room, frames, taken>>

(* A CMD52 of the flow control or a CMD53 fails. *)
Fails(t) ==
  /\ \/ at[t] = "flow"
     \/ at[t] = "write" /\ off < msg[t].count
  /\ Return(t, "EIO")
  /\ UNCHANGED <<product, slot, msg, round, off, room, frames, agains, taken>>

(* The firmware has handled a message and frees its buffer. *)
ChipDrains ==
  /\ room < MaxRoom
  /\ room' = room + 1
  /\ UNCHANGED <<product, caller, slot, at, msg, holder, round, off, frames,
                 agains, taken, res>>

Next ==
  \/ \E k \in Kinds : \E n \in IF k = "block_write" THEN DataLens ELSE {0} :
       Send(k, n)
  \/ Take \/ GiveUp
  \/ \E t \in Senders :
       SendMsg(t) \/ FlowCtrl(t) \/ Write(t) \/ Sent(t) \/ Again(t) \/ Fails(t)
  \/ ChipDrains

Spec == Init /\ [][Next]_vars

-----------------------------------------------------------------------------
(* A frame for the chip: whole blocks, with the 4-byte link tail behind the   *)
(* message unless that fills its last block, and the message's own length.    *)
WellPadded(m) ==
  /\ m.count % 512 = 0
  /\ m.count = Align4(m.len) \/ m.count >= Align4(m.len) + 4
  /\ m.count <= 1536
  /\ product = Aic8801 => m.hdr = m.len - 4

(* When send_msg is about to return Ok, the chip has taken the frame exactly  *)
(* once: the CMD53s together carry every byte of it, their 9-bit counts mean  *)
(* what was meant, and a retry after EAGAIN repeated nothing, because a       *)
(* padded frame never needs a second command.  No padding, done once or       *)
(* twice, loses a byte of the message or its tail; no request of the builders *)
(* is too long for its sender's buffer.                                       *)
SentWhole ==
  /\ res # "EINVAL"
  /\ \A t \in Senders :
       at[t] = "write" /\ off = msg[t].count =>
         /\ taken[t] = msg[t].count
         /\ t = "bustx" \/ product = Aic8801 => WellPadded(msg[t])

(* A frame goes to an Aic8801 only while it has the buffers for it.  The room *)
(* is read before the write, and another sender may use it up while bustx     *)
(* waits to try again.                                                        *)
RoomKept ==
  \A t \in Senders :
    at[t] = "write" /\ product = Aic8801 => msg[t].count <= room * 1536
=============================================================================
