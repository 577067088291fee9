---------------------------- MODULE FramesProofs ----------------------------
(***************************************************************************)
(* Proofs about Frames: for every size of the last piece of an image, any  *)
(* number of requests and of EAGAINs, and any room in the chip.            *)
(***************************************************************************)
EXTENDS Frames, TLAPS

-----------------------------------------------------------------------------
(* The requests *)

FdrvNames == {"scanu_start", "sm_connect", "mm_add_if", "sm_disconnect", "mm_key_add",
              "mm_set_power", "mm_sta_add", "apm_start", "one_index"}
BspNames == {"mem_read", "mem_read_direct", "mem_write", "mem_write_direct",
             "mem_mask_write", "block_write", "system_config"}

LEMMA Names == FdrvKinds = FdrvNames /\ BspKinds = BspNames
  BY DEF FdrvKinds, BspKinds, FdrvLayout, BspLayout, FdrvNames, BspNames

(* The sizes a piece of an image may have in request k. *)
Pieces(k) == IF k = "block_write" THEN DataLens ELSE {0}

LEMMA Constants ==
  /\ \A k \in Kinds : k \in FdrvNames \/ k \in BspNames
  /\ \A k \in Kinds : \A n \in Pieces(k) : n \in Nat /\ n <= 1024
  /\ MaxRoom \in Nat
  BY FramesAssumption, Names DEF Pieces

(* No builder overruns its array; those of the FDRV stay below 330 bytes. *)
LEMMA FdrvParams ==
  ASSUME NEW k \in FdrvNames, NEW n
  PROVE  Params(k, n) \in Nat /\ Params(k, n) > 0 /\ Params(k, n) < 330
<1>1. Params(k, n) = IF FdrvLayout[k].len > FdrvLayout[k].cap THEN 0 ELSE FdrvLayout[k].len
  BY Names DEF Params
<1>2. CASE k \in {"scanu_start", "sm_connect", "mm_add_if"}
  BY <1>1, <1>2 DEF FdrvLayout, ScanuStartReq, SmConnectReq, MmAddIfReq, Layout,
     LmacMsgMaxLen
<1>3. CASE k \in {"sm_disconnect", "mm_key_add", "mm_set_power"}
  BY <1>1, <1>3 DEF FdrvLayout, SmDisconnectReq, MmKeyAddReq, MmSetPowerReq, Layout,
     LmacMsgMaxLen
<1>4. CASE k \in {"mm_sta_add", "apm_start", "one_index"}
  BY <1>1, <1>4 DEF FdrvLayout, MmStaAddReq, ApmStartReq, OneIndexReq, Layout,
     LmacMsgMaxLen
<1> QED
  BY <1>2, <1>3, <1>4 DEF FdrvNames

LEMMA BspParams ==
  ASSUME NEW k \in BspNames, NEW n \in Nat, n <= 1024
  PROVE  /\ Params(k, n) \in Nat /\ Params(k, n) > 0 /\ Params(k, n) <= 1032
         /\ k # "block_write" => Params(k, n) <= 12
<1>1. Params(k, n) = IF BspLayout(n)[k].len > BspLayout(n)[k].cap THEN 0
                     ELSE BspLayout(n)[k].len
  BY Names DEF Params, FdrvNames, BspNames
<1>2. CASE k = "block_write"
  BY <1>1, <1>2 DEF BspLayout, DbgMemBlockWriteReq, Layout, LmacMsgMaxLen
<1>3. CASE k # "block_write"
  BY <1>1, <1>3 DEF BspNames, BspLayout, DbgMemReadReq, DbgMemWriteReq, DbgMemMaskWriteReq,
     Layout, LmacMsgMaxLen
<1> QED
  BY <1>2, <1>3

-----------------------------------------------------------------------------
(* The padding *)

(* Whole blocks, three at most, with the tail behind len bytes of message. *)
Padded(len, count) ==
  /\ count \in Nat /\ count % 512 = 0 /\ count <= 1536 /\ count > 0
  /\ count = Align4(len) \/ count >= Align4(len) + 4

LEMMA IpcPads ==
  ASSUME NEW len \in Nat, len > 0, len <= 1048
  PROVE  /\ Padded(len, IpcSendLen(len))
         /\ len <= 345 => IpcSendLen(len) = 512
  BY DEF Padded, IpcSendLen, Align4

LEMMA TxPads ==
  ASSUME NEW len \in Nat, len > 0, len <= 1048
  PROVE  Padded(len, TxMsgPad(len))
  BY DEF Padded, TxMsgPad, Align4

(* A padded message is left as it is. *)
LEMMA PadTwice ==
  ASSUME NEW len \in Nat, NEW count, Padded(len, count)
  PROVE  TxMsgPad(count) = count
  BY DEF Padded, TxMsgPad, Align4

-----------------------------------------------------------------------------
(* The inductive invariant *)

(* A message as its sender hands it over. *)
Handed(m) ==
  /\ m \in [len : Nat, hdr : Int, count : Nat]
  /\ m.len > 0 /\ m.len <= 1048
  /\ m.count = m.len \/ Padded(m.len, m.count)
  /\ product = Aic8801 => m.hdr = m.len - 4

(* A message as it goes to the bus: padded by bustx, or by a direct sender    *)
(* for the chip that asks for it.                                             *)
Loaded(t, m) ==
  /\ Handed(m)
  /\ t = "bustx" \/ product = Aic8801 => Padded(m.len, m.count)

States == {"idle", "ready", "again", "flow", "write"}

Types ==
  /\ at \in [Senders -> States]
  /\ msg \in [Senders -> [len : Nat, hdr : Int, count : Nat]]
  /\ taken \in [Senders -> Nat]
  /\ off \in Nat
  /\ room \in Nat
  /\ slot # <<>> => Handed(Head(slot))

(* One sender at a time writes; a direct sender is the thread that asked. *)
TurnInv ==
  /\ \A t \in Senders : at[t] \in {"flow", "write"} => holder = t
  /\ at["direct"] # "idle" => caller = "direct"

(* The chip has taken what was written of this attempt and nothing before it; *)
(* a padded frame is written by one command.                                  *)
SendInv ==
  \A t \in Senders :
    /\ at[t] # "idle" => Loaded(t, msg[t])
    /\ at[t] \in {"ready", "again", "flow"} => taken[t] = 0
    /\ at[t] = "flow" => off = 0
    /\ at[t] = "write" => taken[t] = off /\ off <= msg[t].count
    /\ at[t] = "write" /\ t = "bustx" => off = 0 \/ off = msg[t].count

IInv == Types /\ TurnInv /\ SendInv /\ RoomKept /\ res # "EINVAL"

-----------------------------------------------------------------------------
(* What the steps do *)

(* Every request of the driver is accepted and handed over complete. *)
LEMMA Built ==
  ASSUME NEW k \in Kinds, NEW n \in Pieces(k), Used(k)
  PROVE  LET s == Serialize(Params(k, n))
             out == IF Pads(k) THEN IpcSendLen(s.len) ELSE s.len
             m == [len |-> s.len, hdr |-> s.hdr, count |-> out]
         IN  /\ Params(k, n) # 0 /\ ~(out > Cap(k))
             /\ Handed(m)
             /\ ~ToBustx(k) => Loaded("direct", m)
<1> DEFINE p == Params(k, n)
           s == Serialize(p)
           out == IF Pads(k) THEN IpcSendLen(s.len) ELSE s.len
           m == [len |-> s.len, hdr |-> s.hdr, count |-> out]
<1>1. k \in FdrvNames \/ k \in BspNames
  BY Constants
<1>2. n \in Nat /\ n <= 1024
  BY Constants
<1>3. /\ p \in Nat /\ p > 0 /\ p <= 1032
      /\ k # "block_write" => p < 330
  BY <1>1, <1>2, FdrvParams, BspParams DEF FdrvNames
<1> HIDE DEF p
<1>4. /\ s.len \in Nat /\ s.len > 0 /\ s.len <= p + 16 /\ s.hdr \in Nat
      /\ product = Aic8801 => s.hdr = s.len - 4
  BY <1>3 DEF Serialize
<1> HIDE DEF s
<1>5. Pads(k) => Padded(s.len, IpcSendLen(s.len))
  BY <1>3, <1>4, IpcPads
<1>6. Pads(k) => k # "block_write"
  BY Names DEF Pads, FdrvNames, DirectKinds
<1>7. Pads(k) => IpcSendLen(s.len) = 512
  BY <1>3, <1>4, <1>6, IpcPads
<1>8. ~(out > Cap(k))
  <2>1. CASE k \in FdrvNames
    <3>1. s.len <= 512
      BY <1>3, <1>4, <2>1 DEF FdrvNames
    <3> QED
      BY <1>4, <1>7, <2>1, <3>1, Names DEF Cap
  <2>2. CASE k \in BspNames
    <3>1. Cap(k) = 1536
      BY <2>2, Names DEF Cap, FdrvNames, BspNames
    <3> QED
      BY <1>3, <1>4, <1>7, <3>1
  <2> QED
    BY <1>1, <2>1, <2>2
<1>9. out \in Nat /\ (out = s.len \/ Padded(s.len, out))
  BY <1>4, <1>5 DEF Padded
<1>10. ~ToBustx(k) /\ product = Aic8801 => Padded(s.len, out)
  <2>1. ~ToBustx(k) /\ product = Aic8801 => Pads(k)
    BY DEF ToBustx, Pads
  <2> QED
    BY <1>5, <2>1
<1> HIDE DEF out
<1>11. Handed(m)
  BY <1>3, <1>4, <1>9 DEF Handed
<1>12. ~ToBustx(k) => Loaded("direct", m)
  BY <1>10, <1>11 DEF Loaded
<1> QED
  BY <1>3, <1>8, <1>11, <1>12 DEF p, s, out

(* bustx pads what was not padded and leaves alone what was. *)
LEMMA PaddedAgain ==
  ASSUME NEW m, Handed(m)
  PROVE  Loaded("bustx", [m EXCEPT !.count = TxMsgPad(@)])
<1> DEFINE o == [m EXCEPT !.count = TxMsgPad(@)]
<1>1. m \in [len : Nat, hdr : Int, count : Nat] /\ m.len > 0 /\ m.len <= 1048
  BY DEF Handed
<1>2. Padded(m.len, TxMsgPad(m.count))
  BY <1>1, TxPads, PadTwice DEF Handed
<1>3. o = [len |-> m.len, hdr |-> m.hdr, count |-> TxMsgPad(m.count)]
  BY <1>1
<1>4. TxMsgPad(m.count) \in Nat
  BY <1>2 DEF Padded
<1>5. o \in [len : Nat, hdr : Int, count : Nat] /\ o.len = m.len /\ o.hdr = m.hdr
      /\ o.count = TxMsgPad(m.count)
  BY <1>1, <1>3, <1>4
<1> HIDE DEF o
<1>6. Handed(o)
  BY <1>1, <1>2, <1>5 DEF Handed
<1>7. Loaded("bustx", o)
  BY <1>2, <1>5, <1>6 DEF Loaded
<1> QED
  BY <1>7 DEF o

(* Every CMD53 carries to the card what the helper counts for it, and a       *)
(* padded frame goes in one.                                                  *)
LEMMA OneCommand ==
  ASSUME NEW size \in Nat, NEW o \in Nat, o < size
  PROVE  LET rest == size - o
             blocks == BlockMode(size) /\ rest >= 512
             limit == IF blocks THEN 511 ELSE 512
             want == IF blocks THEN rest \div 512 ELSE rest
             n == IF want < limit THEN want ELSE limit
             bytes == IF blocks THEN 512 * n ELSE n
         IN  /\ CardBytes(blocks, n) = bytes
             /\ bytes \in Nat /\ o + bytes <= size
             /\ o = 0 /\ size % 512 = 0 /\ size <= 1536 => o + bytes = size
<1> DEFINE rest == size - o
           blocks == BlockMode(size) /\ rest >= 512
           limit == IF blocks THEN 511 ELSE 512
           want == IF blocks THEN rest \div 512 ELSE rest
           n == IF want < limit THEN want ELSE limit
           bytes == IF blocks THEN 512 * n ELSE n
<1>1. rest \in Nat /\ rest > 0 /\ rest <= size
  OBVIOUS
<1>2. CASE size > 512 /\ rest >= 512
  <2>1. blocks /\ limit = 511 /\ want = rest \div 512 /\ bytes = 512 * n
    BY <1>2 DEF BlockMode
  <2>2. want \in Nat /\ want > 0 /\ 512 * want <= rest
    BY <1>1, <1>2, <2>1
  <2>3. n \in Nat /\ n > 0 /\ n < 512 /\ n <= want
    BY <2>1, <2>2
  <2>4. CardBytes(blocks, n) = 512 * n
    <3>1. n % 512 = n
      BY <2>3
    <3> QED
      BY <2>1, <3>1 DEF CardBytes, ArgCount
  <2>5. o = 0 /\ size % 512 = 0 /\ size <= 1536 => 512 * n = size
    <3> SUFFICES ASSUME o = 0, size % 512 = 0, size <= 1536 PROVE 512 * n = size
      OBVIOUS
    <3>1. rest = size
      OBVIOUS
    <3> HIDE DEF rest
    <3>2. want = size \div 512 /\ 512 * (size \div 512) = size /\ size \div 512 <= 3
      BY <2>1, <3>1
    <3>3. n = size \div 512
      BY <2>1, <3>2
    <3> QED
      BY <3>2, <3>3
  <2>6. 512 * n \in Nat /\ 512 * n <= rest
    BY <2>2, <2>3
  <2>7. o + 512 * n <= size
    BY <2>6
  <2> HIDE DEF n, blocks, limit, want
  <2>8. o = 0 /\ size % 512 = 0 /\ size <= 1536 => o + 512 * n = size
    BY <2>3, <2>5
  <2> QED
    BY <2>1, <2>4, <2>6, <2>7, <2>8 DEF n, blocks, limit, want
<1>3. CASE ~(size > 512 /\ rest >= 512)
  <2>1. ~blocks /\ limit = 512 /\ want = rest
    BY <1>3 DEF BlockMode
  <2>2. rest <= 512
    BY <1>1, <1>3
  <2>3. n = rest /\ bytes = rest
    BY <1>1, <2>1, <2>2
  <2>4. CardBytes(blocks, n) = rest
    <3>1. CASE rest = 512
      BY <2>1, <2>3, <3>1 DEF CardBytes, ArgCount
    <3>2. CASE rest < 512
      <4>1. rest % 512 = rest
        BY <1>1, <3>2
      <4> QED
        BY <1>1, <2>1, <2>3, <4>1 DEF CardBytes, ArgCount
    <3> QED
      BY <1>1, <2>2, <3>1, <3>2
  <2>5. o + rest = size
    OBVIOUS
  <2> HIDE DEF n, blocks, limit, want, rest
  <2> QED
    BY <1>1, <2>3, <2>4, <2>5 DEF n, blocks, limit, want, rest
<1> QED
  BY <1>2, <1>3

(* What is known of a message stays known: the product does not change. *)
LEMMA LoadedKept ==
  ASSUME NEW t, product' = product, Loaded(t, msg[t]), msg'[t] = msg[t]
  PROVE  Loaded(t, msg[t])'
  BY DEF Loaded, Handed

LEMMA SlotKept ==
  ASSUME Types, UNCHANGED <<product, slot>>
  PROVE  (slot # <<>> => Handed(Head(slot)))'
  BY DEF Types, Handed

(* Sender t moves to state x; the others stay where they are. *)
LEMMA Moves ==
  ASSUME Types, NEW t \in Senders, NEW x \in States, at' = [at EXCEPT ![t] = x]
  PROVE  /\ at' \in [Senders -> States] /\ at'[t] = x
         /\ \A u \in Senders : u # t => at'[u] = at[u]
  BY DEF Types

(* Sender t has come to its end. *)
LEMMA ReturnStep ==
  ASSUME IInv, NEW t \in Senders, NEW x, Return(t, x), x # "EINVAL",
         at[t] \in {"flow", "write"}, room' \in Nat,
         room' = room \/ at[t] = "write",
         UNCHANGED <<product, slot, msg, off, taken>>
  PROVE  IInv'
<1>1. Types /\ TurnInv /\ SendInv /\ RoomKept
  BY DEF IInv
<1>2. /\ at' = [at EXCEPT ![t] = "idle"] /\ holder' = "none"
      /\ caller' = (IF caller = t THEN "idle" ELSE caller) /\ res' = x
  BY DEF Return
<1>3. /\ at' \in [Senders -> States] /\ at'[t] = "idle"
      /\ \A u \in Senders : u # t => at'[u] = at[u]
  BY <1>1, <1>2, Moves DEF States
<1>4. \A u \in Senders : at'[u] \notin {"flow", "write"}
  BY <1>1, <1>3 DEF TurnInv
<1>5. Types'
  BY <1>1, <1>3, SlotKept DEF Types
<1>6. TurnInv'
  <2>1. ASSUME at'["direct"] # "idle"  PROVE caller' = "direct"
    <3>1. t # "direct" /\ at["direct"] # "idle"
      BY <1>3, <2>1 DEF Senders
    <3>2. caller = "direct"
      BY <1>1, <3>1 DEF TurnInv
    <3> QED
      BY <1>2, <3>1, <3>2
  <2> QED
    BY <1>4, <2>1 DEF TurnInv
<1>7. SendInv'
  <2> SUFFICES ASSUME NEW u \in Senders, u # t
               PROVE  /\ at'[u] # "idle" => Loaded(u, msg[u])'
                      /\ at'[u] \in {"ready", "again", "flow"} => taken'[u] = 0
    BY <1>3, <1>4 DEF SendInv
  <2>1. at'[u] = at[u]
    BY <1>3
  <2> QED
    BY <1>1, <2>1, LoadedKept DEF SendInv
<1>8. RoomKept'
  BY <1>4 DEF RoomKept
<1> QED
  BY <1>2, <1>5, <1>6, <1>7, <1>8 DEF IInv

LEMMA SendStep ==
  ASSUME IInv, NEW k \in Kinds, NEW n \in Pieces(k), Send(k, n)
  PROVE  IInv'
<1> DEFINE s == Serialize(Params(k, n))
           out == IF Pads(k) THEN IpcSendLen(s.len) ELSE s.len
           m == [len |-> s.len, hdr |-> s.hdr, count |-> out]
<1>1. Types /\ TurnInv /\ SendInv /\ RoomKept
  BY DEF IInv
<1>2. Used(k) /\ caller = "idle" /\ UNCHANGED <<product, holder, off, room>>
  BY DEF Send
<1>3. /\ Params(k, n) # 0 /\ ~(out > Cap(k)) /\ Handed(m)
      /\ ~ToBustx(k) => Loaded("direct", m)
  BY <1>2, Built
<1>4. /\ caller' = (IF ToBustx(k) THEN "bustx" ELSE "direct") /\ res' = "none"
      /\ IF ToBustx(k) THEN slot' = <<m>> /\ UNCHANGED <<at, msg, taken>>
         ELSE Load("direct", m) /\ UNCHANGED slot
  BY <1>3 DEF Send
<1> HIDE DEF m
<1>5. at["direct"] = "idle"
  BY <1>1, <1>2 DEF TurnInv
<1>7. CASE ToBustx(k)
  <2>1. slot' = <<m>> /\ UNCHANGED <<at, msg, taken>> /\ caller' = "bustx"
    BY <1>4, <1>7
  <2>2. Handed(Head(slot))'
    BY <1>2, <1>3, <2>1 DEF Handed
  <2>3. Types'
    BY <1>1, <1>2, <2>1, <2>2 DEF Types
  <2>4. TurnInv'
    BY <1>1, <1>2, <1>5, <2>1 DEF TurnInv
  <2>5. SendInv'
    BY <1>1, <1>2, <2>1, LoadedKept DEF SendInv
  <2>6. RoomKept'
    BY <1>1, <1>2, <2>1 DEF RoomKept
  <2> QED
    BY <1>4, <2>3, <2>4, <2>5, <2>6 DEF IInv
<1>8. CASE ~ToBustx(k)
  <2>1. /\ at' = [at EXCEPT !["direct"] = "ready"] /\ msg' = [msg EXCEPT !["direct"] = m]
        /\ taken' = [taken EXCEPT !["direct"] = 0] /\ slot' = slot /\ caller' = "direct"
    BY <1>4, <1>8 DEF Load
  <2>2. "direct" \in Senders /\ "bustx" \in Senders
    BY DEF Senders
  <2>3. /\ at' \in [Senders -> States] /\ at'["direct"] = "ready"
        /\ \A u \in Senders : u # "direct" => at'[u] = at[u]
    BY <1>1, <2>1, <2>2, Moves DEF States
  <2>4. m \in [len : Nat, hdr : Int, count : Nat]
    BY <1>3 DEF Handed
  <2>5. /\ msg'["direct"] = m /\ taken'["direct"] = 0
        /\ \A u \in Senders : u # "direct" => msg'[u] = msg[u] /\ taken'[u] = taken[u]
        /\ msg' \in [Senders -> [len : Nat, hdr : Int, count : Nat]]
        /\ taken' \in [Senders -> Nat]
    BY <1>1, <2>1, <2>2, <2>4 DEF Types
  <2>6. Types'
    BY <1>1, <1>2, <2>1, <2>3, <2>5, SlotKept DEF Types
  <2>7. TurnInv'
    BY <1>1, <1>2, <2>1, <2>3 DEF TurnInv
  <2>8. Loaded("direct", msg["direct"])'
    BY <1>2, <1>3, <1>8, <2>5 DEF Loaded, Handed
  <2>9. SendInv'
    <3>1. ASSUME NEW u \in Senders, u # "direct", at[u] # "idle"
          PROVE  Loaded(u, msg[u])'
      BY <1>1, <1>2, <2>5, <3>1, LoadedKept DEF SendInv
    <3> QED
      BY <1>1, <1>2, <2>3, <2>5, <2>8, <3>1 DEF SendInv
  <2>10. RoomKept'
    BY <1>1, <1>2, <2>3, <2>5 DEF RoomKept
  <2> QED
    BY <1>4, <2>6, <2>7, <2>9, <2>10 DEF IInv
<1> QED
  BY <1>7, <1>8

LEMMA TakeStep ==
  ASSUME IInv, Take
  PROVE  IInv'
<1> DEFINE m == [Head(slot) EXCEPT !.count = TxMsgPad(@)]
<1>1. Types /\ TurnInv /\ SendInv /\ RoomKept /\ res # "EINVAL"
  BY DEF IInv
<1>2. /\ at["bustx"] = "idle" /\ slot # <<>> /\ slot' = <<>>
      /\ at' = [at EXCEPT !["bustx"] = "ready"] /\ msg' = [msg EXCEPT !["bustx"] = m]
      /\ taken' = [taken EXCEPT !["bustx"] = 0]
      /\ UNCHANGED <<product, caller, holder, off, room, res>>
  BY DEF Take, Load
<1>3. Loaded("bustx", m)
  BY <1>1, <1>2, PaddedAgain DEF Types
<1> HIDE DEF m
<1>4. "direct" \in Senders /\ "bustx" \in Senders
  BY DEF Senders
<1>5. /\ at' \in [Senders -> States] /\ at'["bustx"] = "ready"
      /\ \A u \in Senders : u # "bustx" => at'[u] = at[u]
  BY <1>1, <1>2, <1>4, Moves DEF States
<1>6. m \in [len : Nat, hdr : Int, count : Nat]
  BY <1>3 DEF Loaded, Handed
<1>7. /\ msg'["bustx"] = m /\ taken'["bustx"] = 0
      /\ \A u \in Senders : u # "bustx" => msg'[u] = msg[u] /\ taken'[u] = taken[u]
      /\ msg' \in [Senders -> [len : Nat, hdr : Int, count : Nat]]
      /\ taken' \in [Senders -> Nat]
  BY <1>1, <1>2, <1>4, <1>6 DEF Types
<1>8. Types'
  BY <1>1, <1>2, <1>5, <1>7 DEF Types
<1>9. TurnInv'
  BY <1>1, <1>2, <1>4, <1>5 DEF TurnInv
<1>10. Loaded("bustx", msg["bustx"])'
  BY <1>2, <1>3, <1>7 DEF Loaded, Handed
<1>11. SendInv'
  <2>1. ASSUME NEW u \in Senders, u # "bustx", at[u] # "idle"
        PROVE  Loaded(u, msg[u])'
    BY <1>1, <1>2, <1>7, <2>1, LoadedKept DEF SendInv
  <2> QED
    BY <1>1, <1>2, <1>5, <1>7, <1>10, <2>1 DEF SendInv
<1>12. RoomKept'
  BY <1>1, <1>2, <1>5, <1>7 DEF RoomKept
<1> QED
  BY <1>1, <1>2, <1>8, <1>9, <1>11, <1>12 DEF IInv

LEMMA SendMsgStep ==
  ASSUME IInv, NEW t \in Senders, SendMsg(t)
  PROVE  IInv'
<1> DEFINE x == IF product = Aic8801 THEN "flow" ELSE "write"
<1>1. Types /\ TurnInv /\ SendInv /\ RoomKept /\ res # "EINVAL"
  BY DEF IInv
<1>2. /\ at[t] \in {"ready", "again"} /\ holder = "none" /\ holder' = t
      /\ at' = [at EXCEPT ![t] = x] /\ off' = 0
      /\ UNCHANGED <<product, caller, slot, msg, room, taken, res>>
  BY DEF SendMsg
<1>3. x \in States /\ x \in {"flow", "write"} /\ (product = Aic8801 => x = "flow")
  BY DEF States
<1> HIDE DEF x
<1>4. /\ at' \in [Senders -> States] /\ at'[t] = x
      /\ \A u \in Senders : u # t => at'[u] = at[u]
  BY <1>1, <1>2, <1>3, Moves
<1>5. \A u \in Senders : at[u] \notin {"flow", "write"}
  BY <1>1, <1>2 DEF TurnInv, Senders
<1>6. Types'
  BY <1>1, <1>2, <1>4, SlotKept DEF Types
<1>7. TurnInv'
  BY <1>1, <1>2, <1>4, <1>5 DEF TurnInv, Senders
<1>8. SendInv'
  <2> SUFFICES ASSUME NEW u \in Senders
               PROVE  /\ at'[u] # "idle" => Loaded(u, msg[u])'
                      /\ at'[u] \in {"ready", "again", "flow"} => taken'[u] = 0
                      /\ at'[u] = "write" => taken'[u] = off' /\ off' <= msg'[u].count
                      /\ at'[u] \in {"flow", "write"} => off' = 0
    BY DEF SendInv
  <2>1. at'[u] # "idle" => at[u] # "idle"
    BY <1>2, <1>4
  <2>2. at'[u] # "idle" => Loaded(u, msg[u])'
    BY <1>1, <1>2, <2>1, LoadedKept DEF SendInv
  <2>3. CASE u = t
    <3>1. taken[t] = 0 /\ msg[t].count \in Nat
      BY <1>1, <1>2 DEF SendInv, Types
    <3> QED
      BY <1>2, <2>2, <2>3, <3>1
  <2>4. CASE u # t
    BY <1>1, <1>2, <1>4, <1>5, <2>2, <2>4 DEF SendInv
  <2> QED
    BY <2>3, <2>4
<1>9. RoomKept'
  BY <1>2, <1>3, <1>4, <1>5 DEF RoomKept
<1> QED
  BY <1>1, <1>2, <1>6, <1>7, <1>8, <1>9 DEF IInv

(* Steps that leave the senders and their messages alone. *)
LEMMA Kept ==
  ASSUME IInv, UNCHANGED <<product, slot, msg, at, holder, off, room, taken>>,
         caller' = caller \/ at["direct"] = "idle", res' # "EINVAL"
  PROVE  IInv'
<1>1. Types /\ TurnInv /\ SendInv /\ RoomKept
  BY DEF IInv
<1>2. Types'
  BY <1>1, SlotKept DEF Types
<1>3. TurnInv'
  BY <1>1 DEF TurnInv
<1>4. SendInv'
  BY <1>1, LoadedKept DEF SendInv
<1>5. RoomKept'
  BY <1>1 DEF RoomKept
<1> QED
  BY <1>2, <1>3, <1>4, <1>5 DEF IInv

LEMMA FlowCtrlStep ==
  ASSUME IInv, NEW t \in Senders, FlowCtrl(t)
  PROVE  IInv'
<1>1. Types /\ TurnInv /\ SendInv /\ RoomKept /\ res # "EINVAL"
  BY DEF IInv
<1>2. at[t] = "flow" /\ UNCHANGED <<product, slot, msg, off, room, taken>>
  BY DEF FlowCtrl
<1>3. ASSUME msg[t].count < room * 1536  PROVE IInv'
  <2>1. at' = [at EXCEPT ![t] = "write"] /\ UNCHANGED <<holder, caller, res>>
    BY <1>3 DEF FlowCtrl
  <2>2. /\ at' \in [Senders -> States] /\ at'[t] = "write"
        /\ \A u \in Senders : u # t => at'[u] = at[u]
    BY <1>1, <2>1, Moves DEF States
  <2>3. holder = t /\ \A u \in Senders : u # t => at[u] \notin {"flow", "write"}
    BY <1>1, <1>2 DEF TurnInv
  <2>4. Types'
    BY <1>1, <1>2, <2>2, SlotKept DEF Types
  <2>5. TurnInv'
    BY <1>1, <1>2, <2>1, <2>2, <2>3 DEF TurnInv, Senders
  <2>6. RoomKept'
    <3>1. msg[t].count \in Nat /\ room \in Nat
      BY <1>1 DEF Types
    <3>2. msg[t].count <= room * 1536
      BY <1>3, <3>1
    <3> QED
      BY <1>2, <2>2, <2>3, <3>2 DEF RoomKept
  <2>7. SendInv'
    <3> SUFFICES ASSUME NEW u \in Senders
                 PROVE  /\ at'[u] # "idle" => Loaded(u, msg[u])'
                        /\ at'[u] \in {"ready", "again", "flow"} => taken'[u] = 0
                        /\ at'[u] = "write" => taken'[u] = off' /\ off' <= msg'[u].count
                        /\ at'[u] \in {"flow", "write"} => off' = 0
      BY DEF SendInv
    <3>1. at'[u] # "idle" => Loaded(u, msg[u])'
      BY <1>1, <1>2, <2>2, LoadedKept DEF SendInv
    <3>2. taken[t] = 0 /\ off = 0 /\ msg[t].count \in Nat
      BY <1>1, <1>2 DEF SendInv, Types
    <3>3. CASE u = t
      BY <1>2, <2>2, <3>1, <3>2, <3>3
    <3>4. CASE u # t
      BY <1>1, <1>2, <2>2, <2>3, <3>1, <3>4 DEF SendInv
    <3> QED
      BY <3>3, <3>4
  <2> QED
    BY <1>1, <2>1, <2>4, <2>5, <2>6, <2>7 DEF IInv
<1>4. CASE ~(msg[t].count < room * 1536) /\ round < Rounds - 1
  <2>1. UNCHANGED <<at, holder, caller, res>>
    BY <1>4 DEF FlowCtrl
  <2> QED
    BY <1>1, <1>2, <2>1, Kept
<1>5. CASE ~(msg[t].count < room * 1536) /\ ~(round < Rounds - 1)
  <2>1. Return(t, "ETIMEDOUT")
    BY <1>5 DEF FlowCtrl
  <2> QED
    BY <1>1, <1>2, <2>1, ReturnStep DEF Types
<1> QED
  BY <1>3, <1>4, <1>5

LEMMA WriteStep ==
  ASSUME IInv, NEW t \in Senders, Write(t)
  PROVE  IInv'
<1> DEFINE size == msg[t].count
           rest == size - off
           blocks == BlockMode(size) /\ rest >= 512
           limit == IF blocks THEN 511 ELSE 512
           want == IF blocks THEN rest \div 512 ELSE rest
           n == IF want < limit THEN want ELSE limit
           bytes == IF blocks THEN 512 * n ELSE n
<1>1. Types /\ TurnInv /\ SendInv /\ RoomKept /\ res # "EINVAL"
  BY DEF IInv
<1>2. /\ at[t] = "write" /\ rest > 0 /\ off' = off + bytes
      /\ taken' = [taken EXCEPT ![t] = @ + CardBytes(blocks, n)]
      /\ UNCHANGED <<product, caller, slot, at, msg, holder, room, res>>
  BY DEF Write
<1>3. size \in Nat /\ off \in Nat /\ taken[t] \in Nat /\ taken \in [Senders -> Nat]
  BY <1>1 DEF Types
<1>4. off < size
  BY <1>2, <1>3
<1>5. /\ CardBytes(blocks, n) = bytes /\ bytes \in Nat /\ off + bytes <= size
      /\ off = 0 /\ size % 512 = 0 /\ size <= 1536 => off + bytes = size
  BY <1>3, <1>4, OneCommand
<1> HIDE DEF rest, blocks, limit, want, n, bytes
<1>6. taken[t] = off /\ Loaded(t, msg[t])
  BY <1>1, <1>2 DEF SendInv
<1>7. /\ taken' \in [Senders -> Nat] /\ taken'[t] = off' /\ off' \in Nat
      /\ off' <= size /\ \A u \in Senders : u # t => taken'[u] = taken[u]
  BY <1>2, <1>3, <1>5, <1>6
<1>8. t = "bustx" => off' = size
  <2> SUFFICES ASSUME t = "bustx" PROVE off' = size
    OBVIOUS
  <2>1. off = 0
    BY <1>1, <1>2, <1>4, <1>3 DEF SendInv
  <2>2. size % 512 = 0 /\ size <= 1536
    BY <1>6 DEF Loaded, Padded
  <2> QED
    BY <1>2, <1>5, <2>1, <2>2
<1>9. Types'
  BY <1>1, <1>2, <1>7, SlotKept DEF Types
<1>10. TurnInv'
  BY <1>1, <1>2 DEF TurnInv
<1>11. \A u \in Senders : u # t => at[u] \notin {"flow", "write"}
  BY <1>1, <1>2 DEF TurnInv
<1>12. SendInv'
  <2> SUFFICES ASSUME NEW u \in Senders
               PROVE  /\ at'[u] # "idle" => Loaded(u, msg[u])'
                      /\ at'[u] \in {"ready", "again", "flow"} => taken'[u] = 0
                      /\ at'[u] = "flow" => off' = 0
                      /\ at'[u] = "write" => taken'[u] = off' /\ off' <= msg'[u].count
                      /\ at'[u] = "write" /\ u = "bustx" => off' = msg'[u].count
    BY DEF SendInv
  <2>1. at'[u] # "idle" => Loaded(u, msg[u])'
    BY <1>1, <1>2, LoadedKept DEF SendInv
  <2>2. CASE u = t
    BY <1>2, <1>7, <1>8, <2>1, <2>2
  <2>3. CASE u # t
    BY <1>1, <1>2, <1>7, <1>11, <2>1, <2>3 DEF SendInv
  <2> QED
    BY <2>2, <2>3
<1>13. RoomKept'
  BY <1>1, <1>2 DEF RoomKept
<1> QED
  BY <1>1, <1>2, <1>9, <1>10, <1>12, <1>13 DEF IInv

LEMMA AgainStep ==
  ASSUME IInv, NEW t \in Senders, Again(t)
  PROVE  IInv'
<1>1. Types /\ TurnInv /\ SendInv /\ RoomKept /\ res # "EINVAL"
  BY DEF IInv
<1>2. /\ at[t] = "write" /\ off < msg[t].count
      /\ UNCHANGED <<product, slot, msg, off, room, taken>>
  BY DEF Again
<1>3. CASE t # "bustx"
  <2>1. Return(t, "EAGAIN")
    BY <1>3 DEF Again
  <2> QED
    BY <1>1, <1>2, <2>1, ReturnStep DEF Types
<1>4. CASE t = "bustx"
  <2>1. at' = [at EXCEPT ![t] = "again"] /\ holder' = "none" /\ UNCHANGED <<caller, res>>
    BY <1>4 DEF Again
  <2>2. /\ at' \in [Senders -> States] /\ at'[t] = "again"
        /\ \A u \in Senders : u # t => at'[u] = at[u]
    BY <1>1, <2>1, Moves DEF States
  <2>3. \A u \in Senders : u # t => at[u] \notin {"flow", "write"}
    BY <1>1, <1>2 DEF TurnInv
  <2>4. taken[t] = 0
    <3>1. off \in Nat /\ msg[t].count \in Nat
      BY <1>1 DEF Types
    <3>2. off = 0
      BY <1>1, <1>2, <1>4, <3>1 DEF SendInv
    <3> QED
      BY <1>1, <1>2, <3>2 DEF SendInv
  <2>5. Types'
    BY <1>1, <1>2, <2>2, SlotKept DEF Types
  <2>6. TurnInv'
    BY <1>1, <1>4, <2>1, <2>2, <2>3 DEF TurnInv, Senders
  <2>7. SendInv'
    <3> SUFFICES ASSUME NEW u \in Senders
                 PROVE  /\ at'[u] # "idle" => Loaded(u, msg[u])'
                        /\ at'[u] \in {"ready", "again", "flow"} => taken'[u] = 0
                        /\ at'[u] \notin {"flow", "write"}
      BY DEF SendInv
    <3>1. at'[u] # "idle" => Loaded(u, msg[u])'
      BY <1>1, <1>2, <2>2, LoadedKept DEF SendInv
    <3>2. CASE u = t
      BY <1>2, <2>2, <2>4, <3>1, <3>2
    <3>3. CASE u # t
      BY <1>1, <1>2, <2>2, <2>3, <3>1, <3>3 DEF SendInv
    <3> QED
      BY <3>2, <3>3
  <2>8. RoomKept'
    BY <2>2, <2>3 DEF RoomKept
  <2> QED
    BY <1>1, <2>1, <2>5, <2>6, <2>7, <2>8 DEF IInv
<1> QED
  BY <1>3, <1>4

-----------------------------------------------------------------------------
(* The theorems *)

LEMMA InvInit == Init => IInv
<1> SUFFICES ASSUME Init PROVE IInv
  OBVIOUS
<1>1. NoMsg \in [len : Nat, hdr : Int, count : Nat]
  BY DEF NoMsg
<1>2. room \in Nat
  BY Constants DEF Init
<1>3. Types
  BY <1>1, <1>2 DEF Init, Types, States
<1>4. TurnInv /\ SendInv /\ RoomKept /\ res # "EINVAL"
  BY DEF Init, TurnInv, SendInv, RoomKept, Senders
<1> QED
  BY <1>3, <1>4 DEF IInv

LEMMA InvStep == IInv /\ [Next]_vars => IInv'
<1> SUFFICES ASSUME IInv, [Next]_vars PROVE IInv'
  OBVIOUS
<1>0. Types /\ TurnInv /\ res # "EINVAL"
  BY DEF IInv
<1>1. ASSUME NEW k \in Kinds, NEW n \in IF k = "block_write" THEN DataLens ELSE {0},
             Send(k, n)
      PROVE  IInv'
  BY <1>1, SendStep DEF Pieces
<1>2. CASE Take
  BY <1>2, TakeStep
<1>3. CASE GiveUp
  BY <1>0, <1>3, Kept DEF GiveUp, TurnInv
<1>4. ASSUME NEW t \in Senders, SendMsg(t) \/ FlowCtrl(t) \/ Write(t) \/ Again(t)
      PROVE  IInv'
  BY <1>4, SendMsgStep, FlowCtrlStep, WriteStep, AgainStep
<1>5. ASSUME NEW t \in Senders, Sent(t)  PROVE IInv'
  <2>1. /\ at[t] = "write" /\ Return(t, "OK") /\ UNCHANGED <<product, slot, msg, off, taken>>
        /\ room' = (IF room = 0 THEN 0 ELSE room - 1)
    BY <1>5 DEF Sent
  <2>2. room' \in Nat
    BY <1>0, <2>1 DEF Types
  <2> QED
    BY <2>1, <2>2, ReturnStep
<1>6. ASSUME NEW t \in Senders, Fails(t)  PROVE IInv'
  <2>1. /\ at[t] \in {"flow", "write"} /\ Return(t, "EIO")
        /\ UNCHANGED <<product, slot, msg, off, room, taken>>
    BY <1>6 DEF Fails
  <2> QED
    BY <1>0, <2>1, ReturnStep DEF Types
<1>7. CASE ChipDrains
  <2>1. room' = room + 1 /\ UNCHANGED <<product, caller, slot, at, msg, holder, off, taken, res>>
    BY <1>7 DEF ChipDrains
  <2>2. Types'
    BY <1>0, <2>1, SlotKept DEF Types
  <2>3. TurnInv' /\ SendInv'
    BY <2>1, LoadedKept DEF IInv, TurnInv, SendInv
  <2>4. RoomKept'
    <3> SUFFICES ASSUME NEW t \in Senders, at[t] = "write", product = Aic8801
                 PROVE  msg[t].count <= (room + 1) * 1536
      BY <2>1 DEF RoomKept
    <3>1. msg[t].count <= room * 1536
      BY DEF IInv, RoomKept
    <3>2. msg[t].count \in Nat /\ room \in Nat
      BY <1>0 DEF Types
    <3> QED
      BY <3>1, <3>2
  <2> QED
    BY <1>0, <2>1, <2>2, <2>3, <2>4 DEF IInv
<1>8. CASE UNCHANGED vars
  BY <1>0, <1>8, Kept DEF vars
<1> QED
  BY <1>1, <1>2, <1>3, <1>4, <1>5, <1>6, <1>7, <1>8 DEF Next

LEMMA Inductive == Spec => []IInv
  BY InvInit, InvStep, PTL DEF Spec

(* Every message that send_msg is about to report as sent was taken by the    *)
(* chip exactly once, complete and padded, for every request, every size of   *)
(* an image's last piece and every number of EAGAINs; no request is too long  *)
(* for its sender.                                                            *)
THEOREM SentOnceAndWhole == Spec => []SentWhole
<1>1. IInv => SentWhole
  <2> SUFFICES ASSUME IInv, NEW t \in Senders, at[t] = "write", off = msg[t].count
               PROVE  /\ taken[t] = msg[t].count
                      /\ t = "bustx" \/ product = Aic8801 => WellPadded(msg[t])
    BY DEF IInv, SentWhole
  <2>1. taken[t] = off /\ Loaded(t, msg[t])
    BY DEF IInv, SendInv
  <2> QED
    BY <2>1 DEF Loaded, Handed, Padded, WellPadded
<1> QED
  BY <1>1, Inductive, PTL

(* Flow control holds: a frame is written to an Aic8801 only while the chip   *)
(* has the buffers for it, also after another sender had the lock in between. *)
THEOREM WritesHaveRoom == Spec => []RoomKept
<1>1. IInv => RoomKept
  BY DEF IInv
<1> QED
  BY <1>1, Inductive, PTL
=============================================================================
