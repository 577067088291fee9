---------------------------- MODULE WiphyProofs -----------------------------
(***************************************************************************)
(* Proofs about Wiphy, for every set of operations, every table size and   *)
(* every bound.                                                            *)
(***************************************************************************)
EXTENDS Wiphy, TLAPS, WellFoundedInduction

-----------------------------------------------------------------------------
(* The table of commands, and the ids. *)

(* A nonempty set of naturals has a least element and Min picks it. *)
LEMMA MinMember ==
  ASSUME NEW S \in SUBSET Nat, S # {}
  PROVE  Min(S) \in S /\ \A y \in S : Min(S) <= y
<1> DEFINE R == {p \in Nat \X Nat : p[1] < p[2]}
<1>1. IsWellFoundedOn(R, Nat)
  BY NatLessThanWellFounded, Zenon DEF OpToRel
<1> HIDE DEF R
<1>2. PICK x \in S : \A y \in S : ~ (<<y, x>> \in R)
  BY <1>1, WFMin
<1>3. ASSUME NEW y \in S  PROVE x <= y
  <2>1. <<y, x>> \notin R
    BY <1>2
  <2> QED
    BY <2>1 DEF R
<1> QED
  BY <1>3 DEF Min

(* The bounds and the sizes of the tables. *)
LEMMA Sizes ==
  /\ MaxPending \in Nat \ {0}
  /\ MaxVif \in Nat /\ MaxKeys \in Nat /\ TableLen \in Nat /\ MaxCmds \in Nat
  /\ HwKeys \subseteq Nat /\ StaIdxs \subseteq Nat
  /\ Bcast \notin Macs /\ None \notin Macs
  BY MaxPendingAssumption, WiphyAssumption

Kind == DOMAIN CfmId
PsInd == MM_PS_CHANGE_IND

(* MM_KEY_DEL_CFM is the one id an indication has too. *)
LEMMA IdFacts ==
  ASSUME NEW k \in Kind
  PROVE  /\ CfmId[k] \in CfmIds /\ CfmId[k] \in Nat
         /\ CfmId[k] = PsInd <=> k = "del_key"
         /\ CfmId[k] # SM_CONNECT_IND
<1>1. CfmId[k] \in CfmIds
  BY WiphyAssumption DEF Kind
<1>2. Kind = {"add_if", "remove_if", "add_station", "del_station", "set_power",
              "add_key", "del_key", "get_station", "scan", "connect",
              "disconnect", "start_ap", "stop_ap"}
  BY DEF Kind, CfmId
<1>3. /\ CfmId[k] \in Nat
      /\ CfmId[k] = PsInd <=> k = "del_key"
      /\ CfmId[k] # SM_CONNECT_IND
  BY <1>2 DEF CfmId, PsInd, MM, SCANU, SM, APM, MM_KEY_ADD_REQ, MM_PS_CHANGE_IND,
     SM_CONNECT_IND
<1> QED
  BY <1>1, <1>3

(* An operation is a record of the fields of NoOp, of another kind. *)
LEMMA OpFacts ==
  ASSUME NEW o \in Ops
  PROVE  /\ o.kind \in Kind /\ o.vif \in Nat /\ o.key \in Nat /\ o.arg \in Int
         /\ o.kind # None /\ o # NoOp
<1>1. None \notin Kind
  BY DEF Kind, CfmId, None
<1>2. NoOp.kind = None
  BY DEF NoOp
<1>3. o.kind \in Kind /\ o.vif \in Nat /\ o.key \in Nat /\ o.arg \in Int
  BY WiphyAssumption DEF Kind
<1> QED
  BY <1>1, <1>2, <1>3

(* push takes the first free slot. *)
LEMMA PushSlotFree ==
  ASSUME MgrTypeOK, CanPush
  PROVE  /\ PushSlot \in Slot /\ slots[PushSlot] = Free
         /\ \A s \in Slot : s < PushSlot => slots[s] # Free
<1>1. FreeSlots \in SUBSET Nat /\ FreeSlots # {}
  BY DEF CanPush, FreeSlots, Slot
<1>2. PushSlot \in FreeSlots /\ \A y \in FreeSlots : PushSlot <= y
  BY <1>1, MinMember DEF PushSlot
<1>3. PushSlot \in Slot /\ slots[PushSlot] = Free
  BY <1>2 DEF FreeSlots
<1>4. ASSUME NEW s \in Slot, s < PushSlot, slots[s] = Free  PROVE FALSE
  BY <1>2, <1>3, <1>4 DEF FreeSlots, Slot
<1> QED
  BY <1>3, <1>4

(* on_cfm completes the first slot that waits for the id. *)
LEMMA CfmSlotFirst ==
  ASSUME NEW r, WaitingFor(r) # {}
  PROVE  /\ Min(WaitingFor(r)) \in Slot
         /\ slots[Min(WaitingFor(r))].flags = "WAIT_CFM"
         /\ slots[Min(WaitingFor(r))].reqid = r
         /\ \A s \in Slot : slots[s].flags = "WAIT_CFM" /\ slots[s].reqid = r =>
              Min(WaitingFor(r)) <= s
<1>1. WaitingFor(r) \in SUBSET Nat
  BY DEF WaitingFor, Waiting, Slot
<1>2. Min(WaitingFor(r)) \in WaitingFor(r) /\ \A y \in WaitingFor(r) : Min(WaitingFor(r)) <= y
  BY <1>1, MinMember
<1> QED
  BY <1>2 DEF WaitingFor, Waiting

-----------------------------------------------------------------------------
(* The operations of the command manager. *)

LEMMA PushEffect ==
  ASSUME MgrTypeOK, CanPush, NEW r \in CfmIds, NEW n \in Nat, PushCmd(r, n)
  PROVE  /\ MgrTypeOK' /\ up' = up /\ queue_sz' = queue_sz + 1
         /\ PushSlot \in Slot /\ slots[PushSlot] = Free
         /\ \A s \in Slot : s < PushSlot => slots[s] # Free
         /\ slots'[PushSlot] =
              [flags |-> "WAIT_CFM", reqid |-> r, serial |-> n, cfm |-> 0]
         /\ \A s \in Slot \ {PushSlot} : slots'[s] = slots[s]
<1> DEFINE p == [flags |-> "WAIT_CFM", reqid |-> r, serial |-> n, cfm |-> 0]
<1>1. /\ PushSlot \in Slot /\ slots[PushSlot] = Free
      /\ \A s \in Slot : s < PushSlot => slots[s] # Free
  BY PushSlotFree
<1>2. p \in PendingCmd
  BY DEF PendingCmd
<1>3. slots' = [slots EXCEPT ![PushSlot] = p] /\ up' = up /\ queue_sz' = queue_sz + 1
  BY DEF PushCmd
<1> HIDE DEF p
<1>4. MgrTypeOK'
  BY <1>1, <1>2, <1>3 DEF MgrTypeOK
<1>5. slots'[PushSlot] = p /\ \A s \in Slot \ {PushSlot} : slots'[s] = slots[s]
  BY <1>1, <1>3 DEF MgrTypeOK
<1> QED
  BY <1>1, <1>3, <1>4, <1>5 DEF p

LEMMA CfmEffect ==
  ASSUME MgrTypeOK, NEW r, NEW n \in Nat, OnCfm(r, n), WaitingFor(r) # {}
  PROVE  LET w == Min(WaitingFor(r))
         IN  /\ MgrTypeOK' /\ up' = up
             /\ queue_sz' = IF queue_sz > 0 THEN queue_sz - 1 ELSE 0
             /\ w \in Slot /\ slots[w] # Free
             /\ slots[w].flags = "WAIT_CFM" /\ slots[w].reqid = r
             /\ \A s \in Slot : slots[s].flags = "WAIT_CFM" /\ slots[s].reqid = r => w <= s
             /\ slots'[w] # Free
             /\ slots'[w].flags = "DONE" /\ slots'[w].reqid = r
             /\ slots'[w].serial = slots[w].serial /\ slots'[w].cfm = n
             /\ \A s \in Slot \ {w} : slots'[s] = slots[s]
<1> DEFINE w == Min(WaitingFor(r))
<1>1. /\ w \in Slot /\ slots[w].flags = "WAIT_CFM" /\ slots[w].reqid = r
      /\ \A s \in Slot : slots[s].flags = "WAIT_CFM" /\ slots[s].reqid = r => w <= s
  BY CfmSlotFirst
<1>2. slots[w] \in PendingCmd /\ slots[w] # Free
  BY <1>1 DEF MgrTypeOK, Free
<1> DEFINE p == Completed(slots[w], n)
<1>3. /\ p \in PendingCmd /\ p.flags = "DONE" /\ p.reqid = r
      /\ p.serial = slots[w].serial /\ p.cfm = n /\ p # Free
  BY <1>1, <1>2 DEF PendingCmd, Completed, Free
<1>4. /\ slots' = [slots EXCEPT ![w] = p] /\ up' = up
      /\ queue_sz' = IF queue_sz > 0 THEN queue_sz - 1 ELSE 0
  BY DEF OnCfm
<1> HIDE DEF p, w
<1>5. slots'[w] = p /\ \A s \in Slot \ {w} : slots'[s] = slots[s]
  BY <1>1, <1>4 DEF MgrTypeOK
<1>6. MgrTypeOK'
  <2>1. slots' \in [Slot -> PendingCmd \cup {Free}]
    BY <1>1, <1>3, <1>4 DEF MgrTypeOK
  <2>2. queue_sz' \in Nat
    BY <1>4 DEF MgrTypeOK
  <2> QED
    BY <1>4, <2>1, <2>2 DEF MgrTypeOK
<1> QED
  BY <1>1, <1>2, <1>3, <1>4, <1>5, <1>6 DEF w

LEMMA TakeEffect ==
  ASSUME MgrTypeOK, NEW s \in Slot, TakeSlot(s)
  PROVE  /\ MgrTypeOK' /\ up' = up /\ queue_sz' = queue_sz
         /\ slots'[s] = Free
         /\ \A t \in Slot \ {s} : slots'[t] = slots[t]
  BY DEF TakeSlot, MgrTypeOK

-----------------------------------------------------------------------------
(* The types of what is on its way, and of the histories. *)

Idx == HwKeys \cup StaIdxs \cup {0, NoIdx} \cup {o.arg : o \in Ops}
Request == [serial: Nat, op: Ops, idx: Idx]
Message == [id: Nat, serial: Nat]
CfmAnswer == [len: {0, 1}, st: {0, 1, 8, 9}, val: HwKeys \cup StaIdxs \cup {0}]
StaEntry == [mac: Macs \cup {Bcast, None}, sta_idx: StaIdxs \cup {0}, used: BOOLEAN]

ChanType ==
  /\ todo \in Seq(Request)
  /\ air \in Seq(Message)
  /\ rx = <<>> \/ (rx \in Seq(Message) /\ Len(rx) = 1)
  /\ answers \in [1 .. MaxCmds -> CfmAnswer]
  /\ cmds \in 0 .. MaxCmds
  /\ told \in [Macs -> StaIdxs \cup {NoIdx}]
  /\ holed \subseteq Macs

(* The entry a search of the table finds. *)
LEMMA EntryFound ==
  ASSUME NEW found, found \subseteq 0 .. TableLen - 1
  PROVE  /\ found = {} => FirstEntry(found) = -1
         /\ found # {} => /\ FirstEntry(found) \in found
                          /\ FirstEntry(found) \in 0 .. TableLen - 1
                          /\ \A i \in found : FirstEntry(found) <= i
<1>1. CASE found = {}
  BY <1>1 DEF FirstEntry
<1>2. CASE found # {}
  <2>1. found \in SUBSET Nat
    OBVIOUS
  <2>2. Min(found) \in found /\ \A i \in found : Min(found) <= i
    BY <1>2, <2>1, MinMember
  <2> QED
    BY <1>2, <2>2 DEF FirstEntry
<1> QED
  BY <1>1, <1>2

(* In table t entry i is one of m. *)
Has(t, m, i) == t[i].used /\ t[i].mac = m

(* What lookup_sta_idx returns. *)
LEMMA Lookup ==
  ASSUME TypeOK, NEW m
  PROVE  \/ /\ EntryOf(m) = -1 /\ LookupStaIdx(m) = NoIdx
            /\ \A i \in 0 .. TableLen - 1 : ~Has(sta_table, m, i)
         \/ /\ EntryOf(m) \in 0 .. TableLen - 1 /\ Has(sta_table, m, EntryOf(m))
            /\ LookupStaIdx(m) = sta_table[EntryOf(m)].sta_idx
            /\ \A i \in 0 .. TableLen - 1 : Has(sta_table, m, i) => EntryOf(m) <= i
<1> DEFINE found == {i \in DOMAIN sta_table : sta_table[i].used /\ sta_table[i].mac = m}
<1>1. DOMAIN sta_table = 0 .. TableLen - 1
  BY DEF TypeOK
<1>2. EntryOf(m) = FirstEntry(found)
  BY DEF EntryOf
<1>3. \A i \in 0 .. TableLen - 1 : i \in found <=> Has(sta_table, m, i)
  BY <1>1 DEF Has
<1>4. found \subseteq 0 .. TableLen - 1
  BY <1>1
<1> HIDE DEF found
<1>5. CASE found = {}
  BY <1>2, <1>3, <1>4, <1>5, EntryFound DEF LookupStaIdx
<1>6. CASE found # {}
  <2>0. /\ FirstEntry(found) \in found /\ FirstEntry(found) \in 0 .. TableLen - 1
        /\ \A i \in found : FirstEntry(found) <= i
    BY <1>4, <1>6, EntryFound
  <2>1. /\ EntryOf(m) \in found /\ EntryOf(m) \in 0 .. TableLen - 1
        /\ \A i \in found : EntryOf(m) <= i
    BY <1>2, <2>0
  <2> QED
    BY <1>3, <2>1 DEF LookupStaIdx
<1> QED
  BY <1>5, <1>6

LEMMA IndexType ==
  ASSUME TypeOK, NEW o \in Ops, ~Refused(o)
  PROVE  /\ IndexOf(o) \in Idx
         /\ o.kind = "del_key" =>
              /\ <<o.vif, o.key>> \in Keys
              /\ IndexOf(o) = key_hw[<<o.vif, o.key>>]
              /\ key_hw[<<o.vif, o.key>>] \in HwKeys
         /\ o.kind = "set_power" => o.vif \in VifRange
<1>1. CASE o.kind = "del_key"
  <2>1. <<o.vif, o.key>> \in Keys
    BY <1>1, OpFacts, Sizes DEF Refused, InRange, Keys
  <2>2. key_hw[<<o.vif, o.key>>] \in HwKeys
    BY <1>1, <2>1 DEF Refused, TypeOK
  <2> QED
    BY <1>1, <2>1, <2>2 DEF IndexOf, Idx
<1>2. CASE o.kind = "get_station"
  <2>1. \A i \in 0 .. TableLen - 1 : sta_table[i].sta_idx \in StaIdxs \cup {0}
    BY DEF TypeOK
  <2> QED
    BY <1>2, <2>1, Lookup DEF IndexOf, Idx
<1>3. CASE o.kind \notin {"del_key", "get_station"}
  BY <1>3, OpFacts, Sizes DEF IndexOf, Idx, Refused, VifRange
<1> QED
  BY <1>1, <1>2, <1>3

-----------------------------------------------------------------------------
(* The inductive invariant. *)

(* The commands of calls that gave up stay, in the first slots and in the     *)
(* order of their requests; the command of the call that waits is the last.   *)
SlotInv ==
  /\ up
  /\ \A s \in Slot : slots[s] # Free => slots[s].serial <= cmds
  /\ \A s, r \in Slot : s < r /\ slots[r] # Free =>
                          slots[s] # Free /\ slots[s].serial < slots[r].serial
  /\ op # NoOp =>
       /\ slots[token] # Free
       /\ slots[token].reqid = CfmId[op.kind] /\ slots[token].serial = cmds
       /\ \A s \in Slot : s > token => slots[s] = Free

(* Requests are executed and answered in the order they were sent. *)
TodoOrder ==
  /\ \A i \in 1 .. Len(todo) : todo[i].serial \in 1 .. cmds
  /\ \A i, j \in 1 .. Len(todo) : i < j => todo[i].serial < todo[j].serial

AirOrder ==
  /\ \A i \in 1 .. Len(air) : air[i].serial <= cmds
  /\ \A i, j \in 1 .. Len(air) :
       i < j /\ air[j].serial # 0 => air[i].serial < air[j].serial
  /\ \A i \in 1 .. Len(air), j \in 1 .. Len(todo) : air[i].serial < todo[j].serial

(* The request of the call that waits is the last. *)
LastInv ==
  op # NoOp /\ todo # <<>> =>
    todo[Len(todo)].serial = cmds /\ todo[Len(todo)].op = op

(* What a poll has taken, or on_cfm has stored, was sent before the rest. *)
RxInv ==
  rx # <<>> =>
    /\ rx[1].serial <= cmds
    /\ \A j \in 1 .. Len(air) : air[j].serial # 0 => rx[1].serial < air[j].serial
    /\ \A j \in 1 .. Len(todo) : rx[1].serial < todo[j].serial

DoneInv ==
  \A s \in Slot : slots[s].flags = "DONE" =>
    /\ slots[s].cfm <= cmds
    /\ \A j \in 1 .. Len(todo) : slots[s].cfm < todo[j].serial

WaitsFor(t, id, n, s) ==
  t[s].flags = "WAIT_CFM" /\ t[s].reqid = id /\ t[s].serial = n

(* In table t a command waits with id for the answer to request n. *)
Awaited(t, id, n) == \E s \in Slot : WaitsFor(t, id, n, s)

(* The command of a request under way still waits; only MM_KEY_DEL_CFM can be *)
(* taken by an indication.                                                    *)
Genuine(t, m) ==
  /\ m.serial = 0 => m.id \in {SM_CONNECT_IND, PsInd}
  /\ m.serial # 0 /\ m.id # PsInd => Awaited(t, m.id, m.serial)

MatchInv ==
  /\ \A i \in 1 .. Len(todo) : todo[i].op.kind # "del_key" =>
       Awaited(slots, CfmId[todo[i].op.kind], todo[i].serial)
  /\ \A i \in 1 .. Len(air) : Genuine(slots, air[i])
  /\ rx # <<>> => Genuine(slots, rx[1])
  /\ op # NoOp /\ op.kind # "del_key" /\ slots[token].flags = "DONE" =>
       slots[token].cfm = cmds

-----------------------------------------------------------------------------
(* SlotInv *)

LEMMA RxType ==
  ASSUME ChanType, rx # <<>>
  PROVE  rx[1] \in Message /\ rx[1].serial \in Nat /\ rx[1].id \in Nat
<1>1. rx \in Seq(Message) /\ Len(rx) = 1
  BY DEF ChanType
<1>2. rx[1] \in Message
  BY <1>1
<1> QED
  BY <1>2 DEF Message

(* What the two ways to send have in common. *)
LEMMA BeginEffect ==
  ASSUME TypeOK, ChanType, NEW o \in Ops, Begin(o)
  PROVE  /\ op = NoOp /\ cmds < MaxCmds /\ cmds' = cmds + 1
         /\ MgrTypeOK' /\ up' = up /\ queue_sz' <= MaxPending
         /\ PushSlot \in Slot /\ slots[PushSlot] = Free
         /\ \A s \in Slot : s < PushSlot => slots[s] # Free
         /\ slots'[PushSlot] = [flags |-> "WAIT_CFM", reqid |-> CfmId[o.kind],
                                serial |-> cmds + 1, cfm |-> 0]
         /\ \A s \in Slot \ {PushSlot} : slots'[s] = slots[s]
         /\ ~Refused(o)
<1>1. /\ op = NoOp /\ cmds < MaxCmds /\ cmds' = cmds + 1 /\ CanPush
      /\ PushCmd(CfmId[o.kind], cmds + 1) /\ ~Refused(o)
  BY DEF Begin
<1>2. CfmId[o.kind] \in CfmIds /\ cmds + 1 \in Nat /\ MgrTypeOK
  <2>1. o.kind \in Kind
    BY OpFacts
  <2>2. CfmId[o.kind] \in CfmIds
    BY <2>1, IdFacts
  <2> QED
    BY <2>2 DEF ChanType, TypeOK
<1>3. queue_sz' = queue_sz + 1 /\ queue_sz < MaxPending /\ queue_sz \in Nat
  BY <1>1 DEF PushCmd, CanPush, TypeOK, MgrTypeOK
<1>4. queue_sz' <= MaxPending
  BY <1>3, Sizes
<1> QED
  BY <1>1, <1>2, <1>4, PushEffect

(* SlotInv after a push. *)
LEMMA SlotPush ==
  ASSUME TypeOK, ChanType, SlotInv, NEW o \in Ops, Begin(o),
         op' = NoOp \/ (op' = o /\ token' = PushSlot)
  PROVE  SlotInv'
<1> DEFINE p == PushSlot
<1>1. /\ cmds' = cmds + 1 /\ up' = up
      /\ p \in Slot /\ slots[p] = Free
      /\ \A s \in Slot : s < p => slots[s] # Free
      /\ slots'[p] = [flags |-> "WAIT_CFM", reqid |-> CfmId[o.kind],
                      serial |-> cmds + 1, cfm |-> 0]
      /\ \A s \in Slot \ {p} : slots'[s] = slots[s]
  BY BeginEffect
<1> HIDE DEF p
<1>2. \A s \in Slot : s > p => slots[s] = Free
  BY <1>1 DEF SlotInv
<1>3. slots'[p] # Free /\ slots'[p].serial = cmds + 1 /\ slots'[p].reqid = CfmId[o.kind]
  BY <1>1 DEF Free
<1>4. cmds \in Nat /\ \A s \in Slot : slots[s] # Free => slots[s].serial \in Nat
  BY DEF TypeOK, MgrTypeOK, PendingCmd, ChanType
<1>5. \A s \in Slot : slots'[s] # Free => slots'[s].serial <= cmds'
  BY <1>1, <1>3, <1>4 DEF SlotInv
<1>6. ASSUME NEW s \in Slot, NEW r \in Slot, s < r, slots'[r] # Free
      PROVE  slots'[s] # Free /\ slots'[s].serial < slots'[r].serial
  <2>1. CASE r = p
    BY <1>1, <1>3, <1>4, <1>6, <2>1 DEF SlotInv, Slot
  <2>2. CASE r # p /\ s = p
    BY <1>1, <1>2, <1>6, <2>2 DEF Slot
  <2>3. CASE r # p /\ s # p
    BY <1>1, <1>6, <2>3 DEF SlotInv
  <2> QED
    BY <2>1, <2>2, <2>3
<1>7. op' # NoOp =>
        /\ slots'[token'] # Free
        /\ slots'[token'].reqid = CfmId[op'.kind] /\ slots'[token'].serial = cmds'
        /\ \A s \in Slot : s > token' => slots'[s] = Free
  BY <1>1, <1>2, <1>3 DEF p, Slot
<1> QED
  BY <1>1, <1>5, <1>6, <1>7 DEF SlotInv

(* SlotInv after on_cfm. *)
LEMMA SlotCfm ==
  ASSUME TypeOK, ChanType, SlotInv, NEW r, NEW n \in Nat, OnCfm(r, n),
         UNCHANGED <<op, token, cmds>>
  PROVE  SlotInv'
<1>1. CASE WaitingFor(r) = {}
  BY <1>1 DEF OnCfm, SlotInv
<1>2. CASE WaitingFor(r) # {}
  <2> DEFINE w == Min(WaitingFor(r))
  <2>1. /\ w \in Slot /\ slots[w] # Free /\ up' = up
        /\ slots[w].reqid = r /\ slots'[w] # Free /\ slots'[w].reqid = r
        /\ slots'[w].serial = slots[w].serial
        /\ \A s \in Slot \ {w} : slots'[s] = slots[s]
    BY <1>2, CfmEffect DEF TypeOK
  <2> HIDE DEF w
  <2>2. \A s \in Slot : /\ slots'[s] = Free <=> slots[s] = Free
                        /\ slots'[s].serial = slots[s].serial
                        /\ slots'[s].reqid = slots[s].reqid
    BY <2>1
  <2>3. token \in Slot
    BY DEF TypeOK
  <2> QED
    BY <2>1, <2>2, <2>3 DEF SlotInv
<1> QED
  BY <1>1, <1>2

LEMMA SlotStep ==
  ASSUME TypeOK, ChanType, SlotInv, [Next]_vars
  PROVE  SlotInv'
<1>1. ASSUME NEW o \in Ops, Send(o)  PROVE SlotInv'
  BY <1>1, SlotPush DEF Send
<1>2. ASSUME NEW o \in Ops, SendFails(o)  PROVE SlotInv'
  <2>1. Begin(o) /\ UNCHANGED <<op, token>>
    BY <1>2 DEF SendFails, opVars
  <2>2. op = NoOp
    BY <2>1 DEF Begin
  <2> QED
    BY <2>1, <2>2, SlotPush
<1>3. CASE TimeOut
  BY <1>3 DEF TimeOut, SlotInv, mgr, countVars
<1>4. CASE Finish
  <2>1. /\ TakeSlot(token) /\ op # NoOp /\ op' = NoOp /\ cmds' = cmds
    BY <1>4 DEF Finish, countVars
  <2>2. token \in Slot /\ MgrTypeOK
    BY DEF TypeOK
  <2>3. /\ up' = up /\ slots'[token] = Free
        /\ \A s \in Slot \ {token} : slots'[s] = slots[s]
    BY <2>1, <2>2, TakeEffect
  <2> QED
    BY <2>1, <2>2, <2>3 DEF SlotInv, Slot
<1>5. CASE Dispatch
  <2>1. OnCfm(rx[1].id, rx[1].serial) /\ UNCHANGED <<op, token, cmds>> /\ rx # <<>>
    BY <1>5 DEF Dispatch, opVars, countVars
  <2>2. rx[1].serial \in Nat
    BY <2>1, RxType
  <2> QED
    BY <2>1, <2>2, SlotCfm
<1>6. ASSUME UNCHANGED <<up, slots, op, token, cmds>>  PROVE SlotInv'
  BY <1>6 DEF SlotInv
<1>7. ASSUME NEW o \in Ops, PushFails(o)  PROVE SlotInv'
  BY <1>6, <1>7 DEF PushFails, mgr, opVars, countVars
<1>8. ASSUME NEW m \in Macs, Unregister(m) \/ \E i \in StaIdxs : Register(m, i)
      PROVE  SlotInv'
  BY <1>6, <1>8 DEF Unregister, Register, mgr, opVars
<1>9. CASE Execute \/ Lose \/ Indicate \/ Poll \/ UNCHANGED vars
  BY <1>6, <1>9 DEF Execute, Lose, Indicate, Poll, vars, mgr, opVars, countVars
<1> QED
  BY <1>1, <1>2, <1>3, <1>4, <1>5, <1>7, <1>8, <1>9 DEF Next

-----------------------------------------------------------------------------
(* The order of requests and messages *)

LEMMA AppendFacts ==
  ASSUME NEW S, NEW s \in Seq(S), NEW e \in S
  PROVE  /\ Append(s, e) \in Seq(S) /\ Len(s) \in Nat
         /\ Len(Append(s, e)) = Len(s) + 1 /\ Append(s, e) # <<>>
         /\ \A i \in 1 .. Len(s) : Append(s, e)[i] = s[i]
         /\ Append(s, e)[Len(s) + 1] = e
  OBVIOUS

LEMMA TailFacts ==
  ASSUME NEW S, NEW s \in Seq(S), s # <<>>
  PROVE  /\ Tail(s) \in Seq(S) /\ Len(s) \in Nat /\ Len(s) >= 1
         /\ Len(Tail(s)) = Len(s) - 1
         /\ \A i \in 1 .. Len(s) - 1 : Tail(s)[i] = s[i + 1]
         /\ Head(s) = s[1] /\ s[1] \in S
  OBVIOUS

(* The new request of an operation. *)
NewRequest(o) == [serial |-> cmds + 1, op |-> o, idx |-> IndexOf(o)]

LEMMA RequestType ==
  ASSUME TypeOK, ChanType, NEW o \in Ops, ~Refused(o)
  PROVE  NewRequest(o) \in Request
<1>1. IndexOf(o) \in Idx
  BY IndexType
<1>2. cmds + 1 \in Nat
  BY DEF ChanType
<1> QED
  BY <1>1, <1>2 DEF NewRequest, Request

(* The two ways to send leave one request more, or not. *)
LEMMA SendEffect ==
  ASSUME TypeOK, ChanType, NEW o \in Ops, Send(o) \/ SendFails(o)
  PROVE  /\ Begin(o) /\ cmds' = cmds + 1 /\ op = NoOp /\ rx = <<>>
         /\ \/ todo' = Append(todo, NewRequest(o))
            \/ todo' = todo /\ op' = NoOp
         /\ op' = NoOp \/ (op' = o /\ token' = PushSlot)
         /\ UNCHANGED <<air, rx, answers, fw_keys, key_hw, sta_table, channel,
                        tx_power, told, holed>>
         /\ NewRequest(o) \in Request
<1>1. Begin(o)
  BY DEF Send, SendFails
<1>2. cmds' = cmds + 1 /\ op = NoOp /\ ~Refused(o) /\ rx = <<>>
  BY <1>1 DEF Begin, CmdFree
<1>3. /\ \/ todo' = Append(todo, NewRequest(o))
         \/ todo' = todo /\ op' = NoOp
      /\ op' = NoOp \/ (op' = o /\ token' = PushSlot)
  BY <1>2 DEF Send, SendFails, NewRequest, opVars
<1>4. UNCHANGED <<air, rx, answers, fw_keys, key_hw, sta_table, channel,
                  tx_power, told, holed>>
  BY DEF Send, SendFails, stateVars
<1> QED
  BY <1>1, <1>2, <1>3, <1>4, RequestType

OrderInv == TodoOrder /\ AirOrder /\ LastInv /\ RxInv /\ DoneInv

LEMMA SeqTypes ==
  ASSUME ChanType
  PROVE  /\ cmds \in Nat /\ todo \in Seq(Request) /\ air \in Seq(Message)
         /\ Len(todo) \in Nat /\ Len(air) \in Nat
         /\ \A i \in 1 .. Len(air) : air[i].serial \in Nat
         /\ \A i \in 1 .. Len(todo) : todo[i].serial \in Nat /\ todo[i].op \in Ops
<1>1. cmds \in Nat /\ todo \in Seq(Request) /\ air \in Seq(Message)
  BY DEF ChanType
<1>2. \A i \in 1 .. Len(air) : air[i] \in Message
  BY <1>1
<1>3. \A i \in 1 .. Len(todo) : todo[i] \in Request
  BY <1>1
<1>4. Len(todo) \in Nat /\ Len(air) \in Nat
  BY <1>1
<1> QED
  BY <1>1, <1>2, <1>3, <1>4 DEF Message, Request

(* A request more, or a serial number that is not used. *)
LEMMA OrderSend ==
  ASSUME TypeOK, ChanType, OrderInv, NEW o \in Ops, Send(o) \/ SendFails(o)
  PROVE  OrderInv'
<1> DEFINE q == NewRequest(o)
<1>1. /\ Begin(o) /\ cmds' = cmds + 1 /\ op = NoOp /\ UNCHANGED <<air, rx>> /\ rx = <<>>
      /\ todo' = Append(todo, q) \/ (todo' = todo /\ op' = NoOp)
      /\ op' = NoOp \/ op' = o
      /\ q \in Request
  BY SendEffect
<1>2. q.serial = cmds + 1 /\ q.op = o
  BY DEF NewRequest
<1> HIDE DEF q
<1>3. /\ cmds \in Nat /\ Len(todo) \in Nat
      /\ \A i \in 1 .. Len(air) : air[i].serial \in Nat
      /\ \A i \in 1 .. Len(todo) : todo[i].serial \in Nat
  BY SeqTypes
<1>4. /\ \A s \in Slot : slots'[s].flags = "DONE" => slots'[s] = slots[s]
      /\ \A s \in Slot : slots[s].flags = "DONE" => slots[s].cfm \in Nat
  <2>0. PushSlot \in Slot /\ slots'[PushSlot] =
          [flags |-> "WAIT_CFM", reqid |-> CfmId[o.kind], serial |-> cmds + 1, cfm |-> 0]
    BY <1>1, BeginEffect
  <2>1. PushSlot \in Slot /\ slots'[PushSlot].flags = "WAIT_CFM"
    BY <2>0
  <2>2. \A s \in Slot \ {PushSlot} : slots'[s] = slots[s]
    BY <1>1, BeginEffect
  <2>3. \A s \in Slot : slots[s].flags = "DONE" => slots[s] \in PendingCmd
    BY DEF TypeOK, MgrTypeOK, Free
  <2> QED
    BY <2>1, <2>2, <2>3 DEF PendingCmd
<1>5. RxInv'
  BY <1>1 DEF RxInv
<1>6. CASE todo' = todo /\ op' = NoOp
  <2>1. TodoOrder'
    BY <1>1, <1>3, <1>6 DEF OrderInv, TodoOrder
  <2>2. AirOrder'
    BY <1>1, <1>3, <1>6 DEF OrderInv, AirOrder
  <2>3. DoneInv'
    BY <1>1, <1>3, <1>4, <1>6 DEF OrderInv, DoneInv
  <2>4. LastInv'
    BY <1>6 DEF LastInv
  <2> QED
    BY <1>5, <2>1, <2>2, <2>3, <2>4 DEF OrderInv
<1>7. CASE todo' = Append(todo, q)
  <2>1. /\ Len(todo') = Len(todo) + 1
        /\ \A i \in 1 .. Len(todo) : todo'[i] = todo[i]
        /\ todo'[Len(todo')].serial = cmds + 1 /\ todo'[Len(todo')].op = o
    BY <1>1, <1>2, <1>7, SeqTypes, AppendFacts
  <2>2. \A i \in 1 .. Len(todo') : i \in 1 .. Len(todo) \/ i = Len(todo')
    BY <1>3, <2>1
  <2>3. TodoOrder'
    <3>1. \A i \in 1 .. Len(todo') : todo'[i].serial \in 1 .. cmds'
      BY <1>1, <1>3, <2>1, <2>2 DEF OrderInv, TodoOrder
    <3>2. ASSUME NEW i \in 1 .. Len(todo'), NEW j \in 1 .. Len(todo'), i < j
          PROVE  todo'[i].serial < todo'[j].serial
      BY <1>3, <2>1, <2>2, <3>2 DEF OrderInv, TodoOrder
    <3> QED
      BY <3>1, <3>2 DEF TodoOrder
  <2>4. AirOrder'
    <3>1. \A i \in 1 .. Len(air') : air'[i].serial <= cmds
      BY <1>1 DEF OrderInv, AirOrder
    <3>2. ASSUME NEW i \in 1 .. Len(air'), NEW j \in 1 .. Len(todo')
          PROVE  air'[i].serial < todo'[j].serial
      <4>0. air'[i] = air[i] /\ i \in 1 .. Len(air) /\ air[i].serial \in Nat
        BY <1>1, <1>3
      <4>1. CASE j = Len(todo')
        BY <1>1, <1>3, <2>1, <3>1, <4>0, <4>1
      <4>2. CASE j \in 1 .. Len(todo)
        BY <2>1, <4>0, <4>2 DEF OrderInv, AirOrder
      <4> QED
        BY <2>2, <4>1, <4>2
    <3>3. /\ \A i \in 1 .. Len(air') : air'[i].serial <= cmds'
          /\ \A i, j \in 1 .. Len(air') :
               i < j /\ air'[j].serial # 0 => air'[i].serial < air'[j].serial
      <4>1. ASSUME NEW i \in 1 .. Len(air')  PROVE air'[i].serial <= cmds'
        BY <1>1, <1>3, <3>1
      <4> QED
        BY <1>1, <4>1 DEF OrderInv, AirOrder
    <3> QED
      BY <3>2, <3>3 DEF AirOrder
  <2>5. DoneInv'
    BY <1>1, <1>3, <1>4, <2>1, <2>2 DEF OrderInv, DoneInv
  <2>6. LastInv'
    BY <1>1, <2>1 DEF LastInv
  <2> QED
    BY <1>5, <2>3, <2>4, <2>5, <2>6 DEF OrderInv
<1> QED
  BY <1>1, <1>6, <1>7

(* The firmware executes the oldest request. *)
LEMMA ExecuteEffect ==
  ASSUME ChanType, Execute
  PROVE  /\ todo # <<>> /\ todo' = Tail(todo)
         /\ Len(todo) >= 1 /\ Len(todo') = Len(todo) - 1
         /\ \A i \in 1 .. Len(todo') : todo'[i] = todo[i + 1]
         /\ todo[1] \in Request
         /\ Len(air') = Len(air) + 1
         /\ \A i \in 1 .. Len(air) : air'[i] = air[i]
         /\ air'[Len(air')].serial = todo[1].serial
         /\ air'[Len(air')].id = CfmId[todo[1].op.kind]
         /\ todo' \in Seq(Request) /\ air' \in Seq(Message)
         /\ UNCHANGED <<up, slots, queue_sz, op, token, rx, cmds, key_hw, sta_table,
                        channel, tx_power, undeleted, told, holed, last>>
<1>1. /\ todo # <<>> /\ todo' = Tail(todo)
      /\ UNCHANGED <<up, slots, queue_sz, op, token, rx, cmds, key_hw, sta_table,
                     channel, tx_power, undeleted, told, holed, last>>
  BY DEF Execute, mgr, opVars, stateVars, countVars, histVars
<1>2. /\ Len(todo) >= 1 /\ Len(todo') = Len(todo) - 1 /\ Len(todo) \in Nat
      /\ \A i \in 1 .. Len(todo) - 1 : todo'[i] = todo[i + 1]
      /\ Head(todo) = todo[1] /\ todo[1] \in Request /\ todo' \in Seq(Request)
  BY <1>1, SeqTypes, TailFacts
<1> DEFINE m == [id |-> CfmId[todo[1].op.kind], serial |-> todo[1].serial]
<1>3. air' = Append(air, m)
  BY <1>2 DEF Execute, AddKey, DelKey, OtherRequest, Confirm
<1>4. m \in Message
  <2>1. todo[1].op \in Ops /\ todo[1].serial \in Nat
    BY <1>2 DEF Request
  <2>2. CfmId[todo[1].op.kind] \in Nat
    BY <2>1, OpFacts, IdFacts
  <2> QED
    BY <2>1, <2>2 DEF Message
<1>5. m.id = CfmId[todo[1].op.kind] /\ m.serial = todo[1].serial
  OBVIOUS
<1> HIDE DEF m
<1>6. /\ Len(air') = Len(air) + 1
      /\ \A i \in 1 .. Len(air) : air'[i] = air[i]
      /\ air'[Len(air')] = m /\ air' \in Seq(Message)
  BY <1>3, <1>4, SeqTypes, AppendFacts
<1> QED
  BY <1>1, <1>2, <1>5, <1>6

LEMMA OrderExecute ==
  ASSUME TypeOK, ChanType, OrderInv, Execute
  PROVE  OrderInv'
<1>1. /\ Len(todo) >= 1 /\ Len(todo') = Len(todo) - 1
      /\ \A i \in 1 .. Len(todo') : todo'[i] = todo[i + 1]
      /\ Len(air') = Len(air) + 1
      /\ \A i \in 1 .. Len(air) : air'[i] = air[i]
      /\ air'[Len(air')].serial = todo[1].serial
      /\ UNCHANGED <<slots, op, rx, cmds>>
  BY ExecuteEffect
<1>2. /\ cmds \in Nat /\ Len(todo) \in Nat /\ Len(air) \in Nat
      /\ \A i \in 1 .. Len(air) : air[i].serial \in Nat
      /\ \A i \in 1 .. Len(todo) : todo[i].serial \in Nat
  BY SeqTypes
<1>a. \A i \in 1 .. Len(todo') : i + 1 \in 1 .. Len(todo)
  BY <1>1, <1>2
<1>3. TodoOrder'
  <2>1. \A i \in 1 .. Len(todo') : todo'[i].serial \in 1 .. cmds'
    BY <1>1, <1>a DEF OrderInv, TodoOrder
  <2>2. ASSUME NEW i \in 1 .. Len(todo'), NEW j \in 1 .. Len(todo'), i < j
        PROVE  todo'[i].serial < todo'[j].serial
    <3>1. i + 1 \in 1 .. Len(todo) /\ j + 1 \in 1 .. Len(todo) /\ i + 1 < j + 1
      BY <1>a, <2>2
    <3>2. todo[i + 1].serial < todo[j + 1].serial
      BY <3>1 DEF OrderInv, TodoOrder
    <3> QED
      BY <1>1, <3>2
  <2> QED
    BY <2>1, <2>2 DEF TodoOrder
<1>4. AirOrder'
  <2>0. \A i \in 1 .. Len(air') : i \in 1 .. Len(air) \/ i = Len(air')
    BY <1>1, <1>2
  <2>1. \A i \in 1 .. Len(air') : air'[i].serial <= cmds'
    BY <1>1, <1>2, <2>0 DEF OrderInv, AirOrder, TodoOrder
  <2>2. ASSUME NEW i \in 1 .. Len(air'), NEW j \in 1 .. Len(air'), i < j,
               air'[j].serial # 0
        PROVE  air'[i].serial < air'[j].serial
    BY <1>1, <1>2, <2>0, <2>2, SMTT(30) DEF OrderInv, AirOrder
  <2>3. ASSUME NEW i \in 1 .. Len(air'), NEW j \in 1 .. Len(todo')
        PROVE  air'[i].serial < todo'[j].serial
    <3>1. todo'[j] = todo[j + 1] /\ j + 1 \in 1 .. Len(todo) /\ 1 \in 1 .. Len(todo)
      BY <1>1, <1>2
    <3>2. CASE i = Len(air')
      BY <1>1, <1>2, <3>1, <3>2 DEF OrderInv, TodoOrder
    <3>3. CASE i \in 1 .. Len(air)
      BY <1>1, <3>1, <3>3 DEF OrderInv, AirOrder
    <3> QED
      BY <2>0, <3>2, <3>3
  <2> QED
    BY <2>1, <2>2, <2>3 DEF AirOrder
<1>5. LastInv'
  <2> SUFFICES ASSUME op' # NoOp, todo' # <<>>
               PROVE  todo'[Len(todo')].serial = cmds' /\ todo'[Len(todo')].op = op'
    BY DEF LastInv
  <2>1. todo' \in Seq(Request) /\ todo # <<>>
    BY ExecuteEffect
  <2>2. Len(todo') >= 1
    BY <2>1
  <2>3. todo'[Len(todo')] = todo[Len(todo)]
    BY <1>1, <1>2, <2>2
  <2> QED
    BY <1>1, <2>1, <2>3 DEF OrderInv, LastInv
<1>6. RxInv'
  <2> SUFFICES ASSUME rx # <<>>  PROVE RxInv'
    BY <1>1 DEF RxInv
  <2>0. \A i \in 1 .. Len(air') : i \in 1 .. Len(air) \/ i = Len(air')
    BY <1>1, <1>2
  <2>1. \A j \in 1 .. Len(air') : air'[j].serial # 0 => rx[1].serial < air'[j].serial
    <3>1. 1 \in 1 .. Len(todo)
      BY <1>1, <1>2
    <3> QED
      BY <1>1, <2>0, <3>1 DEF OrderInv, RxInv
  <2>2. \A j \in 1 .. Len(todo') : rx[1].serial < todo'[j].serial
    BY <1>1, <1>2 DEF OrderInv, RxInv
  <2> QED
    BY <1>1, <2>1, <2>2 DEF OrderInv, RxInv
<1>7. DoneInv'
  BY <1>1, <1>a DEF OrderInv, DoneInv
<1> QED
  BY <1>3, <1>4, <1>5, <1>6, <1>7 DEF OrderInv

(* What takes a message off the air leaves the others as they are. *)
LEMMA TakeAir ==
  ASSUME ChanType, Lose \/ Poll
  PROVE  /\ air # <<>> /\ Len(air) >= 1 /\ Len(air') = Len(air) - 1
         /\ \A i \in 1 .. Len(air') : i + 1 \in 1 .. Len(air) /\ air'[i] = air[i + 1]
         /\ air' \in Seq(Message) /\ air[1] \in Message /\ Head(air) = air[1]
         /\ UNCHANGED <<up, slots, queue_sz, op, token, todo, answers, fw_keys, cmds,
                        key_hw, sta_table, channel, tx_power, undeleted, told, holed, last>>
<1>1. /\ air # <<>> /\ air' = Tail(air)
      /\ UNCHANGED <<up, slots, queue_sz, op, token, todo, answers, fw_keys, cmds,
                     key_hw, sta_table, channel, tx_power, undeleted, told, holed, last>>
  BY DEF Lose, Poll, mgr, opVars, stateVars, countVars, histVars
<1>2. /\ Len(air) \in Nat /\ Len(air) >= 1 /\ Len(air') = Len(air) - 1
      /\ \A i \in 1 .. Len(air) - 1 : air'[i] = air[i + 1]
      /\ Head(air) = air[1] /\ air[1] \in Message /\ air' \in Seq(Message)
  BY <1>1, SeqTypes, TailFacts
<1> QED
  BY <1>1, <1>2

(* An indication is put behind the others. *)
LEMMA IndicateEffect ==
  ASSUME ChanType, Indicate
  PROVE  /\ Len(air') = Len(air) + 1
         /\ \A i \in 1 .. Len(air) : air'[i] = air[i]
         /\ \A i \in 1 .. Len(air') : i \in 1 .. Len(air) \/ i = Len(air')
         /\ air'[Len(air')].serial = 0
         /\ air'[Len(air')].id \in {SM_CONNECT_IND, PsInd}
         /\ air' \in Seq(Message)
         /\ UNCHANGED <<up, slots, queue_sz, op, token, todo, answers, fw_keys, cmds, rx,
                        key_hw, sta_table, channel, tx_power, undeleted, told, holed, last>>
<1>1. UNCHANGED <<up, slots, queue_sz, op, token, todo, answers, fw_keys, cmds, rx,
                  key_hw, sta_table, channel, tx_power, undeleted, told, holed, last>>
  BY DEF Indicate, mgr, opVars, stateVars, countVars, histVars
<1>2. PICK id \in {SM_CONNECT_IND, MM_PS_CHANGE_IND} :
        air' = Append(air, [id |-> id, serial |-> 0])
  BY DEF Indicate
<1> DEFINE m == [id |-> id, serial |-> 0]
<1>3. m \in Message /\ m.serial = 0 /\ m.id \in {SM_CONNECT_IND, PsInd}
  BY DEF Message, SM_CONNECT_IND, MM_PS_CHANGE_IND, PsInd, SM, MM, MM_KEY_ADD_REQ
<1>4. air' = Append(air, m)
  BY <1>2
<1> HIDE DEF m
<1>5. /\ Len(air') = Len(air) + 1 /\ Len(air) \in Nat
      /\ \A i \in 1 .. Len(air) : air'[i] = air[i]
      /\ air'[Len(air')] = m /\ air' \in Seq(Message)
  BY <1>3, <1>4, SeqTypes, AppendFacts
<1> QED
  BY <1>1, <1>3, <1>5

(* on_cfm leaves the table alone, or completes a slot with the message. *)
LEMMA DispatchEffect ==
  ASSUME TypeOK, ChanType, Dispatch
  PROVE  /\ rx # <<>> /\ rx' = <<>> /\ rx[1].serial \in Nat
         /\ UNCHANGED <<op, token, todo, air, answers, fw_keys, cmds, key_hw, sta_table,
                        channel, tx_power, undeleted, told, holed, last>>
         /\ MgrTypeOK' /\ queue_sz' <= MaxPending
         /\ \/ UNCHANGED slots
            \/ \E w \in Slot :
                 /\ slots[w] # Free /\ slots[w].flags = "WAIT_CFM"
                 /\ slots[w].reqid = rx[1].id
                 /\ \A s \in Slot : slots[s].flags = "WAIT_CFM"
                                      /\ slots[s].reqid = rx[1].id => w <= s
                 /\ slots'[w].flags = "DONE" /\ slots'[w].cfm = rx[1].serial
                 /\ \A s \in Slot \ {w} : slots'[s] = slots[s]
<1>1. /\ rx # <<>> /\ rx' = <<>> /\ OnCfm(rx[1].id, rx[1].serial)
      /\ UNCHANGED <<op, token, todo, air, answers, fw_keys, cmds, key_hw, sta_table,
                     channel, tx_power, undeleted, told, holed, last>>
  BY DEF Dispatch, opVars, chipVars, stateVars, countVars, histVars
<1>2. rx[1].serial \in Nat
  BY <1>1, RxType
<1>3. MgrTypeOK /\ queue_sz <= MaxPending /\ queue_sz \in Nat
  BY DEF TypeOK, MgrTypeOK
<1>4. CASE WaitingFor(rx[1].id) = {}
  <2>1. UNCHANGED <<up, slots, queue_sz>>
    BY <1>1, <1>4 DEF OnCfm
  <2>2. MgrTypeOK' /\ queue_sz' <= MaxPending
    BY <1>3, <2>1 DEF MgrTypeOK
  <2> QED
    BY <1>1, <1>2, <2>1, <2>2
<1>5. CASE WaitingFor(rx[1].id) # {}
  <2> DEFINE w == Min(WaitingFor(rx[1].id))
  <2>1. /\ w \in Slot /\ slots[w] # Free /\ slots[w].flags = "WAIT_CFM"
        /\ slots[w].reqid = rx[1].id
        /\ \A s \in Slot : slots[s].flags = "WAIT_CFM"
                             /\ slots[s].reqid = rx[1].id => w <= s
        /\ slots'[w].flags = "DONE" /\ slots'[w].cfm = rx[1].serial
        /\ \A s \in Slot \ {w} : slots'[s] = slots[s]
        /\ MgrTypeOK' /\ queue_sz' = IF queue_sz > 0 THEN queue_sz - 1 ELSE 0
    BY <1>1, <1>2, <1>3, <1>5, CfmEffect
  <2> HIDE DEF w
  <2>2. queue_sz' <= MaxPending
    BY <1>3, <2>1, Sizes
  <2> QED
    BY <1>1, <1>2, <2>1, <2>2
<1> QED
  BY <1>4, <1>5

(* What ends a call. *)
LEMMA FinishEffect ==
  ASSUME TypeOK, SlotInv, Finish
  PROVE  /\ op # NoOp /\ op' = NoOp /\ rx = <<>> /\ token \in Slot
         /\ slots[token].flags = "DONE" /\ slots[token] \in PendingCmd
         /\ slots'[token] = Free
         /\ \A s \in Slot \ {token} : slots'[s] = slots[s]
         /\ MgrTypeOK' /\ queue_sz' = queue_sz /\ token' = 0
         /\ UNCHANGED <<todo, air, fw_keys, rx, cmds, undeleted, told>>
<1>1. /\ op # NoOp /\ op' = NoOp /\ rx = <<>> /\ token \in Slot /\ TakeSlot(token)
      /\ IsDone(token) /\ MgrTypeOK /\ token' = 0
      /\ UNCHANGED <<todo, air, fw_keys, rx, cmds, undeleted, told>>
  BY DEF Finish, TypeOK, CmdFree, countVars
<1>2. slots[token] # Free /\ slots[token] \in PendingCmd
  BY <1>1 DEF SlotInv, MgrTypeOK
<1>3. slots[token].flags = "DONE"
  BY <1>1, <1>2 DEF IsDone
<1> QED
  BY <1>1, <1>2, <1>3, TakeEffect

LEMMA OrderStep ==
  ASSUME TypeOK, ChanType, SlotInv, OrderInv, [Next]_vars
  PROVE  OrderInv'
<1>0. /\ cmds \in Nat /\ Len(todo) \in Nat /\ Len(air) \in Nat
      /\ \A i \in 1 .. Len(air) : air[i].serial \in Nat
      /\ \A i \in 1 .. Len(todo) : todo[i].serial \in Nat
  BY SeqTypes
<1>1. ASSUME NEW o \in Ops, Send(o) \/ SendFails(o)  PROVE OrderInv'
  BY <1>1, OrderSend
<1>2. CASE Execute
  BY <1>2, OrderExecute
<1>3. CASE TimeOut
  <2>1. op' = NoOp /\ UNCHANGED <<slots, todo, air, rx, cmds>>
    BY <1>3 DEF TimeOut, mgr, chipVars, countVars
  <2> QED
    BY <2>1 DEF OrderInv, TodoOrder, AirOrder, LastInv, RxInv, DoneInv
<1>4. CASE Finish
  <2>1. /\ op' = NoOp /\ UNCHANGED <<todo, air, rx, cmds>> /\ slots'[token] = Free
        /\ \A s \in Slot \ {token} : slots'[s] = slots[s]
    BY <1>4, FinishEffect
  <2>2. Free.flags # "DONE"
    BY DEF Free
  <2>3. DoneInv'
    BY <2>1, <2>2 DEF OrderInv, DoneInv
  <2> QED
    BY <2>1, <2>3 DEF OrderInv, TodoOrder, AirOrder, LastInv, RxInv
<1>5. CASE Lose \/ Poll
  <2>1. /\ Len(air) >= 1 /\ Len(air') = Len(air) - 1
        /\ \A i \in 1 .. Len(air') : i + 1 \in 1 .. Len(air) /\ air'[i] = air[i + 1]
        /\ UNCHANGED <<slots, op, todo, cmds>> /\ Head(air) = air[1]
    BY <1>5, TakeAir
  <2>2. AirOrder'
    <3>1. ASSUME NEW i \in 1 .. Len(air')
          PROVE  /\ air'[i].serial <= cmds
                 /\ \A j \in 1 .. Len(todo) : air'[i].serial < todo[j].serial
      BY <2>1 DEF OrderInv, AirOrder
    <3>2. ASSUME NEW i \in 1 .. Len(air'), NEW j \in 1 .. Len(air'), i < j,
                 air'[j].serial # 0
          PROVE  air'[i].serial < air'[j].serial
      BY <2>1, <3>2, SMTT(30) DEF OrderInv, AirOrder
    <3> QED
      BY <2>1, <3>1, <3>2 DEF AirOrder
  <2>3. TodoOrder' /\ LastInv' /\ DoneInv'
    BY <2>1 DEF OrderInv, TodoOrder, LastInv, DoneInv
  <2>4. RxInv'
    <3>1. CASE Lose
      <4>1. rx' = rx
        BY <3>1 DEF Lose
      <4>2. ASSUME rx # <<>>, NEW j \in 1 .. Len(air'), air'[j].serial # 0
            PROVE  rx[1].serial < air'[j].serial
        BY <2>1, <4>2 DEF OrderInv, RxInv
      <4> QED
        BY <2>1, <4>1, <4>2 DEF OrderInv, RxInv
    <3>2. CASE Poll
      <4>1. rx'[1] = air[1] /\ 1 \in 1 .. Len(air)
        BY <1>0, <2>1, <3>2 DEF Poll
      <4>2. ASSUME NEW j \in 1 .. Len(air'), air'[j].serial # 0
            PROVE  air[1].serial < air'[j].serial
        <5>1. air'[j] = air[j + 1] /\ j + 1 \in 1 .. Len(air) /\ 1 < j + 1
          BY <2>1
        <5> QED
          BY <4>1, <4>2, <5>1 DEF OrderInv, AirOrder
      <4> QED
        BY <2>1, <4>1, <4>2 DEF OrderInv, AirOrder, RxInv
    <3> QED
      BY <1>5, <3>1, <3>2
  <2> QED
    BY <2>2, <2>3, <2>4 DEF OrderInv
<1>6. CASE Indicate
  <2>1. /\ Len(air') = Len(air) + 1
        /\ \A i \in 1 .. Len(air) : air'[i] = air[i]
        /\ \A i \in 1 .. Len(air') : i \in 1 .. Len(air) \/ i = Len(air')
        /\ air'[Len(air')].serial = 0
        /\ UNCHANGED <<slots, op, todo, cmds, rx>>
    BY <1>6, IndicateEffect
  <2>2. AirOrder'
    <3>1. ASSUME NEW i \in 1 .. Len(air')
          PROVE  air'[i].serial <= cmds
      BY <1>0, <2>1 DEF OrderInv, AirOrder
    <3>2. ASSUME NEW i \in 1 .. Len(air'), NEW j \in 1 .. Len(air'), i < j,
                 air'[j].serial # 0
          PROVE  air'[i].serial < air'[j].serial
      BY <1>0, <2>1, <3>2 DEF OrderInv, AirOrder
    <3>3. ASSUME NEW i \in 1 .. Len(air'), NEW j \in 1 .. Len(todo)
          PROVE  air'[i].serial < todo[j].serial
      <4>1. CASE i = Len(air')
        <5>1. todo[j].serial \in 1 .. cmds
          BY DEF OrderInv, TodoOrder
        <5> QED
          BY <1>0, <2>1, <4>1, <5>1
      <4>2. CASE i \in 1 .. Len(air)
        BY <2>1, <4>2 DEF OrderInv, AirOrder
      <4> QED
        BY <2>1, <4>1, <4>2
    <3> QED
      BY <2>1, <3>1, <3>2, <3>3 DEF AirOrder
  <2>3. TodoOrder' /\ LastInv' /\ DoneInv'
    BY <2>1 DEF OrderInv, TodoOrder, LastInv, DoneInv
  <2>4. RxInv'
    <3>1. ASSUME rx # <<>>, NEW j \in 1 .. Len(air'), air'[j].serial # 0
          PROVE  rx[1].serial < air'[j].serial
      BY <2>1, <3>1 DEF OrderInv, RxInv
    <3> QED
      BY <2>1, <3>1 DEF OrderInv, RxInv
  <2> QED
    BY <2>2, <2>3, <2>4 DEF OrderInv
<1>7. CASE Dispatch
  <2>1. /\ rx # <<>> /\ rx' = <<>> /\ UNCHANGED <<op, todo, air, cmds>>
        /\ \/ UNCHANGED slots
           \/ \E w \in Slot :
                /\ slots'[w].cfm = rx[1].serial
                /\ \A s \in Slot \ {w} : slots'[s] = slots[s]
    BY <1>7, DispatchEffect
  <2>2. DoneInv'
    <3>1. ASSUME NEW s \in Slot, slots'[s].flags = "DONE"
          PROVE  /\ slots'[s].cfm <= cmds
                 /\ \A j \in 1 .. Len(todo) : slots'[s].cfm < todo[j].serial
      <4>1. CASE slots'[s] = slots[s]
        BY <3>1, <4>1 DEF OrderInv, DoneInv
      <4>2. CASE slots'[s].cfm = rx[1].serial
        BY <2>1, <4>2 DEF OrderInv, RxInv
      <4> QED
        BY <2>1, <4>1, <4>2
    <3> QED
      BY <2>1, <3>1 DEF DoneInv
  <2> QED
    BY <2>1, <2>2 DEF OrderInv, TodoOrder, AirOrder, LastInv, RxInv
<1>8. ASSUME UNCHANGED <<slots, op, todo, air, rx, cmds>>  PROVE OrderInv'
  BY <1>8 DEF OrderInv, TodoOrder, AirOrder, LastInv, RxInv, DoneInv
<1>9. ASSUME NEW o \in Ops, PushFails(o)  PROVE OrderInv'
  BY <1>8, <1>9 DEF PushFails, mgr, opVars, chipVars, countVars
<1>10. ASSUME NEW m \in Macs, Unregister(m) \/ \E i \in StaIdxs : Register(m, i)
       PROVE  OrderInv'
  BY <1>8, <1>10 DEF Unregister, Register, mgr, opVars, chipVars
<1>11. CASE UNCHANGED vars
  BY <1>8, <1>11 DEF vars, mgr, opVars, chipVars, countVars
<1> QED
  BY <1>1, <1>2, <1>3, <1>4, <1>5, <1>6, <1>7, <1>9, <1>10, <1>11 DEF Next

-----------------------------------------------------------------------------
(* Whose CFM a command is completed with *)

(* The state of a slot that waits for the request it was pushed for survives *)
(* every step that does not complete it.                                     *)
LEMMA StillAwaited ==
  ASSUME NEW id, NEW n, Awaited(slots, id, n),
         \A s \in Slot : WaitsFor(slots, id, n, s) => slots'[s] = slots[s]
  PROVE  Awaited(slots', id, n)
  BY DEF Awaited, WaitsFor

LEMMA MatchSend ==
  ASSUME TypeOK, ChanType, SlotInv, MatchInv, NEW o \in Ops, Send(o) \/ SendFails(o)
  PROVE  MatchInv'
<1> DEFINE q == NewRequest(o)
<1>1. /\ Begin(o) /\ cmds' = cmds + 1 /\ op = NoOp /\ UNCHANGED <<air, rx>> /\ rx = <<>>
      /\ todo' = Append(todo, q) \/ (todo' = todo /\ op' = NoOp)
      /\ op' = NoOp \/ (op' = o /\ token' = PushSlot)
      /\ q \in Request
  BY SendEffect
<1>2. q.serial = cmds + 1 /\ q.op = o
  BY DEF NewRequest
<1> HIDE DEF q
<1>3. /\ PushSlot \in Slot /\ slots[PushSlot] = Free
      /\ slots'[PushSlot] = [flags |-> "WAIT_CFM", reqid |-> CfmId[o.kind],
                             serial |-> cmds + 1, cfm |-> 0]
      /\ \A s \in Slot \ {PushSlot} : slots'[s] = slots[s]
  BY <1>1, BeginEffect
<1>4. /\ slots'[PushSlot].flags = "WAIT_CFM" /\ slots'[PushSlot].reqid = CfmId[o.kind]
      /\ slots'[PushSlot].serial = cmds + 1 /\ slots[PushSlot].flags # "WAIT_CFM"
  BY <1>3 DEF Free
<1>5. Awaited(slots', CfmId[o.kind], cmds + 1)
  BY <1>1, <1>3, <1>4 DEF Awaited, WaitsFor
<1>6. ASSUME NEW id, NEW n, Awaited(slots, id, n)  PROVE Awaited(slots', id, n)
  <2>1. \A s \in Slot : WaitsFor(slots, id, n, s) => slots'[s] = slots[s]
    BY <1>3, <1>4 DEF WaitsFor
  <2> QED
    BY <1>6, <2>1, StillAwaited
<1>7. \A i \in 1 .. Len(air') : Genuine(slots', air'[i])
  BY <1>1, <1>6 DEF MatchInv, Genuine
<1>8. \A i \in 1 .. Len(todo) : todo[i].op.kind # "del_key" =>
        Awaited(slots', CfmId[todo[i].op.kind], todo[i].serial)
  BY <1>6 DEF MatchInv
<1>9. \A i \in 1 .. Len(todo') : todo'[i].op.kind # "del_key" =>
        Awaited(slots', CfmId[todo'[i].op.kind], todo'[i].serial)
  <2>1. CASE todo' = todo
    BY <1>8, <2>1
  <2>2. CASE todo' = Append(todo, q)
    <3>1. /\ Len(todo') = Len(todo) + 1 /\ Len(todo) \in Nat
          /\ \A i \in 1 .. Len(todo) : todo'[i] = todo[i]
          /\ todo'[Len(todo) + 1] = q
      BY <1>1, <2>2, SeqTypes, AppendFacts
    <3> SUFFICES ASSUME NEW i \in 1 .. Len(todo'), todo'[i].op.kind # "del_key"
                 PROVE  Awaited(slots', CfmId[todo'[i].op.kind], todo'[i].serial)
      OBVIOUS
    <3>2. CASE i = Len(todo) + 1
      BY <1>2, <1>5, <3>1, <3>2
    <3>3. CASE i \in 1 .. Len(todo)
      BY <1>8, <3>1, <3>3
    <3> QED
      BY <3>1, <3>2, <3>3
  <2> QED
    BY <1>1, <2>1, <2>2
<1>10. op' # NoOp => slots'[token'].flags # "DONE"
  BY <1>1, <1>4
<1> QED
  BY <1>1, <1>7, <1>9, <1>10 DEF MatchInv

(* on_cfm completes a slot that was pushed no later than the request the      *)
(* message answers: the slots of what is still under way keep waiting.        *)
LEMMA MatchDispatch ==
  ASSUME TypeOK, ChanType, SlotInv, OrderInv, MatchInv, Dispatch
  PROVE  MatchInv'
<1>1. /\ rx # <<>> /\ rx' = <<>> /\ rx[1].serial \in Nat
      /\ UNCHANGED <<op, token, todo, air, cmds>>
  BY DispatchEffect
<1>2. ASSUME UNCHANGED slots  PROVE MatchInv'
  BY <1>1, <1>2 DEF MatchInv, Genuine
<1>3. ASSUME NEW w \in Slot,
             slots[w] # Free, slots[w].flags = "WAIT_CFM", slots[w].reqid = rx[1].id,
             \A s \in Slot : slots[s].flags = "WAIT_CFM"
                               /\ slots[s].reqid = rx[1].id => w <= s,
             slots'[w].flags = "DONE", slots'[w].cfm = rx[1].serial,
             \A s \in Slot \ {w} : slots'[s] = slots[s]
      PROVE  MatchInv'
  <2>0. /\ slots[w].reqid \in CfmIds /\ \A s \in Slot : slots[s] # Free => slots[s].serial \in Nat
        /\ cmds \in Nat
        /\ \A i \in 1 .. Len(todo) : todo[i].serial \in Nat /\ todo[i].op.kind \in Kind
        /\ \A i \in 1 .. Len(air) : air[i].serial \in Nat
    <3>1. \A s \in Slot : slots[s] # Free => slots[s] \in PendingCmd
      BY DEF TypeOK, MgrTypeOK
    <3> QED
      BY <1>3, <3>1, SeqTypes, OpFacts DEF PendingCmd
  <2>1. rx[1].id # SM_CONNECT_IND
    <3>1. \A k \in Kind : CfmId[k] # SM_CONNECT_IND
      BY IdFacts
    <3> QED
      BY <1>3, <2>0, <3>1, WiphyAssumption DEF Kind
  <2>2. rx[1].id # PsInd => slots[w].serial <= rx[1].serial
    <3> SUFFICES ASSUME rx[1].id # PsInd  PROVE slots[w].serial <= rx[1].serial
      OBVIOUS
    <3>1. Awaited(slots, rx[1].id, rx[1].serial)
      BY <1>1, <2>1 DEF MatchInv, Genuine
    <3>2. PICK s \in Slot : WaitsFor(slots, rx[1].id, rx[1].serial, s)
      BY <3>1 DEF Awaited
    <3>3. w <= s /\ slots[s] # Free /\ slots[s].serial = rx[1].serial
      BY <1>3, <3>2 DEF WaitsFor, Free
    <3>4. w = s \/ w < s
      BY <3>3 DEF Slot
    <3>5. w < s => slots[w].serial < slots[s].serial
      BY <3>3 DEF SlotInv
    <3> QED
      BY <1>1, <1>3, <2>0, <3>3, <3>4, <3>5
  <2>3. ASSUME NEW id, NEW n \in Nat, Awaited(slots, id, n), id # PsInd, rx[1].serial < n
        PROVE  Awaited(slots', id, n)
    <3>1. ASSUME NEW s \in Slot, WaitsFor(slots, id, n, s)  PROVE s # w
      <4>1. slots[s].reqid = id /\ slots[s].serial = n
        BY <3>1 DEF WaitsFor
      <4>2. CASE rx[1].id = PsInd
        BY <1>3, <2>3, <4>1, <4>2
      <4>3. CASE rx[1].id # PsInd
        BY <1>1, <1>3, <2>0, <2>2, <2>3, <4>1, <4>3
      <4> QED
        BY <4>2, <4>3
    <3>2. \A s \in Slot : WaitsFor(slots, id, n, s) => slots'[s] = slots[s]
      BY <1>3, <3>1
    <3> QED
      BY <2>3, <3>2, StillAwaited
  <2>4. ASSUME NEW i \in 1 .. Len(todo'), todo'[i].op.kind # "del_key"
        PROVE  Awaited(slots', CfmId[todo'[i].op.kind], todo'[i].serial)
    <3>1. Awaited(slots, CfmId[todo[i].op.kind], todo[i].serial) /\ rx[1].serial < todo[i].serial
      BY <1>1, <2>4 DEF MatchInv, OrderInv, RxInv
    <3>2. CfmId[todo[i].op.kind] # PsInd /\ todo[i].serial \in Nat
      BY <1>1, <2>0, <2>4, IdFacts
    <3>3. Awaited(slots', CfmId[todo[i].op.kind], todo[i].serial)
      BY <2>3, <3>1, <3>2
    <3> QED
      BY <1>1, <3>3
  <2>5. ASSUME NEW i \in 1 .. Len(air')  PROVE Genuine(slots', air'[i])
    <3>1. Genuine(slots, air[i]) /\ air[i].serial \in Nat
      BY <1>1, <2>0 DEF MatchInv
    <3>2. air[i].serial # 0 /\ air[i].id # PsInd =>
            Awaited(slots', air[i].id, air[i].serial)
      <4>1. ASSUME air[i].serial # 0, air[i].id # PsInd
            PROVE  Awaited(slots', air[i].id, air[i].serial)
        <5>1. rx[1].serial < air[i].serial /\ Awaited(slots, air[i].id, air[i].serial)
          BY <1>1, <3>1, <4>1 DEF OrderInv, RxInv, Genuine
        <5> QED
          BY <2>3, <3>1, <4>1, <5>1
      <4> QED
        BY <4>1
    <3> QED
      BY <1>1, <3>1, <3>2 DEF Genuine, Awaited
  <2>6. ASSUME op # NoOp, op.kind # "del_key", slots'[token].flags = "DONE"
        PROVE  slots'[token].cfm = cmds
    <3>1. token \in Slot /\ op.kind \in Kind
      BY <2>6, OpFacts DEF TypeOK
    <3>2. CASE token # w
      BY <1>3, <2>6, <3>1, <3>2 DEF MatchInv
    <3>3. CASE token = w
      <4>1. slots[w].reqid = CfmId[op.kind] /\ slots[w].serial = cmds
        BY <2>6, <3>3 DEF SlotInv
      <4>2. rx[1].id # PsInd
        BY <1>3, <2>6, <3>1, <4>1, IdFacts
      <4>3. rx[1].serial <= cmds
        BY <1>1 DEF OrderInv, RxInv
      <4> QED
        BY <1>1, <1>3, <2>0, <2>2, <3>3, <4>1, <4>2, <4>3
    <3> QED
      BY <3>2, <3>3
  <2> QED
    BY <1>1, <2>4, <2>5, <2>6 DEF MatchInv
<1> QED
  BY <1>2, <1>3, DispatchEffect

LEMMA MatchExecute ==
  ASSUME TypeOK, ChanType, OrderInv, MatchInv, Execute
  PROVE  MatchInv'
<1>1. /\ Len(todo) >= 1 /\ Len(todo') = Len(todo) - 1
      /\ \A i \in 1 .. Len(todo') : todo'[i] = todo[i + 1]
      /\ Len(air') = Len(air) + 1
      /\ \A i \in 1 .. Len(air) : air'[i] = air[i]
      /\ air'[Len(air')].serial = todo[1].serial
      /\ air'[Len(air')].id = CfmId[todo[1].op.kind]
      /\ UNCHANGED <<slots, op, token, rx, cmds>>
  BY ExecuteEffect
<1>2. /\ Len(todo) \in Nat /\ Len(air) \in Nat
      /\ \A i \in 1 .. Len(todo) : todo[i].serial \in Nat /\ todo[i].op.kind \in Kind
  BY SeqTypes, OpFacts
<1>3. ASSUME NEW i \in 1 .. Len(todo'), todo'[i].op.kind # "del_key"
      PROVE  Awaited(slots', CfmId[todo'[i].op.kind], todo'[i].serial)
  <2>1. todo'[i] = todo[i + 1] /\ i + 1 \in 1 .. Len(todo)
    BY <1>1, <1>2
  <2> QED
    BY <1>1, <1>3, <2>1 DEF MatchInv
<1>4. ASSUME NEW i \in 1 .. Len(air')  PROVE Genuine(slots', air'[i])
  <2>1. CASE i \in 1 .. Len(air)
    BY <1>1, <2>1 DEF MatchInv, Genuine
  <2>2. CASE i = Len(air')
    <3>1. 1 \in 1 .. Len(todo) /\ todo[1].serial # 0
      BY <1>1, <1>2 DEF OrderInv, TodoOrder
    <3>2. CfmId[todo[1].op.kind] # PsInd => todo[1].op.kind # "del_key"
      BY <1>2, <3>1, IdFacts
    <3> QED
      BY <1>1, <2>2, <3>1, <3>2 DEF MatchInv, Genuine
  <2> QED
    BY <1>1, <1>2, <2>1, <2>2
<1>5. rx' # <<>> => Genuine(slots', rx'[1])
  BY <1>1 DEF MatchInv, Genuine
<1> QED
  BY <1>1, <1>3, <1>4, <1>5 DEF MatchInv

LEMMA MatchStep ==
  ASSUME TypeOK, ChanType, SlotInv, OrderInv, MatchInv, [Next]_vars
  PROVE  MatchInv'
<1>1. ASSUME NEW o \in Ops, Send(o) \/ SendFails(o)  PROVE MatchInv'
  BY <1>1, MatchSend
<1>2. CASE Execute
  BY <1>2, MatchExecute
<1>3. CASE TimeOut
  <2>1. op' = NoOp /\ UNCHANGED <<slots, todo, air, rx, cmds>>
    BY <1>3 DEF TimeOut, mgr, chipVars, countVars
  <2> QED
    BY <2>1 DEF MatchInv, Genuine
<1>4. CASE Finish
  <2>1. /\ op' = NoOp /\ UNCHANGED <<todo, air, rx, cmds>> /\ token \in Slot
        /\ slots[token].flags = "DONE"
        /\ \A s \in Slot \ {token} : slots'[s] = slots[s]
    BY <1>4, FinishEffect
  <2>2. ASSUME NEW id, NEW n, Awaited(slots, id, n)  PROVE Awaited(slots', id, n)
    <3>1. \A s \in Slot : WaitsFor(slots, id, n, s) => slots'[s] = slots[s]
      BY <2>1 DEF WaitsFor
    <3> QED
      BY <2>2, <3>1, StillAwaited
  <2>3. \A i \in 1 .. Len(todo) : todo[i].op.kind # "del_key" =>
          Awaited(slots', CfmId[todo[i].op.kind], todo[i].serial)
    BY <2>1, <2>2 DEF MatchInv
  <2>4. \A i \in 1 .. Len(air) : Genuine(slots', air'[i])
    BY <2>1, <2>2 DEF MatchInv, Genuine
  <2>5. rx # <<>> => Genuine(slots', rx'[1])
    BY <2>1, <2>2 DEF MatchInv, Genuine
  <2> QED
    BY <2>1, <2>3, <2>4, <2>5 DEF MatchInv, Awaited
<1>5. CASE Lose \/ Poll
  <2>1. /\ Len(air) >= 1 /\ Len(air') = Len(air) - 1 /\ Len(air) \in Nat
        /\ \A i \in 1 .. Len(air') : i + 1 \in 1 .. Len(air) /\ air'[i] = air[i + 1]
        /\ UNCHANGED <<slots, op, token, todo, cmds>> /\ Head(air) = air[1]
    BY <1>5, TakeAir, SeqTypes
  <2>2. \A i \in 1 .. Len(air') : Genuine(slots', air'[i])
    BY <2>1 DEF MatchInv, Genuine
  <2>3. rx' # <<>> => Genuine(slots', rx'[1])
    <3>1. CASE Lose
      BY <2>1, <3>1 DEF Lose, MatchInv, Genuine
    <3>2. CASE Poll
      <4>1. rx'[1] = air[1] /\ 1 \in 1 .. Len(air)
        BY <2>1, <3>2 DEF Poll
      <4> QED
        BY <2>1, <4>1 DEF MatchInv, Genuine
    <3> QED
      BY <1>5, <3>1, <3>2
  <2> QED
    BY <2>1, <2>2, <2>3 DEF MatchInv
<1>6. CASE Indicate
  <2>1. /\ \A i \in 1 .. Len(air) : air'[i] = air[i]
        /\ \A i \in 1 .. Len(air') : i \in 1 .. Len(air) \/ i = Len(air')
        /\ air'[Len(air')].serial = 0
        /\ air'[Len(air')].id \in {SM_CONNECT_IND, PsInd}
        /\ UNCHANGED <<slots, op, token, todo, cmds, rx>>
    BY <1>6, IndicateEffect
  <2>2. \A i \in 1 .. Len(air') : Genuine(slots', air'[i])
    BY <2>1 DEF MatchInv, Genuine
  <2> QED
    BY <2>1, <2>2 DEF MatchInv, Genuine
<1>7. CASE Dispatch
  BY <1>7, MatchDispatch
<1>8. ASSUME UNCHANGED <<slots, op, token, todo, air, rx, cmds>>  PROVE MatchInv'
  BY <1>8 DEF MatchInv, Genuine
<1>9. ASSUME NEW o \in Ops, PushFails(o)  PROVE MatchInv'
  BY <1>8, <1>9 DEF PushFails, mgr, opVars, chipVars, countVars
<1>10. ASSUME NEW m \in Macs, Unregister(m) \/ \E i \in StaIdxs : Register(m, i)
       PROVE  MatchInv'
  BY <1>8, <1>10 DEF Unregister, Register, mgr, opVars, chipVars
<1>11. CASE UNCHANGED vars
  BY <1>8, <1>11 DEF vars, mgr, opVars, chipVars, countVars
<1> QED
  BY <1>1, <1>2, <1>3, <1>4, <1>5, <1>6, <1>7, <1>9, <1>10, <1>11 DEF Next

-----------------------------------------------------------------------------
(* What the CFM of the call that waits says *)

KeyOf(o) == <<o.vif, o.key>>

(* Once the last request is executed, its answer is there: the index of a key *)
(* that was added is the firmware's slot of that key.                         *)
AnswerInv ==
  op # NoOp /\ todo = <<>> =>
    /\ op.kind = "add_key" /\ Accepted(answers[cmds]) =>
         answers[cmds].val \in HwKeys /\ fw_keys[answers[cmds].val] = KeyOf(op)
    /\ op.kind = "start_ap" => answers[cmds].val \in StaIdxs \cup {0}

LEMMA Confirmed ==
  ASSUME ChanType, NEW q \in Request, NEW len \in {0, 1}, NEW st \in {0, 1, 8, 9},
         NEW val \in HwKeys \cup StaIdxs \cup {0}, Confirm(q, len, st, val)
  PROVE  /\ answers' \in [1 .. MaxCmds -> CfmAnswer]
         /\ q.serial \in 1 .. MaxCmds =>
              /\ answers'[q.serial].len = len /\ answers'[q.serial].st = st
              /\ answers'[q.serial].val = val
<1> DEFINE a == [len |-> len, st |-> st, val |-> val]
<1>1. a \in CfmAnswer /\ a.len = len /\ a.st = st /\ a.val = val
  BY DEF CfmAnswer
<1>2. answers' = [answers EXCEPT ![q.serial] = a]
  BY DEF Confirm
<1> HIDE DEF a
<1> QED
  BY <1>1, <1>2 DEF ChanType

LEMMA ReplyType ==
  ASSUME NEW k, NEW r \in Replies(k)
  PROVE  /\ r[1] \in {0, 1} /\ r[2] \in {0, 1, 8, 9}
         /\ r[3] \in HwKeys \cup StaIdxs \cup {0}
         /\ k = "start_ap" => r[3] \in StaIdxs \cup {0}
<1>1. CASE k = "start_ap"
  BY <1>1 DEF Replies
<1>2. CASE k = "connect"
  BY <1>2 DEF Replies
<1>3. CASE k \notin {"start_ap", "connect"}
  BY <1>3 DEF Replies
<1> QED
  BY <1>1, <1>2, <1>3

LEMMA AnswersExecute ==
  ASSUME TypeOK, ChanType, Execute
  PROVE  /\ answers' \in [1 .. MaxCmds -> CfmAnswer]
         /\ fw_keys' \in [HwKeys -> {<<o.vif, o.key>> : o \in Ops} \cup {<<>>}]
<1> DEFINE q == todo[1]
<1>1. q \in Request /\ Head(todo) = q
  BY ExecuteEffect, SeqTypes, TailFacts
<1>2. q.op \in Ops
  BY <1>1 DEF Request
<1>3. AddKey(q) \/ DelKey(q) \/ OtherRequest(q)
  BY <1>1 DEF Execute
<1> HIDE DEF q
<1>4. CASE AddKey(q)
  <2>1. ASSUME NEW h \in HwKeys, Confirm(q, 1, 0, h),
               fw_keys' = [fw_keys EXCEPT ![h] = <<q.op.vif, q.op.key>>]
        PROVE  /\ answers' \in [1 .. MaxCmds -> CfmAnswer]
               /\ fw_keys' \in [HwKeys -> {<<o.vif, o.key>> : o \in Ops} \cup {<<>>}]
    <3>1. answers' \in [1 .. MaxCmds -> CfmAnswer]
      BY <1>1, <2>1, Confirmed
    <3> QED
      BY <1>2, <2>1, <3>1 DEF TypeOK
  <2>2. ASSUME Confirm(q, 1, 1, 0), UNCHANGED fw_keys
        PROVE  /\ answers' \in [1 .. MaxCmds -> CfmAnswer]
               /\ fw_keys' \in [HwKeys -> {<<o.vif, o.key>> : o \in Ops} \cup {<<>>}]
    <3>1. answers' \in [1 .. MaxCmds -> CfmAnswer]
      BY <1>1, <2>2, Confirmed
    <3> QED
      BY <2>2, <3>1 DEF TypeOK
  <2> QED
    BY <1>4, <2>1, <2>2 DEF AddKey
<1>5. CASE DelKey(q)
  <2>1. Confirm(q, 0, 0, 0) /\ fw_keys' = [fw_keys EXCEPT ![q.idx] = <<>>]
    BY <1>5 DEF DelKey
  <2>2. answers' \in [1 .. MaxCmds -> CfmAnswer]
    BY <1>1, <2>1, Confirmed
  <2> QED
    BY <2>1, <2>2 DEF TypeOK
<1>6. CASE OtherRequest(q)
  <2>1. UNCHANGED fw_keys
    BY <1>6 DEF OtherRequest
  <2>2. PICK r \in Replies(q.op.kind) : Confirm(q, r[1], r[2], r[3])
    BY <1>6 DEF OtherRequest
  <2>3. answers' \in [1 .. MaxCmds -> CfmAnswer]
    BY <1>1, <2>2, ReplyType, Confirmed
  <2> QED
    BY <2>1, <2>3 DEF TypeOK
<1> QED
  BY <1>3, <1>4, <1>5, <1>6

LEMMA AnswerExecute ==
  ASSUME TypeOK, ChanType, OrderInv, Execute
  PROVE  AnswerInv'
<1> SUFFICES ASSUME op # NoOp, todo' = <<>>
             PROVE  /\ op.kind = "add_key" /\ Accepted(answers'[cmds]) =>
                         /\ answers'[cmds].val \in HwKeys
                         /\ fw_keys'[answers'[cmds].val] = KeyOf(op)
                    /\ op.kind = "start_ap" => answers'[cmds].val \in StaIdxs \cup {0}
  BY ExecuteEffect DEF AnswerInv
<1> DEFINE q == todo[1]
<1>1. /\ q \in Request /\ Head(todo) = q /\ todo # <<>>
      /\ Len(todo) >= 1 /\ Len(todo') = Len(todo) - 1 /\ Len(todo) \in Nat
  BY ExecuteEffect, SeqTypes, TailFacts
<1>2. Len(todo') = 0
  OBVIOUS
<1>3. q = todo[Len(todo)]
  <2>1. Len(todo) = 1
    BY <1>1, <1>2
  <2> QED
    BY <2>1
<1>4. q.serial = cmds /\ q.op = op
  BY <1>1, <1>3 DEF OrderInv, LastInv
<1>5. q.serial \in 1 .. MaxCmds
  <2>1. q.serial \in 1 .. cmds
    BY <1>1 DEF OrderInv, TodoOrder
  <2> QED
    BY <1>4, <2>1 DEF ChanType
<1>6. AddKey(q) \/ DelKey(q) \/ OtherRequest(q)
  BY <1>1 DEF Execute
<1> HIDE DEF q
<1>7. CASE AddKey(q)
  <2>0. op.kind = "add_key"
    BY <1>4, <1>7 DEF AddKey
  <2>1. ASSUME NEW h \in HwKeys, Confirm(q, 1, 0, h),
               fw_keys' = [fw_keys EXCEPT ![h] = <<q.op.vif, q.op.key>>]
        PROVE  answers'[cmds].val \in HwKeys /\ fw_keys'[answers'[cmds].val] = KeyOf(op)
    <3>1. answers'[q.serial].val = h
      BY <1>1, <1>5, <2>1, Confirmed
    <3> QED
      BY <1>4, <2>1, <3>1 DEF TypeOK, KeyOf
  <2>2. ASSUME Confirm(q, 1, 1, 0)  PROVE ~Accepted(answers'[cmds])
    <3>1. answers'[q.serial].st = 1
      BY <1>1, <1>5, <2>2, Confirmed
    <3> QED
      BY <1>4, <3>1 DEF Accepted
  <2> QED
    BY <1>7, <2>0, <2>1, <2>2 DEF AddKey
<1>8. CASE DelKey(q)
  BY <1>4, <1>8 DEF DelKey
<1>9. CASE OtherRequest(q)
  <2>1. PICK r \in Replies(q.op.kind) : Confirm(q, r[1], r[2], r[3])
    BY <1>9 DEF OtherRequest
  <2>2. /\ r[1] \in {0, 1} /\ r[2] \in {0, 1, 8, 9}
        /\ r[3] \in HwKeys \cup StaIdxs \cup {0}
        /\ q.op.kind = "start_ap" => r[3] \in StaIdxs \cup {0}
    BY ReplyType
  <2>3. answers'[q.serial].val = r[3]
    BY <1>1, <1>5, <2>1, <2>2, Confirmed
  <2>4. op.kind # "add_key"
    BY <1>4, <1>9 DEF OtherRequest
  <2> QED
    BY <1>4, <2>2, <2>3, <2>4
<1> QED
  BY <1>6, <1>7, <1>8, <1>9

LEMMA AnswerStep ==
  ASSUME TypeOK, ChanType, OrderInv, AnswerInv, [Next]_vars
  PROVE  AnswerInv'
<1>1. ASSUME NEW o \in Ops, Send(o) \/ SendFails(o)  PROVE AnswerInv'
  <2>1. /\ todo' = Append(todo, NewRequest(o)) \/ op' = NoOp
        /\ NewRequest(o) \in Request
    BY <1>1, SendEffect
  <2>2. Append(todo, NewRequest(o)) # <<>>
    BY <2>1, SeqTypes, AppendFacts
  <2> QED
    BY <2>1, <2>2 DEF AnswerInv
<1>2. CASE Execute
  BY <1>2, AnswerExecute
<1>3. CASE TimeOut \/ Finish
  BY <1>3 DEF TimeOut, Finish, AnswerInv
<1>4. ASSUME UNCHANGED <<op, todo, answers, fw_keys, cmds>>  PROVE AnswerInv'
  BY <1>4 DEF AnswerInv, Accepted
<1>5. CASE Lose \/ Poll
  BY <1>4, <1>5, TakeAir
<1>6. CASE Indicate
  BY <1>4, <1>6, IndicateEffect
<1>7. CASE Dispatch
  BY <1>4, <1>7, DispatchEffect
<1>8. ASSUME NEW o \in Ops, PushFails(o)  PROVE AnswerInv'
  BY <1>4, <1>8 DEF PushFails, opVars, chipVars, countVars
<1>9. ASSUME NEW m \in Macs, Unregister(m) \/ \E i \in StaIdxs : Register(m, i)
      PROVE  AnswerInv'
  BY <1>4, <1>9 DEF Unregister, Register, opVars, chipVars
<1>10. CASE UNCHANGED vars
  BY <1>4, <1>10 DEF vars, opVars, chipVars, countVars
<1> QED
  BY <1>1, <1>2, <1>3, <1>5, <1>6, <1>7, <1>8, <1>9, <1>10 DEF Next

-----------------------------------------------------------------------------
(* What a call makes of its CFM *)

(* The CFM that take_cfm copies out. *)
TakenCfm == IF slots[token].cfm = 0 THEN NoAnswer ELSE answers[slots[token].cfm]

LEMMA FinishRemembers ==
  ASSUME Finish
  PROVE  /\ Answer(op, TakenCfm) = 0 => Remember(op, Value(TakenCfm))
         /\ Answer(op, TakenCfm) # 0 => UNCHANGED <<key_hw, sta_table, channel, tx_power, holed>>
         /\ last' = [kind |-> op.kind, res |-> Answer(op, TakenCfm),
                     mine |-> slots[token].cfm = slots[token].serial]
         /\ answers' = [k \in DOMAIN answers |->
                          IF k = slots[token].cfm THEN NoAnswer ELSE answers[k]]
  BY DEF Finish, TakenCfm, stateVars

(* A call other than del_key gets its own CFM, after the firmware has         *)
(* executed its request.                                                      *)
LEMMA OwnCfm ==
  ASSUME TypeOK, ChanType, SlotInv, OrderInv, MatchInv, Finish
  PROVE  /\ TakenCfm \in CfmAnswer
         /\ op.kind # "del_key" =>
              /\ slots[token].cfm = cmds /\ slots[token].serial = cmds /\ todo = <<>>
              /\ TakenCfm = answers[cmds] \/ TakenCfm = NoAnswer
<1>1. /\ op # NoOp /\ token \in Slot /\ slots[token].flags = "DONE"
      /\ slots[token] \in PendingCmd
  BY FinishEffect
<1>2. slots[token].cfm \in Nat /\ slots[token].cfm <= cmds
  BY <1>1 DEF PendingCmd, OrderInv, DoneInv
<1>3. TakenCfm \in CfmAnswer
  <2>1. NoAnswer \in CfmAnswer
    BY DEF NoAnswer, CfmAnswer
  <2>2. slots[token].cfm # 0 => slots[token].cfm \in 1 .. MaxCmds
    BY <1>2, Sizes DEF ChanType
  <2> QED
    BY <2>1, <2>2 DEF TakenCfm, ChanType
<1>4. ASSUME op.kind # "del_key"
      PROVE  /\ slots[token].cfm = cmds /\ slots[token].serial = cmds /\ todo = <<>>
             /\ TakenCfm = answers[cmds] \/ TakenCfm = NoAnswer
  <2>1. slots[token].cfm = cmds /\ slots[token].serial = cmds
    BY <1>1, <1>4 DEF MatchInv, SlotInv
  <2>2. ASSUME todo # <<>>  PROVE FALSE
    <3>1. Len(todo) \in 1 .. Len(todo)
      BY <2>2, SeqTypes
    <3>2. todo[Len(todo)].serial = cmds /\ slots[token].cfm < todo[Len(todo)].serial
      BY <1>1, <2>2, <3>1 DEF OrderInv, LastInv, DoneInv
    <3> QED
      BY <2>1, <3>2, SeqTypes
  <2> QED
    BY <2>1, <2>2 DEF TakenCfm
<1> QED
  BY <1>3, <1>4

(* The error codes. *)
LEMMA AnswerFacts ==
  ASSUME NEW o \in Ops, NEW c \in CfmAnswer
  PROVE  /\ o.kind = "del_key" => Answer(o, c) = 0
         /\ o.kind = "add_key" /\ Answer(o, c) = 0 => Accepted(c)
<1>1. CASE o.kind = "del_key"
  BY <1>1 DEF Answer
<1>2. CASE o.kind = "add_key"
  BY <1>2 DEF Answer
<1> QED
  BY <1>1, <1>2

(* The keys a call leaves. *)
LEMMA FinishKeys ==
  ASSUME TypeOK, ChanType, SlotInv, OrderInv, MatchInv, AnswerInv, Finish
  PROVE  /\ key_hw' \in [Keys -> HwKeys \cup {NoIdx}]
         /\ \/ key_hw' = key_hw /\ op.kind # "del_key"
            \/ /\ op.kind = "del_key"
               /\ \A k \in Keys : key_hw'[k] = IF k = KeyOf(op) THEN NoIdx ELSE key_hw[k]
            \/ /\ op.kind = "add_key" /\ todo = <<>>
               /\ \E v \in HwKeys :
                    /\ fw_keys[v] = KeyOf(op)
                    /\ \A k \in Keys : key_hw'[k] = IF k = KeyOf(op) THEN v ELSE key_hw[k]
<1> DEFINE c == TakenCfm
<1>0. op \in Ops /\ op # NoOp /\ c \in CfmAnswer
  BY FinishEffect, OwnCfm DEF TypeOK
<1>t. key_hw \in [Keys -> HwKeys \cup {NoIdx}]
  BY DEF TypeOK
<1>1. CASE Answer(op, c) # 0
  <2>1. key_hw' = key_hw
    BY <1>1, FinishRemembers
  <2>2. op.kind # "del_key"
    BY <1>0, <1>1, AnswerFacts
  <2> QED
    BY <1>t, <2>1, <2>2
<1>2. CASE Answer(op, c) = 0
  <2>1. key_hw' = [k \in Keys |-> IF k = KeyOf(op)
                                  THEN HwKeyAfter(op, Value(c), key_hw[k]) ELSE key_hw[k]]
    BY <1>2, FinishRemembers DEF Remember, KeyOf
  <2>2. CASE op.kind = "del_key"
    <3>1. \A old : HwKeyAfter(op, Value(c), old) = NoIdx
      BY <2>2 DEF HwKeyAfter
    <3> QED
      BY <1>t, <2>1, <2>2, <3>1
  <2>3. CASE op.kind = "add_key"
    <3>1. \A old : HwKeyAfter(op, Value(c), old) = Value(c)
      BY <2>3 DEF HwKeyAfter
    <3>2. Accepted(c)
      BY <1>0, <1>2, <2>3, AnswerFacts
    <3>3. c = answers[cmds] /\ todo = <<>> /\ Value(c) = c.val
      BY <2>3, <3>2, OwnCfm DEF Accepted, NoAnswer, Value
    <3>4. Value(c) \in HwKeys /\ fw_keys[Value(c)] = KeyOf(op)
      BY <1>0, <2>3, <3>2, <3>3 DEF AnswerInv
    <3> HIDE DEF c
    <3>5. \A k \in Keys : key_hw'[k] = IF k = KeyOf(op) THEN Value(c) ELSE key_hw[k]
      BY <2>1, <3>1
    <3>6. key_hw' \in [Keys -> HwKeys \cup {NoIdx}]
      BY <1>t, <2>1, <3>1, <3>4
    <3> QED
      BY <2>3, <3>3, <3>4, <3>5, <3>6
  <2>4. CASE op.kind \notin {"del_key", "add_key"}
    <3>1. \A old : HwKeyAfter(op, Value(c), old) = old
      BY <2>4 DEF HwKeyAfter
    <3>2. key_hw' = [k \in Keys |-> key_hw[k]]
      BY <2>1, <3>1
    <3> QED
      BY <1>t, <2>4, <3>2
  <2> QED
    BY <2>2, <2>3, <2>4
<1> QED
  BY <1>1, <1>2

-----------------------------------------------------------------------------
(* Keys *)

(* A delete that the firmware has still to execute, in state (fk, kh, o): its *)
(* index is the firmware's slot of its key, which WiphyOpsImpl has forgotten  *)
(* unless the call that waits is the one that asked.                          *)
Deletes(q, fk, kh, o) ==
  /\ KeyOf(q.op) \in Keys /\ q.idx \in HwKeys
  /\ fk[q.idx] = KeyOf(q.op)
  /\ kh[KeyOf(q.op)] # NoIdx => kh[KeyOf(q.op)] = q.idx /\ o = q.op

(* Unless a delete went unconfirmed: the keys agree, the deletes under way    *)
(* name the right slots, and no key is deleted twice.                         *)
KeyInv ==
  ~undeleted =>
    /\ \A k \in Keys : key_hw[k] # NoIdx =>
         \/ fw_keys[key_hw[k]] = k
         \/ op.kind = "del_key" /\ k = KeyOf(op)
    /\ \A i \in 1 .. Len(todo) : todo[i].op.kind = "del_key" =>
         Deletes(todo[i], fw_keys, key_hw, op)
    /\ \A i, j \in 1 .. Len(todo) :
         todo[i].op.kind = "del_key" /\ todo[j].op.kind = "del_key" /\ i # j =>
           KeyOf(todo[i].op) # KeyOf(todo[j].op)

(* A call that deletes nothing finds the keys being deleted forgotten. *)
LEMMA Forgotten ==
  ASSUME KeyInv, ~undeleted, op.kind # "del_key",
         NEW i \in 1 .. Len(todo), todo[i].op.kind = "del_key"
  PROVE  /\ KeyOf(todo[i].op) \in Keys /\ todo[i].idx \in HwKeys
         /\ fw_keys[todo[i].idx] = KeyOf(todo[i].op)
         /\ key_hw[KeyOf(todo[i].op)] = NoIdx
  BY DEF KeyInv, Deletes

LEMMA KeySend ==
  ASSUME TypeOK, ChanType, KeyInv, NEW o \in Ops, Send(o) \/ SendFails(o)
  PROVE  KeyInv'
<1> SUFFICES ASSUME ~undeleted'  PROVE KeyInv'
  BY DEF KeyInv
<1> DEFINE q == NewRequest(o)
<1>1. /\ op = NoOp /\ UNCHANGED <<fw_keys, key_hw>>
      /\ todo' = Append(todo, q) \/ (todo' = todo /\ op' = NoOp)
      /\ op' = NoOp \/ op' = o
      /\ q \in Request /\ ~Refused(o)
  BY SendEffect, BeginEffect
<1>2. ~undeleted /\ (o.kind = "del_key" => op' = o)
  <2>1. CASE Send(o)
    <3>1. undeleted' = undeleted /\ op' = o
      BY <2>1 DEF Send
    <3> QED
      BY <3>1
  <2>2. CASE SendFails(o)
    <3>1. undeleted' = (undeleted \/ o.kind = "del_key")
      BY <2>2 DEF SendFails
    <3> QED
      BY <3>1, Zenon
  <2> QED
    BY <2>1, <2>2
<1>3. q.op = o /\ q.idx = IndexOf(o)
  BY DEF NewRequest
<1> HIDE DEF q
<1>4. op.kind # "del_key"
  BY <1>1 DEF NoOp, None
<1>5. \A k \in Keys : key_hw[k] # NoIdx => fw_keys[key_hw[k]] = k
  BY <1>2, <1>4 DEF KeyInv
<1>6. ASSUME NEW i \in 1 .. Len(todo), todo[i].op.kind = "del_key"
      PROVE  Deletes(todo[i], fw_keys, key_hw, op') /\ key_hw[KeyOf(todo[i].op)] = NoIdx
  BY <1>2, <1>4, <1>6, Forgotten DEF Deletes
<1>7. CASE todo' = todo
  <2>1. \A i \in 1 .. Len(todo') : todo'[i].op.kind = "del_key" =>
          Deletes(todo'[i], fw_keys', key_hw', op')
    BY <1>1, <1>6, <1>7
  <2> QED
    BY <1>1, <1>2, <1>5, <1>7, <2>1 DEF KeyInv
<1>8. CASE todo' = Append(todo, q)
  <2>1. /\ Len(todo') = Len(todo) + 1 /\ Len(todo) \in Nat
        /\ \A i \in 1 .. Len(todo) : todo'[i] = todo[i]
        /\ todo'[Len(todo')] = q
        /\ \A i \in 1 .. Len(todo') : i \in 1 .. Len(todo) \/ i = Len(todo')
    <3>1. /\ Len(todo') = Len(todo) + 1 /\ Len(todo) \in Nat
          /\ \A i \in 1 .. Len(todo) : todo'[i] = todo[i]
          /\ todo'[Len(todo) + 1] = q
      BY <1>1, <1>8, SeqTypes, AppendFacts
    <3> QED
      BY <3>1
  <2>2. o.kind = "del_key" => /\ Deletes(q, fw_keys, key_hw, op')
                              /\ key_hw[KeyOf(q.op)] # NoIdx
    <3> SUFFICES ASSUME o.kind = "del_key"
                 PROVE  Deletes(q, fw_keys, key_hw, op') /\ key_hw[KeyOf(q.op)] # NoIdx
      OBVIOUS
    <3>1. /\ KeyOf(o) \in Keys /\ IndexOf(o) = key_hw[KeyOf(o)]
          /\ key_hw[KeyOf(o)] \in HwKeys
      BY <1>1, IndexType DEF KeyOf
    <3>2. key_hw[KeyOf(o)] # NoIdx
      BY <3>1, Sizes DEF NoIdx
    <3> QED
      BY <1>2, <1>3, <1>5, <3>1, <3>2 DEF Deletes
  <2>3. ASSUME NEW i \in 1 .. Len(todo'), todo'[i].op.kind = "del_key"
        PROVE  Deletes(todo'[i], fw_keys, key_hw, op')
    <3>1. CASE i \in 1 .. Len(todo)
      BY <1>6, <2>1, <2>3, <3>1
    <3>2. CASE i = Len(todo')
      BY <1>3, <2>1, <2>2, <2>3, <3>2
    <3> QED
      BY <2>1, <3>1, <3>2
  <2>4. ASSUME NEW i \in 1 .. Len(todo'), NEW j \in 1 .. Len(todo'), i # j,
               todo'[i].op.kind = "del_key", todo'[j].op.kind = "del_key"
        PROVE  KeyOf(todo'[i].op) # KeyOf(todo'[j].op)
    <3>1. CASE i \in 1 .. Len(todo) /\ j \in 1 .. Len(todo)
      BY <1>2, <2>1, <2>4, <3>1 DEF KeyInv
    <3>2. CASE i = Len(todo') /\ j \in 1 .. Len(todo)
      BY <1>3, <1>6, <2>1, <2>2, <2>4, <3>2
    <3>3. CASE j = Len(todo') /\ i \in 1 .. Len(todo)
      BY <1>3, <1>6, <2>1, <2>2, <2>4, <3>3
    <3> QED
      BY <2>1, <2>4, <3>1, <3>2, <3>3
  <2> QED
    BY <1>1, <1>5, <2>3, <2>4 DEF KeyInv
<1> QED
  BY <1>1, <1>7, <1>8

LEMMA KeyFinish ==
  ASSUME TypeOK, ChanType, SlotInv, OrderInv, MatchInv, AnswerInv, KeyInv, Finish
  PROVE  KeyInv'
<1>1. op' = NoOp /\ UNCHANGED <<todo, fw_keys, undeleted>>
  BY FinishEffect
<1> SUFFICES ASSUME ~undeleted  PROVE KeyInv'
  BY <1>1 DEF KeyInv
<1>2. op'.kind # "del_key"
  BY <1>1 DEF NoOp, None
<1>3. \A i, j \in 1 .. Len(todo') :
        todo'[i].op.kind = "del_key" /\ todo'[j].op.kind = "del_key" /\ i # j =>
          KeyOf(todo'[i].op) # KeyOf(todo'[j].op)
  BY <1>1 DEF KeyInv
<1>4. CASE key_hw' = key_hw /\ op.kind # "del_key"
  <2>1. \A i \in 1 .. Len(todo) : todo[i].op.kind = "del_key" =>
          Deletes(todo[i], fw_keys, key_hw, op')
    BY <1>4, Forgotten DEF Deletes
  <2> QED
    BY <1>1, <1>3, <1>4, <2>1 DEF KeyInv
<1>5. CASE /\ op.kind = "del_key"
           /\ \A k \in Keys : key_hw'[k] = IF k = KeyOf(op) THEN NoIdx ELSE key_hw[k]
  <2>1. \A k \in Keys : key_hw'[k] # NoIdx => fw_keys[key_hw'[k]] = k
    BY <1>5 DEF KeyInv
  <2>2. ASSUME NEW i \in 1 .. Len(todo), todo[i].op.kind = "del_key"
        PROVE  Deletes(todo[i], fw_keys, key_hw', op')
    <3>1. Deletes(todo[i], fw_keys, key_hw, op)
      BY <2>2 DEF KeyInv
    <3>2. key_hw'[KeyOf(todo[i].op)] = NoIdx
      BY <1>5, <3>1 DEF Deletes
    <3> QED
      BY <3>1, <3>2 DEF Deletes
  <2> QED
    BY <1>1, <1>3, <2>1, <2>2 DEF KeyInv
<1>6. CASE /\ op.kind = "add_key" /\ todo = <<>>
           /\ \E v \in HwKeys :
                /\ fw_keys[v] = KeyOf(op)
                /\ \A k \in Keys : key_hw'[k] = IF k = KeyOf(op) THEN v ELSE key_hw[k]
  <2>1. \A k \in Keys : key_hw'[k] # NoIdx => fw_keys[key_hw'[k]] = k
    BY <1>6 DEF KeyInv
  <2>2. 1 .. Len(todo') = {}
    BY <1>1, <1>6
  <2> QED
    BY <1>1, <2>1, <2>2 DEF KeyInv
<1> QED
  BY <1>4, <1>5, <1>6, FinishKeys

(* What a request does to the firmware's keys. *)
LEMMA FwKeysExecute ==
  ASSUME TypeOK, ChanType, Execute
  PROVE  \/ UNCHANGED fw_keys /\ todo[1].op.kind # "del_key"
         \/ /\ todo[1].op.kind = "add_key"
            /\ \E h \in HwKeys :
                 /\ fw_keys[h] \in {<<>>, KeyOf(todo[1].op)}
                 /\ fw_keys' = [fw_keys EXCEPT ![h] = KeyOf(todo[1].op)]
         \/ /\ todo[1].op.kind = "del_key"
            /\ fw_keys' = [fw_keys EXCEPT ![todo[1].idx] = <<>>]
<1>1. Head(todo) = todo[1]
  BY ExecuteEffect, SeqTypes, TailFacts
<1>2. AddKey(todo[1]) \/ DelKey(todo[1]) \/ OtherRequest(todo[1])
  BY <1>1 DEF Execute
<1>3. CASE AddKey(todo[1])
  <2>1. todo[1].op.kind = "add_key"
    BY <1>3 DEF AddKey
  <2> QED
    BY <1>3, <2>1 DEF AddKey, KeyOf
<1>4. CASE DelKey(todo[1])
  BY <1>4 DEF DelKey
<1>5. CASE OtherRequest(todo[1])
  BY <1>5 DEF OtherRequest
<1> QED
  BY <1>2, <1>3, <1>4, <1>5

LEMMA KeyExecute ==
  ASSUME TypeOK, ChanType, KeyInv, Execute
  PROVE  KeyInv'
<1>1. /\ Len(todo) >= 1 /\ Len(todo') = Len(todo) - 1 /\ Len(todo) \in Nat
      /\ \A i \in 1 .. Len(todo') : todo'[i] = todo[i + 1]
      /\ UNCHANGED <<op, key_hw, undeleted>>
      /\ fw_keys \in [HwKeys -> {<<o.vif, o.key>> : o \in Ops} \cup {<<>>}]
      /\ \A k \in Keys : key_hw[k] # NoIdx => key_hw[k] \in HwKeys
  BY ExecuteEffect, SeqTypes DEF TypeOK
<1> SUFFICES ASSUME ~undeleted  PROVE KeyInv'
  BY <1>1 DEF KeyInv
<1>2. \A i \in 1 .. Len(todo') : i + 1 \in 1 .. Len(todo) /\ i + 1 # 1
  BY <1>1
<1>3. \A i, j \in 1 .. Len(todo') :
        todo'[i].op.kind = "del_key" /\ todo'[j].op.kind = "del_key" /\ i # j =>
          KeyOf(todo'[i].op) # KeyOf(todo'[j].op)
  <2> SUFFICES ASSUME NEW i \in 1 .. Len(todo'), NEW j \in 1 .. Len(todo'), i # j,
                      todo'[i].op.kind = "del_key", todo'[j].op.kind = "del_key"
               PROVE  KeyOf(todo'[i].op) # KeyOf(todo'[j].op)
    OBVIOUS
  <2>1. i + 1 # j + 1
    OBVIOUS
  <2> QED
    BY <1>1, <1>2, <2>1 DEF KeyInv
<1>4. \A k \in Keys : k # <<>>
  BY DEF Keys
<1>5. ASSUME \A h \in HwKeys : fw_keys[h] \in Keys => fw_keys'[h] = fw_keys[h]
      PROVE  KeyInv'
  <2>1. \A k \in Keys : key_hw[k] # NoIdx =>
          \/ fw_keys'[key_hw[k]] = k
          \/ op.kind = "del_key" /\ k = KeyOf(op)
    BY <1>1, <1>5 DEF KeyInv
  <2>2. ASSUME NEW i \in 1 .. Len(todo'), todo'[i].op.kind = "del_key"
        PROVE  Deletes(todo'[i], fw_keys', key_hw, op)
    <3>1. Deletes(todo[i + 1], fw_keys, key_hw, op)
      BY <1>1, <1>2, <2>2 DEF KeyInv
    <3> QED
      BY <1>1, <1>5, <3>1 DEF Deletes
  <2> QED
    BY <1>1, <1>3, <2>1, <2>2 DEF KeyInv
<1>6. CASE UNCHANGED fw_keys
  BY <1>5, <1>6
<1>7. CASE \E h \in HwKeys :
             /\ fw_keys[h] \in {<<>>, KeyOf(todo[1].op)}
             /\ fw_keys' = [fw_keys EXCEPT ![h] = KeyOf(todo[1].op)]
  BY <1>1, <1>4, <1>5, <1>7
<1>8. CASE /\ todo[1].op.kind = "del_key"
           /\ fw_keys' = [fw_keys EXCEPT ![todo[1].idx] = <<>>]
  <2>0. 1 \in 1 .. Len(todo)
    BY <1>1
  <2>1. Deletes(todo[1], fw_keys, key_hw, op)
    BY <1>8, <2>0 DEF KeyInv
  <2>2. \A h \in HwKeys : h # todo[1].idx => fw_keys'[h] = fw_keys[h]
    BY <1>1, <1>8
  <2>3. ASSUME NEW k \in Keys, key_hw[k] # NoIdx
        PROVE  fw_keys'[key_hw[k]] = k \/ (op.kind = "del_key" /\ k = KeyOf(op))
    <3>1. CASE fw_keys[key_hw[k]] = k
      <4>1. CASE key_hw[k] # todo[1].idx
        BY <1>1, <2>2, <2>3, <3>1, <4>1
      <4>2. CASE key_hw[k] = todo[1].idx
        <5>1. k = KeyOf(todo[1].op)
          BY <2>1, <3>1, <4>2 DEF Deletes
        <5>2. op = todo[1].op
          BY <2>1, <2>3, <5>1 DEF Deletes
        <5> QED
          BY <1>8, <5>1, <5>2
      <4> QED
        BY <4>1, <4>2
    <3>2. CASE op.kind = "del_key" /\ k = KeyOf(op)
      BY <3>2
    <3> QED
      BY <2>3, <3>1, <3>2 DEF KeyInv
  <2>4. ASSUME NEW i \in 1 .. Len(todo'), todo'[i].op.kind = "del_key"
        PROVE  Deletes(todo'[i], fw_keys', key_hw, op)
    <3>1. todo'[i] = todo[i + 1] /\ i + 1 \in 1 .. Len(todo) /\ i + 1 # 1
      BY <1>1, <1>2
    <3>2. Deletes(todo[i + 1], fw_keys, key_hw, op)
      BY <2>4, <3>1 DEF KeyInv
    <3>3. KeyOf(todo[i + 1].op) # KeyOf(todo[1].op)
      BY <1>8, <2>0, <2>4, <3>1 DEF KeyInv
    <3>4. todo[i + 1].idx # todo[1].idx
      BY <2>1, <3>2, <3>3 DEF Deletes
    <3> QED
      BY <2>2, <3>1, <3>2, <3>4 DEF Deletes
  <2> QED
    BY <1>1, <1>3, <2>3, <2>4 DEF KeyInv
<1> QED
  BY <1>6, <1>7, <1>8, FwKeysExecute

LEMMA KeyStep ==
  ASSUME TypeOK, ChanType, SlotInv, OrderInv, MatchInv, AnswerInv, KeyInv, [Next]_vars
  PROVE  KeyInv'
<1>1. ASSUME NEW o \in Ops, Send(o) \/ SendFails(o)  PROVE KeyInv'
  BY <1>1, KeySend
<1>2. CASE Execute
  BY <1>2, KeyExecute
<1>3. CASE TimeOut
  <2>1. /\ op' = NoOp /\ UNCHANGED <<todo, fw_keys, key_hw>>
        /\ undeleted' = (undeleted \/ op.kind = "del_key")
    BY <1>3 DEF TimeOut, chipVars, stateVars
  <2> SUFFICES ASSUME ~undeleted'  PROVE KeyInv'
    BY DEF KeyInv
  <2>2. ~undeleted /\ op.kind # "del_key"
    BY <2>1, Zenon
  <2>3. \A i \in 1 .. Len(todo) : todo[i].op.kind = "del_key" =>
          Deletes(todo[i], fw_keys, key_hw, op')
    BY <2>2, Forgotten DEF Deletes
  <2> QED
    BY <2>1, <2>2, <2>3 DEF KeyInv
<1>4. CASE Finish
  BY <1>4, KeyFinish
<1>5. ASSUME UNCHANGED <<op, todo, fw_keys, key_hw, undeleted>>  PROVE KeyInv'
  BY <1>5 DEF KeyInv
<1>6. CASE Lose \/ Poll
  BY <1>5, <1>6, TakeAir
<1>7. CASE Indicate
  BY <1>5, <1>7, IndicateEffect
<1>8. CASE Dispatch
  BY <1>5, <1>8, DispatchEffect
<1>9. ASSUME NEW o \in Ops, PushFails(o)  PROVE KeyInv'
  BY <1>5, <1>9 DEF PushFails, opVars, chipVars, stateVars
<1>10. ASSUME NEW m \in Macs, Unregister(m) \/ \E i \in StaIdxs : Register(m, i)
       PROVE  KeyInv'
  BY <1>5, <1>10 DEF Unregister, Register, opVars, chipVars
<1>11. CASE UNCHANGED vars
  BY <1>5, <1>11 DEF vars, opVars, chipVars, stateVars, histVars
<1> QED
  BY <1>1, <1>2, <1>3, <1>4, <1>6, <1>7, <1>8, <1>9, <1>10, <1>11 DEF Next

-----------------------------------------------------------------------------
(* Stations *)

Entries == 0 .. TableLen - 1

(* A station that is told has one entry, with the index told; one that is not *)
(* has none.                                                                  *)
StaInv ==
  \A m \in Macs \ holed :
    /\ told[m] = NoIdx => \A i \in Entries : ~Has(sta_table, m, i)
    /\ told[m] # NoIdx => \E i \in Entries :
         /\ Has(sta_table, m, i) /\ sta_table[i].sta_idx = told[m]
         /\ \A j \in Entries : Has(sta_table, m, j) => j = i

(* The entry register_sta_from_connect_ind writes. *)
LEMMA SlotForFacts ==
  ASSUME TypeOK, NEW m
  PROVE  \/ SlotFor(m) = -1
         \/ /\ SlotFor(m) \in Entries
            /\ ~sta_table[SlotFor(m)].used \/ sta_table[SlotFor(m)].mac = m
            /\ \A i \in Entries : Has(sta_table, m, i) => SlotFor(m) <= i
<1> DEFINE found == {i \in DOMAIN sta_table : ~sta_table[i].used \/ sta_table[i].mac = m}
<1>1. DOMAIN sta_table = Entries
  BY DEF TypeOK, Entries
<1>2. SlotFor(m) = FirstEntry(found)
  BY DEF SlotFor
<1>3. found \subseteq 0 .. TableLen - 1
  BY <1>1 DEF Entries
<1>4. /\ \A i \in found : ~sta_table[i].used \/ sta_table[i].mac = m
      /\ \A i \in Entries : Has(sta_table, m, i) => i \in found
  BY <1>1 DEF Has
<1> HIDE DEF found
<1>5. CASE found = {}
  BY <1>2, <1>3, <1>5, EntryFound
<1>6. CASE found # {}
  <2>1. /\ FirstEntry(found) \in found /\ FirstEntry(found) \in 0 .. TableLen - 1
        /\ \A i \in found : FirstEntry(found) <= i
    BY <1>3, <1>6, EntryFound
  <2>2. /\ SlotFor(m) \in found /\ SlotFor(m) \in Entries
        /\ \A i \in found : SlotFor(m) <= i
    BY <1>2, <2>1 DEF Entries
  <2> QED
    BY <1>4, <2>2
<1> QED
  BY <1>5, <1>6

(* A write of entry e that neither makes nor overwrites an entry of m. *)
LEMMA StaKept ==
  ASSUME TypeOK, NEW m \in Macs, NEW e \in Entries,
         \A i \in Entries \ {e} : sta_table'[i] = sta_table[i],
         ~Has(sta_table, m, e), ~Has(sta_table', m, e), told'[m] = told[m],
         /\ told[m] = NoIdx => \A i \in Entries : ~Has(sta_table, m, i)
         /\ told[m] # NoIdx => \E i \in Entries :
              /\ Has(sta_table, m, i) /\ sta_table[i].sta_idx = told[m]
              /\ \A j \in Entries : Has(sta_table, m, j) => j = i
  PROVE  /\ told'[m] = NoIdx => \A i \in Entries : ~Has(sta_table', m, i)
         /\ told'[m] # NoIdx => \E i \in Entries :
              /\ Has(sta_table', m, i) /\ sta_table'[i].sta_idx = told'[m]
              /\ \A j \in Entries : Has(sta_table', m, j) => j = i
<1>1. \A i \in Entries : i # e => (Has(sta_table', m, i) <=> Has(sta_table, m, i))
  BY DEF Has
<1>2. \A i \in Entries : Has(sta_table', m, i) <=> Has(sta_table, m, i)
  BY <1>1
<1>3. \A i \in Entries : Has(sta_table, m, i) => sta_table'[i] = sta_table[i]
  OBVIOUS
<1> QED
  BY <1>2, <1>3

LEMMA StaRegister ==
  ASSUME TypeOK, ChanType, StaInv, NEW m \in Macs, NEW x \in StaIdxs, Register(m, x)
  PROVE  StaInv' /\ sta_table' \in [Entries -> StaEntry]
<1> DEFINE s == SlotFor(m)
<1> DEFINE r == [mac |-> m, sta_idx |-> x, used |-> TRUE]
<1>1. /\ sta_table' = IF s = -1 THEN sta_table ELSE [sta_table EXCEPT ![s] = r]
      /\ holed' = IF s = -1 \/ s < EntryOf(m) THEN holed \cup {m} ELSE holed
      /\ told' = [told EXCEPT ![m] = x]
  BY DEF Register
<1>2. r \in StaEntry /\ r.mac = m /\ r.sta_idx = x /\ r.used
  BY DEF StaEntry
<1>t. sta_table \in [Entries -> StaEntry] /\ told \in [Macs -> StaIdxs \cup {NoIdx}]
  BY DEF TypeOK, ChanType, Entries, StaEntry
<1>3. told'[m] = x /\ x # NoIdx /\ \A n \in Macs : n # m => told'[n] = told[n]
  BY <1>1, <1>t, Sizes DEF NoIdx
<1> HIDE DEF s, r
<1>4. CASE s = -1
  <2>1. sta_table' = sta_table /\ holed' = holed \cup {m}
    BY <1>1, <1>4
  <2>2. StaInv'
    BY <1>3, <2>1 DEF StaInv, Has
  <2> QED
    BY <1>t, <2>1, <2>2
<1>5. CASE s # -1
  <2>1. /\ s \in Entries /\ (~sta_table[s].used \/ sta_table[s].mac = m)
        /\ \A i \in Entries : Has(sta_table, m, i) => s <= i
    BY <1>5, SlotForFacts DEF s
  <2>2. sta_table' = [sta_table EXCEPT ![s] = r]
    BY <1>1, <1>5
  <2>3. /\ sta_table' \in [Entries -> StaEntry] /\ sta_table'[s] = r
        /\ \A i \in Entries \ {s} : sta_table'[i] = sta_table[i]
    BY <1>2, <1>t, <2>1, <2>2
  <2>4. holed \subseteq holed' /\ (s < EntryOf(m) => m \in holed')
    BY <1>1
  <2>5. ASSUME NEW n \in Macs \ holed'
        PROVE  /\ told'[n] = NoIdx => \A i \in Entries : ~Has(sta_table', n, i)
               /\ told'[n] # NoIdx => \E i \in Entries :
                    /\ Has(sta_table', n, i) /\ sta_table'[i].sta_idx = told'[n]
                    /\ \A j \in Entries : Has(sta_table', n, j) => j = i
    <3>0. n \in Macs \ holed
      BY <2>4
    <3>1. CASE n # m
      <4>1. ~Has(sta_table, n, s) /\ ~Has(sta_table', n, s)
        BY <1>2, <2>1, <2>3, <3>1 DEF Has
      <4>2. /\ told[n] = NoIdx => \A i \in Entries : ~Has(sta_table, n, i)
            /\ told[n] # NoIdx => \E i \in Entries :
                 /\ Has(sta_table, n, i) /\ sta_table[i].sta_idx = told[n]
                 /\ \A j \in Entries : Has(sta_table, n, j) => j = i
        BY <3>0 DEF StaInv
      <4> QED
        BY <1>3, <2>1, <2>3, <3>1, <4>1, <4>2, StaKept
    <3>2. CASE n = m
      <4>1. ~(s < EntryOf(m))
        BY <2>4, <3>2
      <4>2. \A i \in Entries : Has(sta_table, m, i) => i = s
        <5>1. CASE EntryOf(m) = -1
          BY <5>1, Lookup DEF Entries
        <5>2. CASE EntryOf(m) # -1
          <6>1. EntryOf(m) \in Entries /\ Has(sta_table, m, EntryOf(m))
            BY <5>2, Lookup DEF Entries
          <6>2. EntryOf(m) = s
            BY <2>1, <4>1, <6>1 DEF Entries
          <6>3. told[m] # NoIdx
            BY <3>0, <3>2, <6>1 DEF StaInv
          <6>4. PICK i \in Entries : \A j \in Entries : Has(sta_table, m, j) => j = i
            BY <3>0, <3>2, <6>3 DEF StaInv
          <6> QED
            BY <2>1, <6>1, <6>2, <6>4
        <5> QED
          BY <5>1, <5>2
      <4>3. Has(sta_table', m, s) /\ sta_table'[s].sta_idx = told'[m]
        BY <1>2, <1>3, <2>3 DEF Has
      <4>4. \A j \in Entries : Has(sta_table', m, j) => j = s
        BY <2>3, <4>2 DEF Has
      <4> QED
        BY <1>3, <2>1, <3>2, <4>3, <4>4
    <3> QED
      BY <3>1, <3>2
  <2> QED
    BY <2>3, <2>5 DEF StaInv
<1> QED
  BY <1>4, <1>5

LEMMA StaUnregister ==
  ASSUME TypeOK, ChanType, StaInv, NEW m \in Macs, Unregister(m)
  PROVE  StaInv' /\ sta_table' \in [Entries -> StaEntry]
<1> DEFINE e == EntryOf(m)
<1>1. /\ sta_table' = [sta_table EXCEPT ![e].used = FALSE] /\ holed' = holed
      /\ told' = [told EXCEPT ![m] = NoIdx] /\ LookupStaIdx(m) # NoIdx
  BY DEF Unregister
<1>t. sta_table \in [Entries -> StaEntry] /\ told \in [Macs -> StaIdxs \cup {NoIdx}]
  BY DEF TypeOK, ChanType, Entries, StaEntry
<1>2. e \in Entries /\ Has(sta_table, m, e)
  BY <1>1, Lookup DEF Entries
<1>3. told'[m] = NoIdx /\ \A n \in Macs : n # m => told'[n] = told[n]
  BY <1>1, <1>t
<1> HIDE DEF e
<1>4. sta_table[e] \in StaEntry
  BY <1>2, <1>t
<1> DEFINE r == [sta_table[e] EXCEPT !.used = FALSE]
<1>5. r \in StaEntry /\ ~r.used
  BY <1>4 DEF StaEntry
<1>6. sta_table' = [sta_table EXCEPT ![e] = r]
  BY <1>1, <1>2, <1>t
<1> HIDE DEF r
<1>7. /\ sta_table' \in [Entries -> StaEntry] /\ sta_table'[e] = r
      /\ \A i \in Entries \ {e} : sta_table'[i] = sta_table[i]
  BY <1>2, <1>5, <1>6, <1>t
<1>8. ASSUME NEW n \in Macs \ holed'
      PROVE  /\ told'[n] = NoIdx => \A i \in Entries : ~Has(sta_table', n, i)
             /\ told'[n] # NoIdx => \E i \in Entries :
                  /\ Has(sta_table', n, i) /\ sta_table'[i].sta_idx = told'[n]
                  /\ \A j \in Entries : Has(sta_table', n, j) => j = i
  <2>0. n \in Macs \ holed
    BY <1>1
  <2>1. /\ told[n] = NoIdx => \A i \in Entries : ~Has(sta_table, n, i)
        /\ told[n] # NoIdx => \E i \in Entries :
             /\ Has(sta_table, n, i) /\ sta_table[i].sta_idx = told[n]
             /\ \A j \in Entries : Has(sta_table, n, j) => j = i
    BY <2>0 DEF StaInv
  <2>2. ~Has(sta_table', n, e)
    BY <1>5, <1>7 DEF Has
  <2>3. CASE n # m
    <3>1. ~Has(sta_table, n, e)
      BY <1>2, <2>3 DEF Has
    <3> QED
      BY <1>2, <1>3, <1>7, <2>1, <2>2, <2>3, <3>1, StaKept
  <2>4. CASE n = m
    <3>1. \A i \in Entries : Has(sta_table, m, i) => i = e
      BY <1>2, <2>1, <2>4
    <3>2. \A i \in Entries : ~Has(sta_table', m, i)
      BY <1>7, <2>2, <2>4, <3>1 DEF Has
    <3> QED
      BY <1>3, <2>4, <3>2
  <2> QED
    BY <2>3, <2>4
<1> QED
  BY <1>7, <1>8 DEF StaInv

LEMMA StaFinish ==
  ASSUME TypeOK, ChanType, SlotInv, OrderInv, MatchInv, AnswerInv, StaInv, Finish
  PROVE  /\ StaInv' /\ sta_table' \in [Entries -> StaEntry]
         /\ holed' \subseteq Macs
<1> DEFINE c == TakenCfm
<1>t. sta_table \in [Entries -> StaEntry] /\ holed \subseteq Macs
  BY DEF TypeOK, ChanType, Entries, StaEntry
<1>0. op \in Ops /\ op # NoOp /\ c \in CfmAnswer /\ UNCHANGED told
  BY FinishEffect, OwnCfm DEF TypeOK
<1>1. ASSUME UNCHANGED <<sta_table, holed>>
      PROVE  StaInv' /\ sta_table' \in [Entries -> StaEntry] /\ holed' \subseteq Macs
  BY <1>0, <1>1, <1>t DEF StaInv, Has
<1>2. CASE Answer(op, c) # 0 \/ op.kind # "start_ap"
  <2>1. UNCHANGED <<sta_table, holed>>
    BY <1>2, FinishRemembers DEF Remember
  <2> QED
    BY <1>1, <2>1
<1>3. CASE Answer(op, c) = 0 /\ op.kind = "start_ap"
  <2> DEFINE v == Value(c)
  <2>1. v \in StaIdxs \cup {0} /\ v \in Nat
    <3>1. todo = <<>> /\ (c = answers[cmds] \/ c = NoAnswer)
      BY <1>3, OwnCfm
    <3>2. answers[cmds].val \in StaIdxs \cup {0}
      BY <1>0, <1>3, <3>1 DEF AnswerInv
    <3> QED
      <4>1. CASE c = NoAnswer
        BY <4>1 DEF Value, NoAnswer
      <4>2. CASE c = answers[cmds]
        <5>1. v = 0 \/ v = answers[cmds].val
          BY <4>2 DEF Value
        <5>2. StaIdxs \subseteq Nat
          BY Sizes
        <5> HIDE DEF v
        <5>3. CASE v = 0
          BY <5>3
        <5>4. CASE v = answers[cmds].val
          <6>1. v \in StaIdxs \/ v = 0
            BY <3>2, <5>4
          <6>2. CASE v \in StaIdxs
            BY <5>2, <6>2
          <6> QED
            BY <5>3, <6>1, <6>2
        <5> QED
          BY <5>1, <5>3, <5>4
      <4> QED
        BY <3>1, <4>1, <4>2
  <2>2. /\ sta_table' = EnterBcast(v)
        /\ holed' = IF v < TableLen THEN holed \cup ({sta_table[v].mac} \cap Macs) ELSE holed
    BY <1>3, FinishRemembers DEF Remember
  <2> HIDE DEF v
  <2>3. CASE v \notin Entries
    <3>1. sta_table' = sta_table
      BY <1>t, <2>2, <2>3 DEF EnterBcast
    <3>2. ~(v < TableLen)
      BY <2>1, <2>3, Sizes DEF Entries
    <3> QED
      BY <1>1, <2>2, <3>1, <3>2
  <2>4. CASE v \in Entries
    <3> DEFINE r == [mac |-> Bcast, sta_idx |-> v, used |-> TRUE]
    <3>1. r \in StaEntry /\ r.mac = Bcast
      BY <2>1 DEF StaEntry
    <3>2. sta_table' = [sta_table EXCEPT ![v] = r]
      BY <1>t, <2>2, <2>4 DEF EnterBcast
    <3> HIDE DEF r
    <3>3. /\ sta_table' \in [Entries -> StaEntry] /\ sta_table'[v] = r
          /\ \A i \in Entries \ {v} : sta_table'[i] = sta_table[i]
      BY <1>t, <2>4, <3>1, <3>2
    <3>4. holed' = holed \cup ({sta_table[v].mac} \cap Macs)
      BY <2>1, <2>2, <2>4, Sizes DEF Entries
    <3>5. ASSUME NEW n \in Macs \ holed'
          PROVE  /\ told'[n] = NoIdx => \A i \in Entries : ~Has(sta_table', n, i)
                 /\ told'[n] # NoIdx => \E i \in Entries :
                      /\ Has(sta_table', n, i) /\ sta_table'[i].sta_idx = told'[n]
                      /\ \A j \in Entries : Has(sta_table', n, j) => j = i
      <4>1. ~Has(sta_table, n, v) /\ ~Has(sta_table', n, v)
        BY <3>1, <3>3, <3>4, Sizes DEF Has
      <4>2. n \in Macs \ holed
        BY <3>4
      <4>3. /\ told[n] = NoIdx => \A i \in Entries : ~Has(sta_table, n, i)
            /\ told[n] # NoIdx => \E i \in Entries :
                 /\ Has(sta_table, n, i) /\ sta_table[i].sta_idx = told[n]
                 /\ \A j \in Entries : Has(sta_table, n, j) => j = i
        BY <4>2 DEF StaInv
      <4> QED
        BY <1>0, <2>4, <3>3, <4>1, <4>2, <4>3, StaKept
    <3> QED
      BY <1>t, <3>3, <3>4, <3>5 DEF StaInv
  <2> QED
    BY <2>3, <2>4
<1> QED
  BY <1>2, <1>3

LEMMA StaStep ==
  ASSUME TypeOK, ChanType, SlotInv, OrderInv, MatchInv, AnswerInv, StaInv, [Next]_vars
  PROVE  /\ StaInv' /\ sta_table' \in [Entries -> StaEntry] /\ holed' \subseteq Macs
         /\ told' \in [Macs -> StaIdxs \cup {NoIdx}]
<1>t. /\ sta_table \in [Entries -> StaEntry] /\ holed \subseteq Macs
      /\ told \in [Macs -> StaIdxs \cup {NoIdx}]
  BY DEF TypeOK, ChanType, Entries, StaEntry
<1> DEFINE P == /\ StaInv' /\ sta_table' \in [Entries -> StaEntry] /\ holed' \subseteq Macs
                /\ told' \in [Macs -> StaIdxs \cup {NoIdx}]
<1> SUFFICES P
  OBVIOUS
<1>1. ASSUME UNCHANGED <<sta_table, holed, told>>  PROVE P
  BY <1>1, <1>t DEF StaInv, Has
<1>2. ASSUME NEW o \in Ops, Send(o) \/ SendFails(o)  PROVE P
  BY <1>1, <1>2, SendEffect
<1>3. CASE Execute
  BY <1>1, <1>3, ExecuteEffect
<1>4. CASE Finish
  <2>1. StaInv' /\ sta_table' \in [Entries -> StaEntry] /\ holed' \subseteq Macs
    BY <1>4, StaFinish
  <2> QED
    BY <1>4, <1>t, <2>1, FinishEffect
<1>5. ASSUME NEW m \in Macs, NEW i \in StaIdxs, Register(m, i)  PROVE P
  <2>1. StaInv' /\ sta_table' \in [Entries -> StaEntry]
    BY <1>5, StaRegister
  <2>2. told' = [told EXCEPT ![m] = i] /\ (holed' = holed \cup {m} \/ holed' = holed)
    BY <1>5 DEF Register
  <2> QED
    BY <1>t, <2>1, <2>2
<1>6. ASSUME NEW m \in Macs, Unregister(m)  PROVE P
  <2>1. StaInv' /\ sta_table' \in [Entries -> StaEntry]
    BY <1>6, StaUnregister
  <2>2. told' = [told EXCEPT ![m] = NoIdx] /\ holed' = holed
    BY <1>6 DEF Unregister
  <2> QED
    BY <1>t, <2>1, <2>2
<1>7. CASE TimeOut
  BY <1>1, <1>7 DEF TimeOut, stateVars
<1>8. CASE Lose \/ Poll
  BY <1>1, <1>8, TakeAir
<1>9. CASE Indicate
  BY <1>1, <1>9, IndicateEffect
<1>10. CASE Dispatch
  BY <1>1, <1>10, DispatchEffect
<1>11. ASSUME NEW o \in Ops, PushFails(o)  PROVE P
  BY <1>1, <1>11 DEF PushFails, stateVars
<1>12. CASE UNCHANGED vars
  BY <1>1, <1>12 DEF vars, stateVars, histVars
<1> HIDE DEF P
<1> QED
  BY <1>2, <1>3, <1>4, <1>5, <1>6, <1>7, <1>8, <1>9, <1>10, <1>11, <1>12 DEF Next

-----------------------------------------------------------------------------
(* Types *)

LEMMA ChanStep ==
  ASSUME TypeOK, ChanType, SlotInv, OrderInv, MatchInv, AnswerInv, StaInv, [Next]_vars
  PROVE  ChanType'
<1>0. told' \in [Macs -> StaIdxs \cup {NoIdx}] /\ holed' \subseteq Macs
  BY StaStep
<1> DEFINE Chan == /\ todo' \in Seq(Request)
                   /\ air' \in Seq(Message)
                   /\ rx' = <<>> \/ (rx' \in Seq(Message) /\ Len(rx') = 1)
                   /\ answers' \in [1 .. MaxCmds -> CfmAnswer]
                   /\ cmds' \in 0 .. MaxCmds
<1>t. /\ todo \in Seq(Request) /\ air \in Seq(Message)
      /\ rx = <<>> \/ (rx \in Seq(Message) /\ Len(rx) = 1)
      /\ answers \in [1 .. MaxCmds -> CfmAnswer]
      /\ cmds \in 0 .. MaxCmds
  BY DEF ChanType
<1> SUFFICES Chan
  BY <1>0 DEF ChanType
<1>1. ASSUME UNCHANGED <<todo, air, rx, answers, cmds>>  PROVE Chan
  BY <1>1, <1>t
<1>2. ASSUME NEW o \in Ops, Send(o) \/ SendFails(o)  PROVE Chan
  <2>1. /\ Begin(o) /\ cmds' = cmds + 1 /\ UNCHANGED <<air, rx, answers>>
        /\ todo' = Append(todo, NewRequest(o)) \/ todo' = todo
        /\ NewRequest(o) \in Request
    BY <1>2, SendEffect
  <2>2. cmds' \in 0 .. MaxCmds
    <3>1. cmds < MaxCmds /\ cmds' = cmds + 1
      BY <2>1 DEF Begin
    <3>2. MaxCmds \in Nat
      BY Sizes
    <3> QED
      BY <1>t, <3>1, <3>2
  <2>3. todo' \in Seq(Request)
    BY <1>t, <2>1, AppendFacts, SMTT(30)
  <2> QED
    BY <1>t, <2>1, <2>2, <2>3
<1>3. CASE Execute
  BY <1>3, <1>t, ExecuteEffect, AnswersExecute
<1>4. CASE Finish
  <2>1. UNCHANGED <<todo, air, rx, cmds>>
    BY <1>4, FinishEffect
  <2>2. answers' = [k \in DOMAIN answers |->
                      IF k = slots[token].cfm THEN NoAnswer ELSE answers[k]]
    BY <1>4, FinishRemembers
  <2>3. NoAnswer \in CfmAnswer
    BY DEF NoAnswer, CfmAnswer
  <2>4. answers' \in [1 .. MaxCmds -> CfmAnswer]
    BY <1>t, <2>2, <2>3
  <2> QED
    BY <1>t, <2>1, <2>4
<1>5. CASE TimeOut
  BY <1>1, <1>5 DEF TimeOut, chipVars, countVars
<1>6. CASE Lose
  BY <1>6, <1>t, TakeAir DEF Lose
<1>7. CASE Poll
  <2>1. /\ air' \in Seq(Message) /\ air[1] \in Message /\ Head(air) = air[1]
        /\ UNCHANGED <<todo, answers, cmds>>
    BY <1>7, TakeAir
  <2>2. rx' = <<air[1]>>
    BY <1>7, <2>1 DEF Poll
  <2>3. rx' \in Seq(Message) /\ Len(rx') = 1
    BY <2>1, <2>2
  <2> QED
    BY <1>t, <2>1, <2>3
<1>8. CASE Indicate
  BY <1>8, <1>t, IndicateEffect
<1>9. CASE Dispatch
  BY <1>9, <1>t, DispatchEffect
<1>10. ASSUME NEW o \in Ops, PushFails(o)  PROVE Chan
  BY <1>1, <1>10 DEF PushFails, chipVars, countVars
<1>11. ASSUME NEW m \in Macs, Unregister(m) \/ \E i \in StaIdxs : Register(m, i)
       PROVE  Chan
  BY <1>1, <1>11 DEF Unregister, Register, chipVars
<1>12. CASE UNCHANGED vars
  BY <1>1, <1>12 DEF vars, chipVars, countVars
<1> HIDE DEF Chan
<1> QED
  BY <1>2, <1>3, <1>4, <1>5, <1>6, <1>7, <1>8, <1>9, <1>10, <1>11, <1>12 DEF Next

(* set_tx_power's conversion stays an i8. *)
LEMMA PowerRange ==
  ASSUME NEW p \in Int
  PROVE  PowerDbm(p) \in -128 .. 127
<1> DEFINE dbm == IF p < 0 THEN -((-p) \div 100) ELSE p \div 100
<1>1. dbm \in Int
  OBVIOUS
<1>2. PowerDbm(p) = IF p >= 12700 THEN 127 ELSE ((dbm + 128) % 256) - 128
  BY DEF PowerDbm
<1> HIDE DEF dbm
<1>3. (dbm + 128) % 256 \in 0 .. 255
  BY <1>1
<1> QED
  BY <1>2, <1>3

(* The channels and powers a call leaves. *)
LEMMA FinishTypes ==
  ASSUME TypeOK, ChanType, SlotInv, OrderInv, MatchInv, Finish
  PROVE  /\ channel' \in [VifRange -> {o.arg : o \in Ops} \cup {NoIdx}]
         /\ tx_power' \in [VifRange -> (-128 .. 127) \cup {NoPower}]
<1>t. /\ channel \in [VifRange -> {o.arg : o \in Ops} \cup {NoIdx}]
      /\ tx_power \in [VifRange -> (-128 .. 127) \cup {NoPower}]
  BY DEF TypeOK
<1>0. op \in Ops /\ op.arg \in Int
  BY FinishEffect, OpFacts DEF TypeOK
<1>1. CASE Answer(op, TakenCfm) # 0
  BY <1>1, <1>t, FinishRemembers
<1>2. CASE Answer(op, TakenCfm) = 0
  <2>1. /\ channel' = channel \/ channel' = [channel EXCEPT ![op.vif] = op.arg]
        /\ tx_power' = tx_power \/ tx_power' = [tx_power EXCEPT ![op.vif] = PowerDbm(op.arg)]
    BY <1>2, FinishRemembers DEF Remember
  <2>2. channel' \in [VifRange -> {o.arg : o \in Ops} \cup {NoIdx}]
    BY <1>0, <1>t, <2>1
  <2>3. PowerDbm(op.arg) \in (-128 .. 127) \cup {NoPower}
    BY <1>0, PowerRange
  <2>4. tx_power' \in [VifRange -> (-128 .. 127) \cup {NoPower}]
    BY <1>t, <2>1, <2>3
  <2> QED
    BY <2>2, <2>4
<1> QED
  BY <1>1, <1>2

LEMMA TypeStep ==
  ASSUME TypeOK, ChanType, SlotInv, OrderInv, MatchInv, AnswerInv, StaInv, [Next]_vars
  PROVE  TypeOK'
<1>0. sta_table' \in [0 .. TableLen - 1 ->
        [mac: Macs \cup {Bcast, None}, sta_idx: StaIdxs \cup {0}, used: BOOLEAN]]
  BY StaStep DEF Entries, StaEntry
<1> DEFINE T == /\ op' \in Ops \cup {NoOp}
                /\ key_hw' \in [Keys -> HwKeys \cup {NoIdx}]
                /\ channel' \in [VifRange -> {o.arg : o \in Ops} \cup {NoIdx}]
                /\ tx_power' \in [VifRange -> (-128 .. 127) \cup {NoPower}]
                /\ token' \in Slot
                /\ MgrTypeOK' /\ queue_sz' <= MaxPending
                /\ fw_keys' \in [HwKeys -> {<<o.vif, o.key>> : o \in Ops} \cup {<<>>}]
<1>t. /\ op \in Ops \cup {NoOp}
      /\ key_hw \in [Keys -> HwKeys \cup {NoIdx}]
      /\ channel \in [VifRange -> {o.arg : o \in Ops} \cup {NoIdx}]
      /\ tx_power \in [VifRange -> (-128 .. 127) \cup {NoPower}]
      /\ token \in Slot /\ 0 \in Slot
      /\ MgrTypeOK /\ queue_sz <= MaxPending
      /\ fw_keys \in [HwKeys -> {<<o.vif, o.key>> : o \in Ops} \cup {<<>>}]
  BY Sizes DEF TypeOK, Slot
<1> SUFFICES T
  BY <1>0 DEF TypeOK
<1>m. ASSUME UNCHANGED <<up, slots, queue_sz>>
      PROVE  MgrTypeOK' /\ queue_sz' <= MaxPending
  BY <1>m, <1>t DEF MgrTypeOK
<1>1. ASSUME UNCHANGED <<up, slots, queue_sz, op, token, key_hw, channel, tx_power, fw_keys>>
      PROVE  T
  BY <1>1, <1>m, <1>t
<1>2. ASSUME NEW o \in Ops, Send(o) \/ SendFails(o)  PROVE T
  <2>1. /\ Begin(o)
        /\ op' = NoOp \/ (op' = o /\ token' = PushSlot)
        /\ UNCHANGED <<fw_keys, key_hw, channel, tx_power>>
    BY <1>2, SendEffect
  <2>2. MgrTypeOK' /\ queue_sz' <= MaxPending /\ PushSlot \in Slot
    BY <2>1, BeginEffect
  <2>3. op' \in Ops \cup {NoOp} /\ token' \in Slot
    BY <1>2, <1>t, <2>2 DEF Send, SendFails, opVars
  <2> QED
    BY <1>t, <2>1, <2>2, <2>3
<1>3. CASE Execute
  <2>1. UNCHANGED <<up, slots, queue_sz, op, token, key_hw, channel, tx_power>>
    BY <1>3, ExecuteEffect
  <2>2. fw_keys' \in [HwKeys -> {<<o.vif, o.key>> : o \in Ops} \cup {<<>>}]
    BY <1>3, AnswersExecute
  <2> QED
    BY <1>m, <1>t, <2>1, <2>2
<1>4. CASE Finish
  <2>1. /\ op' = NoOp /\ token' = 0 /\ MgrTypeOK' /\ queue_sz' = queue_sz
        /\ UNCHANGED fw_keys
    BY <1>4, FinishEffect
  <2>2. key_hw' \in [Keys -> HwKeys \cup {NoIdx}]
    BY <1>4, FinishKeys
  <2>3. /\ channel' \in [VifRange -> {o.arg : o \in Ops} \cup {NoIdx}]
        /\ tx_power' \in [VifRange -> (-128 .. 127) \cup {NoPower}]
    BY <1>4, FinishTypes
  <2> QED
    BY <1>t, <2>1, <2>2, <2>3
<1>5. CASE TimeOut
  <2>1. op' = NoOp /\ token' = 0
        /\ UNCHANGED <<up, slots, queue_sz, key_hw, channel, tx_power, fw_keys>>
    BY <1>5 DEF TimeOut, mgr, chipVars, stateVars
  <2> QED
    BY <1>m, <1>t, <2>1
<1>6. CASE Lose \/ Poll
  BY <1>1, <1>6, TakeAir
<1>7. CASE Indicate
  BY <1>1, <1>7, IndicateEffect
<1>8. CASE Dispatch
  <2>1. /\ MgrTypeOK' /\ queue_sz' <= MaxPending
        /\ UNCHANGED <<op, token, key_hw, channel, tx_power, fw_keys>>
    BY <1>8, DispatchEffect
  <2> QED
    BY <1>t, <2>1
<1>9. ASSUME NEW o \in Ops, PushFails(o)  PROVE T
  BY <1>1, <1>9 DEF PushFails, mgr, opVars, chipVars, stateVars
<1>10. ASSUME NEW m \in Macs, Unregister(m) \/ \E i \in StaIdxs : Register(m, i)
       PROVE  T
  BY <1>1, <1>10 DEF Unregister, Register, mgr, opVars, chipVars
<1>11. CASE UNCHANGED vars
  BY <1>1, <1>11 DEF vars, mgr, opVars, chipVars, stateVars
<1> HIDE DEF T
<1> QED
  BY <1>2, <1>3, <1>4, <1>5, <1>6, <1>7, <1>8, <1>9, <1>10, <1>11 DEF Next

-----------------------------------------------------------------------------
(* The inductive invariant *)

IInv == TypeOK /\ ChanType /\ SlotInv /\ OrderInv /\ MatchInv /\ AnswerInv
          /\ KeyInv /\ StaInv /\ ReportsTruth

LEMMA TruthStep ==
  ASSUME TypeOK, ChanType, SlotInv, OrderInv, MatchInv, ReportsTruth, [Next]_vars
  PROVE  ReportsTruth'
<1>1. CASE Finish
  <2>1. last' = [kind |-> op.kind, res |-> Answer(op, TakenCfm),
                 mine |-> slots[token].cfm = slots[token].serial]
    BY <1>1, FinishRemembers
  <2>2. last'.kind = op.kind /\ (last'.mine <=> slots[token].cfm = slots[token].serial)
    BY <2>1
  <2>3. op.kind # "del_key" => slots[token].cfm = slots[token].serial
    BY <1>1, OwnCfm
  <2> QED
    BY <2>2, <2>3 DEF ReportsTruth
<1>2. CASE last' = last
  BY <1>2 DEF ReportsTruth
<1>3. CASE last' = NoLast
  BY <1>3 DEF ReportsTruth, NoLast
<1>4. CASE last' = [NoLast EXCEPT !.res = -12]
  BY <1>4 DEF ReportsTruth, NoLast
<1>5. Finish \/ last' = last \/ last' = NoLast \/ last' = [NoLast EXCEPT !.res = -12]
  BY DEF Next, Send, SendFails, PushFails, TimeOut, Unregister, Register, Execute, Lose,
     Indicate, Poll, Dispatch, vars, histVars
<1> QED
  BY <1>1, <1>2, <1>3, <1>4, <1>5

LEMMA InvInit ==
  ASSUME Init
  PROVE  IInv
<1>1. TypeOK
  <2>1. /\ key_hw \in [Keys -> HwKeys \cup {NoIdx}]
        /\ channel \in [VifRange -> {o.arg : o \in Ops} \cup {NoIdx}]
        /\ tx_power \in [VifRange -> (-128 .. 127) \cup {NoPower}]
        /\ op \in Ops \cup {NoOp}
        /\ fw_keys \in [HwKeys -> {<<o.vif, o.key>> : o \in Ops} \cup {<<>>}]
    BY DEF Init
  <2>2. MgrTypeOK /\ queue_sz <= MaxPending /\ token \in Slot
    BY Sizes DEF Init, MgrTypeOK, Slot
  <2>3. sta_table \in [0 .. TableLen - 1 -> StaEntry]
    BY DEF Init, StaEntry, Unused
  <2> QED
    BY <2>1, <2>2, <2>3 DEF TypeOK, StaEntry
<1>2. ChanType
  <2>1. NoAnswer \in CfmAnswer
    BY DEF NoAnswer, CfmAnswer
  <2>2. /\ answers \in [1 .. MaxCmds -> CfmAnswer] /\ cmds \in 0 .. MaxCmds
        /\ told \in [Macs -> StaIdxs \cup {NoIdx}] /\ holed \subseteq Macs
    BY <2>1, Sizes DEF Init
  <2>3. todo \in Seq(Request) /\ air \in Seq(Message) /\ rx = <<>>
    BY DEF Init
  <2> QED
    BY <2>2, <2>3 DEF ChanType
<1>3. \A s \in Slot : slots[s] = Free /\ slots[s].flags # "DONE"
  BY DEF Init, Free
<1>4. SlotInv
  BY <1>3 DEF Init, SlotInv
<1>5. todo = <<>> /\ air = <<>> /\ rx = <<>> /\ op = NoOp /\ Len(todo) = 0 /\ Len(air) = 0
  BY DEF Init
<1>6. OrderInv
  BY <1>3, <1>5 DEF OrderInv, TodoOrder, AirOrder, LastInv, RxInv, DoneInv
<1>7. MatchInv /\ AnswerInv
  BY <1>5 DEF MatchInv, AnswerInv
<1>8. KeyInv
  <2>1. \A k \in Keys : key_hw[k] = NoIdx
    BY DEF Init
  <2> QED
    BY <1>5, <2>1 DEF KeyInv
<1>9. StaInv
  <2>1. \A i \in Entries : ~sta_table[i].used
    BY DEF Init, Unused, Entries
  <2>2. \A m \in Macs : told[m] = NoIdx
    BY DEF Init
  <2> QED
    BY <2>1, <2>2 DEF StaInv, Has
<1>10. ReportsTruth
  BY DEF Init, NoLast, ReportsTruth
<1> QED
  BY <1>1, <1>2, <1>4, <1>6, <1>7, <1>8, <1>9, <1>10 DEF IInv

LEMMA InvStep ==
  ASSUME IInv, [Next]_vars
  PROVE  IInv'
<1>1. /\ TypeOK /\ ChanType /\ SlotInv /\ OrderInv /\ MatchInv /\ AnswerInv
      /\ KeyInv /\ StaInv /\ ReportsTruth
  BY DEF IInv
<1>2. SlotInv'
  BY <1>1, SlotStep
<1>3. OrderInv'
  BY <1>1, OrderStep
<1>4. MatchInv'
  BY <1>1, MatchStep
<1>5. AnswerInv'
  BY <1>1, AnswerStep
<1>6. KeyInv'
  BY <1>1, KeyStep
<1>7. StaInv'
  BY <1>1, StaStep
<1>8. ChanType' /\ TypeOK'
  BY <1>1, ChanStep, TypeStep
<1>9. ReportsTruth'
  BY <1>1, TruthStep
<1> QED
  BY <1>2, <1>3, <1>4, <1>5, <1>6, <1>7, <1>8, <1>9 DEF IInv

LEMMA Inductive == Spec => []IInv
  BY InvInit, InvStep, PTL DEF Spec

(* WiphyOpsImpl's tables hold indices of the firmware, channels and powers of *)
(* the operations, and the command table holds commands: on every path, late  *)
(* answers included.                                                          *)
THEOREM TypeCorrect == Spec => []TypeOK
<1>1. IInv => TypeOK
  BY DEF IInv
<1> QED
  BY <1>1, Inductive, PTL

(* An operation other than del_key that reports Ok was answered by the CFM of *)
(* its own request, whatever was lost, late or left over in the table.        *)
THEOREM OkIsOwnCfm == Spec => []ReportsTruth
<1>1. IInv => ReportsTruth
  BY DEF IInv
<1> QED
  BY <1>1, Inductive, PTL

(* Unless a delete went unconfirmed, every key WiphyOpsImpl remembers is the  *)
(* firmware's, or is the one being deleted.                                   *)
THEOREM KeysStayInStep == Spec => []KeysAgree
<1>1. IInv => KeysAgree
  BY DEF IInv, KeyInv, KeysAgree, KeyOf
<1> QED
  BY <1>1, Inductive, PTL

(* lookup_sta_idx returns what the application registered last, or nothing    *)
(* after it unregistered the station, for every station whose entry was not   *)
(* overwritten, refused or made twice.                                        *)
THEOREM LookupsTold == Spec => []StationsTold
<1>1. ASSUME TypeOK, StaInv  PROVE StationsTold
  <2> SUFFICES ASSUME NEW m \in Macs \ holed  PROVE LookupStaIdx(m) = told[m]
    BY DEF StationsTold
  <2>1. CASE told[m] = NoIdx
    <3>1. \A i \in 0 .. TableLen - 1 : ~Has(sta_table, m, i)
      BY <1>1, <2>1 DEF StaInv, Entries
    <3> QED
      BY <1>1, <2>1, <3>1, Lookup
  <2>2. CASE told[m] # NoIdx
    <3>1. PICK i \in Entries : /\ Has(sta_table, m, i) /\ sta_table[i].sta_idx = told[m]
                               /\ \A j \in Entries : Has(sta_table, m, j) => j = i
      BY <1>1, <2>2 DEF StaInv
    <3> QED
      BY <1>1, <3>1, Lookup DEF Entries
  <2> QED
    BY <2>1, <2>2
<1>2. IInv => StationsTold
  BY <1>1 DEF IInv
<1> QED
  BY <1>2, Inductive, PTL
=============================================================================
