-------------------------- MODULE CmdClientsProofs --------------------------
(***************************************************************************)
(* Proofs about CmdClients, for every table size, every set of clients and *)
(* every bound.                                                            *)
(***************************************************************************)
EXTENDS CmdClients, TLAPS, FiniteSetTheorems, WellFoundedInduction

(* A nonempty set of naturals has a least element and Min picks it: what     *)
(* the index-order scans of push and on_cfm rest on.                         *)
LEMMA MinMember ==
  ASSUME NEW S \in SUBSET Nat, S # {}
  PROVE  Min(S) \in S /\ \A y \in S : Min(S) <= y
<1> DEFINE R == {p \in Nat \X Nat : p[1] < p[2]}
<1>1. IsWellFoundedOn(R, Nat)
  BY NatLessThanWellFounded, Zenon DEF OpToRel
<1> HIDE DEF R
<1>2. PICK x \in S : \A y \in S : ~ (<<y, x>> \in R)
  BY <1>1, WFMin
<1>3. ASSUME NEW y \in S  PROVE x <= y
  <2>1. <<y, x>> \notin R
    BY <1>2
  <2> QED
    BY <2>1 DEF R
<1> QED
  BY <1>3 DEF Min

USE MaxPendingAssumption, BoundsAssumption, CfmIdsAssumption

(* push finds a free slot when CanPush holds. *)
LEMMA PushSlotFree ==
  ASSUME MgrTypeOK, CanPush
  PROVE  PushSlot \in Slot /\ slots[PushSlot] = Free
<1>1. FreeSlots \in SUBSET Nat /\ FreeSlots # {}
  BY DEF CanPush, FreeSlots, Slot
<1>2. PushSlot \in FreeSlots
  BY <1>1, MinMember DEF PushSlot
<1> QED
  BY <1>2 DEF FreeSlots

(* on_cfm completes a slot that waits for the id. *)
LEMMA CfmSlotWaits ==
  ASSUME NEW r, WaitingFor(r) # {}
  PROVE  /\ Min(WaitingFor(r)) \in Slot
         /\ slots[Min(WaitingFor(r))].flags = "WAIT_CFM"
         /\ slots[Min(WaitingFor(r))].reqid = r
<1>1. WaitingFor(r) \in SUBSET Nat
  BY DEF WaitingFor, Waiting, Slot
<1>2. Min(WaitingFor(r)) \in WaitingFor(r)
  BY <1>1, MinMember
<1> QED
  BY <1>2 DEF WaitingFor, Waiting

(* The waiting slots are finitely many: at most the table's size. *)
LEMMA WaitingFinite ==
  /\ IsFiniteSet(Waiting)
  /\ Cardinality(Waiting) \in Nat
  /\ Cardinality(Waiting) <= MaxPending
<1>1. IsFiniteSet(Slot) /\ Cardinality(Slot) = MaxPending
  BY FS_Interval DEF Slot
<1>2. Waiting \in SUBSET Slot
  BY DEF Waiting
<1>3. IsFiniteSet(Waiting) /\ Cardinality(Waiting) <= Cardinality(Slot)
  BY <1>1, <1>2, FS_Subset
<1> QED
  BY <1>1, <1>3, FS_CardinalityType

(* What push does to the table. *)
LEMMA PushEffect ==
  ASSUME MgrTypeOK, CanPush, NEW r \in CfmIds, NEW n \in Nat, PushCmd(r, n)
  PROVE  /\ MgrTypeOK'
         /\ Waiting' = Waiting \cup {PushSlot}
         /\ PushSlot \notin Waiting
         /\ slots'[PushSlot] =
              [flags |-> "WAIT_CFM", reqid |-> r, serial |-> n, cfm |-> 0]
         /\ \A s \in Slot \ {PushSlot} : slots'[s] = slots[s]
<1>1. PushSlot \in Slot /\ slots[PushSlot] = Free
  BY PushSlotFree
<1> DEFINE p == [flags |-> "WAIT_CFM", reqid |-> r, serial |-> n, cfm |-> 0]
<1>2. p \in PendingCmd
  BY DEF PendingCmd
<1>3. slots' = [slots EXCEPT ![PushSlot] = p] /\ up' = up /\ queue_sz' = queue_sz + 1
  BY DEF PushCmd
<1>4. MgrTypeOK'
  BY <1>1, <1>2, <1>3 DEF MgrTypeOK
<1>5. slots'[PushSlot] = p /\ \A s \in Slot \ {PushSlot} : slots'[s] = slots[s]
  BY <1>1, <1>3 DEF MgrTypeOK
<1>6. PushSlot \notin Waiting
  BY <1>1 DEF Waiting, Free
<1>7. Waiting' = Waiting \cup {PushSlot}
  BY <1>1, <1>5 DEF Waiting
<1> QED
  BY <1>4, <1>5, <1>6, <1>7

(* What on_cfm does to the table when a command waits for the id. *)
LEMMA CfmEffect ==
  ASSUME MgrTypeOK, NEW r \in CfmIds, NEW n \in Nat, OnCfm(r, n),
         WaitingFor(r) # {}
  PROVE  LET s == Min(WaitingFor(r))
         IN  /\ MgrTypeOK'
             /\ s \in Waiting
             /\ Waiting' = Waiting \ {s}
             /\ slots'[s] = Completed(slots[s], n)
             /\ slots'[s] \in PendingCmd
             /\ \A t \in Slot \ {s} : slots'[t] = slots[t]
<1> DEFINE s == Min(WaitingFor(r))
<1>1. s \in Slot /\ slots[s].flags = "WAIT_CFM" /\ slots[s].reqid = r
  BY CfmSlotWaits
<1>2. slots[s] \in PendingCmd
  BY <1>1 DEF MgrTypeOK, Free
<1> DEFINE p == Completed(slots[s], n)
<1>3. p \in PendingCmd /\ p.flags = "DONE"
  BY <1>2 DEF PendingCmd, Completed
<1>4. /\ slots' = [slots EXCEPT ![s] = p]
      /\ up' = up
      /\ queue_sz' = IF queue_sz > 0 THEN queue_sz - 1 ELSE 0
  BY DEF OnCfm
<1>5. slots'[s] = p /\ \A t \in Slot \ {s} : slots'[t] = slots[t]
  BY <1>1, <1>4 DEF MgrTypeOK
<1>6. MgrTypeOK'
  BY <1>1, <1>3, <1>4 DEF MgrTypeOK
<1>7. s \in Waiting
  BY <1>1 DEF Waiting
<1>8. Waiting' = Waiting \ {s}
  BY <1>1, <1>3, <1>5 DEF Waiting
<1> QED
  BY <1>3, <1>5, <1>6, <1>7, <1>8

(* What take_cfm does to the table. *)
LEMMA TakeEffect ==
  ASSUME MgrTypeOK, NEW s \in Slot, TakeSlot(s)
  PROVE  /\ MgrTypeOK'
         /\ Waiting' = Waiting \ {s}
         /\ slots'[s] = Free
         /\ \A t \in Slot \ {s} : slots'[t] = slots[t]
<1>1. slots'[s] = Free /\ \A t \in Slot \ {s} : slots'[t] = slots[t]
  BY DEF TakeSlot, MgrTypeOK
<1>2. MgrTypeOK'
  BY DEF TakeSlot, MgrTypeOK
<1>3. Waiting' = Waiting \ {s}
  BY <1>1 DEF Waiting, Free
<1> QED
  BY <1>1, <1>2, <1>3

-----------------------------------------------------------------------------
(* The cases of a step. *)
LEMMA StepCases ==
  ASSUME [Next]_vars
  PROVE  \/ UNCHANGED vars
         \/ \E c \in Clients : Push(c)
         \/ \E c \in Clients : PushFails(c)
         \/ \E c \in Clients : TxOk(c)
         \/ \E c \in Clients : TxFail(c)
         \/ \E c \in Clients : WaitOk(c)
         \/ \E c \in Clients : WaitOkKeep(c)
         \/ \E c \in Clients : WaitTimeout(c)
         \/ \E c \in Clients : Take(c)
         \/ \E m \in wire : Confirm(m)
         \/ \E m \in wire : Drop(m)
         \/ SdioInit
         \/ SdioExit
BY Zenon DEF Next, ClientStep

LEMMA TypeInit == Init => TypeOK
<1> SUFFICES ASSUME Init PROVE TypeOK
  OBVIOUS
<1>1. MgrTypeOK
  BY DEF Init, MgrInit, MgrTypeOK
<1>2. 0 \in Slot
  BY DEF Slot
<1>3. (CHOOSE r \in CfmIds : TRUE) \in CfmIds
  BY Zenon
<1> QED
  BY <1>1, <1>2, <1>3 DEF Init, TypeOK

(* A manager operation that leaves the table alone keeps its type. *)
LEMMA MgrUnchangedType ==
  ASSUME MgrTypeOK, UNCHANGED mgrVars
  PROVE  MgrTypeOK'
BY DEF MgrTypeOK, mgrVars

LEMMA TypeStep == TypeOK /\ [Next]_vars => TypeOK'
<1> SUFFICES ASSUME TypeOK, [Next]_vars PROVE TypeOK'
  OBVIOUS
<1> USE DEF TypeOK, clientVars, Request
<1>1. CASE UNCHANGED vars
  <2>1. MgrTypeOK'
    BY <1>1, MgrUnchangedType DEF vars
  <2> QED
    BY <1>1, <2>1 DEF vars
<1>2. ASSUME NEW c \in Clients, Push(c) PROVE TypeOK'
  <2>1. PICK r \in CfmIds :
          /\ PushCmd(r, serial + 1)
          /\ reqid' = [reqid EXCEPT ![c] = r]
          /\ ambig' = IF WaitingFor(r) = {} THEN ambig ELSE ambig \cup {r}
    BY <1>2 DEF Push
  <2>2. CanPush
    BY <1>2 DEF Push
  <2>3. MgrTypeOK /\ serial + 1 \in Nat
    OBVIOUS
  <2>4. MgrTypeOK'
    BY <2>1, <2>2, <2>3, PushEffect, Zenon
  <2>5. PushSlot \in Slot
    BY <2>2, PushSlotFree
  <2> QED
    BY <1>2, <2>1, <2>4, <2>5 DEF Push
<1>3. ASSUME NEW c \in Clients, PushFails(c) PROVE TypeOK'
  BY <1>3, MgrUnchangedType DEF PushFails, Return
<1>4. ASSUME NEW c \in Clients, TxOk(c) PROVE TypeOK'
  BY <1>4, MgrUnchangedType DEF TxOk
<1>5. ASSUME NEW c \in Clients, TxFail(c) PROVE TypeOK'
  BY <1>5, MgrUnchangedType DEF TxFail, Return
<1>6. ASSUME NEW c \in Clients, WaitOk(c) PROVE TypeOK'
  BY <1>6, MgrUnchangedType DEF WaitOk
<1>7. ASSUME NEW c \in Clients, WaitOkKeep(c) PROVE TypeOK'
  <2>1. slots[token[c]].cfm \in Nat
    BY <1>7 DEF WaitOkKeep, IsDone, MgrTypeOK, Free, PendingCmd
  <2> QED
    BY <1>7, <2>1, MgrUnchangedType DEF WaitOkKeep, Return
<1>8. ASSUME NEW c \in Clients, WaitTimeout(c) PROVE TypeOK'
  BY <1>8, MgrUnchangedType DEF WaitTimeout, Return
<1>9. ASSUME NEW c \in Clients, Take(c) PROVE TypeOK'
  <2>1. MgrTypeOK'
    BY <1>9, MgrUnchangedType, TakeEffect DEF Take
  <2>2. IsDone(token[c]) => slots[token[c]].cfm \in Nat
    BY DEF IsDone, MgrTypeOK, Free, PendingCmd
  <2> QED
    BY <1>9, <2>1, <2>2 DEF Take, Return
<1>10. ASSUME NEW m \in wire, Confirm(m) PROVE TypeOK'
  <2>1. m.reqid \in CfmIds /\ m.serial \in Nat
    OBVIOUS
  <2>2. CASE WaitingFor(m.reqid) = {}
    BY <1>10, <2>2, MgrUnchangedType DEF Confirm, OnCfm, mgrVars
  <2>3. CASE WaitingFor(m.reqid) # {}
    <3>1. MgrTypeOK'
      BY <1>10, <2>1, <2>3, CfmEffect DEF Confirm
    <3> QED
      BY <1>10, <3>1 DEF Confirm
  <2> QED
    BY <2>2, <2>3
<1>11. ASSUME NEW m \in wire, Drop(m) PROVE TypeOK'
  BY <1>11, MgrUnchangedType DEF Drop
<1>12. CASE SdioInit
  BY <1>12 DEF SdioInit, FreshMgr, MgrTypeOK
<1>13. CASE SdioExit
  BY <1>13 DEF SdioExit, DropMgr, MgrTypeOK
<1> QED
  BY <1>1, <1>2, <1>3, <1>4, <1>5, <1>6, <1>7, <1>8, <1>9, <1>10, <1>11,
     <1>12, <1>13, StepCases

(* Every variable keeps its type: in particular push never returns a token   *)
(* outside the table, in any life of the manager.                            *)
THEOREM TypeCorrect == Spec => []TypeOK
BY TypeInit, TypeStep, PTL DEF Spec

-----------------------------------------------------------------------------
(* Steps after which the table and queue_sz are as before. *)
LEMMA BoundUnchanged ==
  ASSUME QueueSzBound, UNCHANGED <<slots, queue_sz>>
  PROVE  QueueSzBound'
BY DEF QueueSzBound, Waiting

(* An empty table counts no waiting command. *)
LEMMA EmptyTable ==
  ASSUME slots' = [s \in Slot |-> Free], queue_sz' = 0
  PROVE  QueueSzBound' /\ queue_sz' = Cardinality(Waiting)'
<1>1. Waiting' = {}
  BY DEF Waiting, Free
<1>2. Cardinality(Waiting)' = 0
  BY <1>1, FS_EmptySet
<1> QED
  BY <1>2 DEF QueueSzBound

(* push counts the command it adds. *)
LEMMA PushCounts ==
  ASSUME MgrTypeOK, CanPush, NEW r \in CfmIds, NEW n \in Nat, PushCmd(r, n)
  PROVE  /\ Cardinality(Waiting)' = Cardinality(Waiting) + 1
         /\ queue_sz' = queue_sz + 1
         /\ queue_sz < MaxPending
<1>1. Waiting' = Waiting \cup {PushSlot} /\ PushSlot \notin Waiting
  BY PushEffect
<1>2. Cardinality(Waiting)' = Cardinality(Waiting) + 1
  BY <1>1, WaitingFinite, FS_AddElement
<1> QED
  BY <1>2 DEF PushCmd, CanPush

(* on_cfm counts the command it completes off, without saturating. *)
LEMMA CfmCounts ==
  ASSUME MgrTypeOK, QueueSzBound, NEW r \in CfmIds, NEW n \in Nat,
         OnCfm(r, n), WaitingFor(r) # {}
  PROVE  /\ Cardinality(Waiting)' = Cardinality(Waiting) - 1
         /\ queue_sz' = queue_sz - 1
<1> DEFINE s == Min(WaitingFor(r))
<1>1. s \in Waiting /\ Waiting' = Waiting \ {s}
  BY CfmEffect
<1> HIDE DEF s
<1>2. Cardinality(Waiting)' = Cardinality(Waiting) - 1
  BY <1>1, WaitingFinite, FS_RemoveElement
<1>3. Cardinality(Waiting) # 0
  BY <1>1, WaitingFinite, FS_EmptySet
<1>4. queue_sz > 0
  BY <1>3, WaitingFinite DEF QueueSzBound, MgrTypeOK
<1> QED
  BY <1>2, <1>4 DEF OnCfm

LEMMA BoundStep == TypeOK /\ QueueSzBound /\ [Next]_vars => QueueSzBound'
<1> SUFFICES ASSUME TypeOK, QueueSzBound, [Next]_vars PROVE QueueSzBound'
  OBVIOUS
<1>0. MgrTypeOK /\ serial + 1 \in Nat
  BY DEF TypeOK
<1> USE DEF mgrVars
<1>1. CASE UNCHANGED vars
  BY <1>1, BoundUnchanged DEF vars
<1>2. ASSUME NEW c \in Clients, Push(c) PROVE QueueSzBound'
  <2>1. PICK r \in CfmIds : PushCmd(r, serial + 1)
    BY <1>2 DEF Push
  <2>2. CanPush
    BY <1>2 DEF Push
  <2>3. /\ Cardinality(Waiting)' = Cardinality(Waiting) + 1
        /\ queue_sz' = queue_sz + 1
        /\ queue_sz < MaxPending
    BY <1>0, <2>1, <2>2, PushCounts, Zenon
  <2> QED
    BY <1>0, <2>3, WaitingFinite DEF QueueSzBound, MgrTypeOK
<1>3. ASSUME NEW c \in Clients, PushFails(c) PROVE QueueSzBound'
  BY <1>3, BoundUnchanged DEF PushFails
<1>4. ASSUME NEW c \in Clients, TxOk(c) PROVE QueueSzBound'
  BY <1>4, BoundUnchanged DEF TxOk
<1>5. ASSUME NEW c \in Clients, TxFail(c) PROVE QueueSzBound'
  BY <1>5, BoundUnchanged DEF TxFail
<1>6. ASSUME NEW c \in Clients, WaitOk(c) PROVE QueueSzBound'
  BY <1>6, BoundUnchanged DEF WaitOk
<1>7. ASSUME NEW c \in Clients, WaitOkKeep(c) PROVE QueueSzBound'
  BY <1>7, BoundUnchanged DEF WaitOkKeep
<1>8. ASSUME NEW c \in Clients, WaitTimeout(c) PROVE QueueSzBound'
  BY <1>8, BoundUnchanged DEF WaitTimeout
<1>9. ASSUME NEW c \in Clients, Take(c) PROVE QueueSzBound'
  <2>1. CASE ~up
    BY <1>9, <2>1, BoundUnchanged DEF Take
  <2>2. CASE up
    <3>1. token[c] \in Slot /\ TakeSlot(token[c])
      BY <1>9, <2>2 DEF Take, TypeOK
    <3>2. Waiting' = Waiting \ {token[c]}
      BY <1>0, <3>1, TakeEffect
    <3>3. Cardinality(Waiting') <= Cardinality(Waiting)
      BY <3>2, WaitingFinite, FS_Subset
    <3>4. Cardinality(Waiting') \in Nat
      BY <3>2, WaitingFinite, FS_Subset, FS_CardinalityType
    <3>5. queue_sz' = queue_sz
      BY <3>1 DEF TakeSlot
    <3> QED
      BY <1>0, <3>3, <3>4, <3>5, WaitingFinite DEF QueueSzBound, MgrTypeOK
  <2> QED
    BY <2>1, <2>2
<1>10. ASSUME NEW m \in wire, Confirm(m) PROVE QueueSzBound'
  <2>1. m.reqid \in CfmIds /\ m.serial \in Nat /\ OnCfm(m.reqid, m.serial)
    BY <1>10 DEF TypeOK, Request, Confirm
  <2>2. CASE WaitingFor(m.reqid) = {}
    BY <2>1, <2>2, BoundUnchanged DEF OnCfm
  <2>3. CASE WaitingFor(m.reqid) # {}
    <3>1. /\ Cardinality(Waiting)' = Cardinality(Waiting) - 1
          /\ queue_sz' = queue_sz - 1
      BY <1>0, <2>1, <2>3, CfmCounts, Zenon
    <3> QED
      BY <1>0, <3>1, WaitingFinite DEF QueueSzBound, MgrTypeOK
  <2> QED
    BY <2>2, <2>3
<1>11. ASSUME NEW m \in wire, Drop(m) PROVE QueueSzBound'
  BY <1>11, BoundUnchanged DEF Drop
<1>12. CASE SdioInit
  BY <1>12, EmptyTable DEF SdioInit, FreshMgr
<1>13. CASE SdioExit
  BY <1>13, EmptyTable DEF SdioExit, DropMgr
<1> QED
  BY <1>1, <1>2, <1>3, <1>4, <1>5, <1>6, <1>7, <1>8, <1>9, <1>10, <1>11,
     <1>12, <1>13, StepCases

-----------------------------------------------------------------------------
(* What holds of calls in every life: before the first init nothing runs;    *)
(* calls in progress have different commands; the firmware only has requests *)
(* that were pushed.                                                         *)
CallInv ==
  /\ inits = 0 => ~up /\ wire = {} /\ \A c \in Clients : pc[c] = "idle"
  /\ \A c \in Clients : pc[c] # "idle" => mine[c] \in 1 .. serial
  /\ \A c, d \in Clients :
       pc[c] # "idle" /\ pc[d] # "idle" /\ mine[c] = mine[d] => c = d
  /\ \A m \in wire : m.serial \in 1 .. serial

LEMMA CallStep == TypeOK /\ CallInv /\ [Next]_vars => CallInv'
<1> SUFFICES ASSUME TypeOK, CallInv, [Next]_vars PROVE CallInv'
  OBVIOUS
<1> USE DEF TypeOK, CallInv, mgrVars, clientVars, Request
<1>1. CASE UNCHANGED vars
  BY <1>1 DEF vars
<1>2. ASSUME NEW c \in Clients, Push(c) PROVE CallInv'
  <2>1. /\ inits' = inits /\ wire' = wire /\ up
        /\ serial' = serial + 1
        /\ mine' = [mine EXCEPT ![c] = serial + 1]
        /\ pc' = [pc EXCEPT ![c] = "pushed"]
    BY <1>2 DEF Push, CanPush
  <2> QED
    BY <2>1
<1>3. ASSUME NEW c \in Clients, PushFails(c) PROVE CallInv'
  BY <1>3 DEF PushFails, Return
<1>4. ASSUME NEW c \in Clients, TxOk(c) PROVE CallInv'
  BY <1>4 DEF TxOk
<1>5. ASSUME NEW c \in Clients, TxFail(c) PROVE CallInv'
  BY <1>5 DEF TxFail, Return
<1>6. ASSUME NEW c \in Clients, WaitOk(c) PROVE CallInv'
  BY <1>6 DEF WaitOk
<1>7. ASSUME NEW c \in Clients, WaitOkKeep(c) PROVE CallInv'
  BY <1>7 DEF WaitOkKeep, Return
<1>8. ASSUME NEW c \in Clients, WaitTimeout(c) PROVE CallInv'
  BY <1>8 DEF WaitTimeout, Return
<1>9. ASSUME NEW c \in Clients, Take(c) PROVE CallInv'
  <2>1. /\ inits' = inits /\ wire' = wire /\ serial' = serial /\ mine' = mine
        /\ pc' = [pc EXCEPT ![c] = "idle"] /\ up' = up
    BY <1>9 DEF Take, Return, TakeSlot
  <2> QED
    BY <2>1
<1>10. ASSUME NEW m \in wire, Confirm(m) PROVE CallInv'
  BY <1>10 DEF Confirm, OnCfm
<1>11. ASSUME NEW m \in wire, Drop(m) PROVE CallInv'
  BY <1>11 DEF Drop
<1>12. CASE SdioInit
  BY <1>12 DEF SdioInit, FreshMgr
<1>13. CASE SdioExit
  BY <1>13 DEF SdioExit, DropMgr
<1> QED
  BY <1>1, <1>2, <1>3, <1>4, <1>5, <1>6, <1>7, <1>8, <1>9, <1>10, <1>11,
     <1>12, <1>13, StepCases

(* A step that leaves the table and the calls' tokens alone, and lets a call *)
(* only end or go on to take_cfm when its command is completed.              *)
LEMMA OwnUnchanged ==
  ASSUME OwnSlot, UNCHANGED <<mgrVars, inits, token, mine, reqid>>,
         \A c \in Clients :
           \/ pc'[c] = pc[c]
           \/ pc'[c] = "idle"
           \/ pc[c] # "idle" /\ (pc'[c] = "take" => IsDone(token[c]))
  PROVE  OwnSlot'
BY DEF OwnSlot, FirstLife, mgrVars, IsDone

LEMMA OwnStep == TypeOK /\ CallInv /\ OwnSlot /\ [Next]_vars => OwnSlot'
<1> SUFFICES ASSUME TypeOK, CallInv, OwnSlot, [Next]_vars PROVE OwnSlot'
  OBVIOUS
<1>0. MgrTypeOK /\ serial + 1 \in Nat
  BY DEF TypeOK
<1> USE DEF TypeOK
<1>1. CASE UNCHANGED vars
  BY <1>1, OwnUnchanged DEF vars, clientVars
<1>2. ASSUME NEW c \in Clients, Push(c) PROVE OwnSlot'
  <2>1. PICK r \in CfmIds :
          /\ PushCmd(r, serial + 1)
          /\ reqid' = [reqid EXCEPT ![c] = r]
    BY <1>2 DEF Push
  <2>2. /\ CanPush
        /\ token' = [token EXCEPT ![c] = PushSlot]
        /\ mine' = [mine EXCEPT ![c] = serial + 1]
        /\ pc' = [pc EXCEPT ![c] = "pushed"]
        /\ inits' = inits
    BY <1>2 DEF Push
  <2>3. PushSlot \in Slot /\ slots[PushSlot] = Free
    BY <1>0, <2>2, PushSlotFree
  <2>4. /\ slots'[PushSlot] = [flags |-> "WAIT_CFM", reqid |-> r,
                               serial |-> serial + 1, cfm |-> 0]
        /\ \A s \in Slot \ {PushSlot} : slots'[s] = slots[s]
    BY <1>0, <2>1, <2>2, PushEffect, Zenon
  <2>5. up /\ up' = up
    BY <2>1, <2>2 DEF PushCmd, CanPush
  <2> SUFFICES ASSUME FirstLife', NEW d \in Clients, pc'[d] # "idle"
               PROVE  /\ slots'[token'[d]] # Free
                      /\ slots'[token'[d]].serial = mine'[d]
                      /\ slots'[token'[d]].reqid = reqid'[d]
                      /\ pc'[d] = "take" => slots'[token'[d]].flags = "DONE"
    BY DEF OwnSlot
  <2>6. CASE d = c
    BY <2>1, <2>2, <2>4, <2>6 DEF Free
  <2>7. CASE d # c
    <3>1. /\ pc[d] # "idle" /\ pc'[d] = pc[d] /\ token'[d] = token[d]
          /\ mine'[d] = mine[d] /\ reqid'[d] = reqid[d]
      BY <2>1, <2>2, <2>7
    <3>2. token[d] \in Slot \ {PushSlot}
      BY <2>2, <2>3, <2>5, <3>1 DEF OwnSlot, FirstLife
    <3> QED
      BY <2>2, <2>4, <2>5, <3>1, <3>2 DEF OwnSlot, FirstLife
  <2> QED
    BY <2>6, <2>7
<1>3. ASSUME NEW c \in Clients, PushFails(c) PROVE OwnSlot'
  BY <1>3, OwnUnchanged DEF PushFails, Return
<1>4. ASSUME NEW c \in Clients, TxOk(c) PROVE OwnSlot'
  BY <1>4, OwnUnchanged DEF TxOk
<1>5. ASSUME NEW c \in Clients, TxFail(c) PROVE OwnSlot'
  BY <1>5, OwnUnchanged DEF TxFail, Return
<1>6. ASSUME NEW c \in Clients, WaitOk(c) PROVE OwnSlot'
  BY <1>6, OwnUnchanged DEF WaitOk
<1>7. ASSUME NEW c \in Clients, WaitOkKeep(c) PROVE OwnSlot'
  BY <1>7, OwnUnchanged DEF WaitOkKeep, Return
<1>8. ASSUME NEW c \in Clients, WaitTimeout(c) PROVE OwnSlot'
  BY <1>8, OwnUnchanged DEF WaitTimeout, Return
<1>9. ASSUME NEW c \in Clients, Take(c) PROVE OwnSlot'
  <2>1. CASE ~up
    BY <1>9, <2>1 DEF Take, OwnSlot, mgrVars
  <2>2. CASE up
    <3>1. token[c] \in Slot /\ TakeSlot(token[c])
      BY <1>9, <2>2 DEF Take
    <3>2. \A t \in Slot \ {token[c]} : slots'[t] = slots[t]
      BY <1>0, <3>1, TakeEffect
    <3>3. /\ pc[c] = "take" /\ pc' = [pc EXCEPT ![c] = "idle"]
          /\ UNCHANGED <<inits, token, mine, reqid>>
      BY <1>9 DEF Take, Return
    <3> SUFFICES ASSUME FirstLife', NEW d \in Clients, pc'[d] # "idle"
                 PROVE  /\ slots'[token'[d]] # Free
                        /\ slots'[token'[d]].serial = mine'[d]
                        /\ slots'[token'[d]].reqid = reqid'[d]
                        /\ pc'[d] = "take" => slots'[token'[d]].flags = "DONE"
      BY DEF OwnSlot
    <3>4. d # c /\ pc[d] # "idle" /\ pc'[d] = pc[d]
      BY <3>3
    <3>5. token[d] # token[c]
      BY <2>2, <3>3, <3>4 DEF OwnSlot, FirstLife, CallInv
    <3> QED
      BY <2>2, <3>2, <3>3, <3>4, <3>5 DEF OwnSlot, FirstLife
  <2> QED
    BY <2>1, <2>2
<1>10. ASSUME NEW m \in wire, Confirm(m) PROVE OwnSlot'
  <2>1. /\ m.reqid \in CfmIds /\ m.serial \in Nat /\ OnCfm(m.reqid, m.serial)
        /\ UNCHANGED <<inits, clientVars>> /\ up' = up
    BY <1>10 DEF Request, Confirm, OnCfm
  <2>2. CASE WaitingFor(m.reqid) = {}
    BY <2>1, <2>2, OwnUnchanged DEF OnCfm, mgrVars, clientVars
  <2>3. CASE WaitingFor(m.reqid) # {}
    <3> DEFINE s == Min(WaitingFor(m.reqid))
    <3>1. /\ s \in Waiting
          /\ slots'[s] = Completed(slots[s], m.serial)
          /\ \A t \in Slot \ {s} : slots'[t] = slots[t]
      BY <1>0, <2>1, <2>3, CfmEffect, Zenon
    <3> HIDE DEF s
    <3>2. \A t \in Slot :
            /\ slots[t] # Free => slots'[t] # Free
            /\ slots'[t].serial = slots[t].serial \/ slots[t] = Free
            /\ slots'[t].reqid = slots[t].reqid \/ slots[t] = Free
            /\ slots[t].flags = "DONE" => slots'[t].flags = "DONE"
      BY <3>1 DEF Completed, Free, Waiting
    <3> QED
      BY <2>1, <3>2 DEF OwnSlot, FirstLife, clientVars
  <2> QED
    BY <2>2, <2>3
<1>11. ASSUME NEW m \in wire, Drop(m) PROVE OwnSlot'
  BY <1>11, OwnUnchanged DEF Drop, clientVars
<1>12. CASE SdioInit
  BY <1>12 DEF SdioInit, OwnSlot, FirstLife, CallInv, clientVars
<1>13. CASE SdioExit
  BY <1>13 DEF SdioExit, DropMgr, OwnSlot
<1> QED
  BY <1>1, <1>2, <1>3, <1>4, <1>5, <1>6, <1>7, <1>8, <1>9, <1>10, <1>11,
     <1>12, <1>13, StepCases

LEMMA CallInit == Init => CallInv /\ OwnSlot
BY DEF Init, MgrInit, CallInv, OwnSlot

(* A call in progress finds its own command behind its token, whatever the   *)
(* other threads did since push released the CMD_MGR lock.                   *)
THEOREM TokenOwned == Spec => []OwnSlot
BY TypeInit, TypeStep, CallInit, CallStep, OwnStep, PTL DEF Spec

-----------------------------------------------------------------------------
LEMMA ExactUnchanged ==
  ASSUME QueueSzExact, UNCHANGED <<slots, queue_sz, inits>>
  PROVE  QueueSzExact'
BY DEF QueueSzExact, Waiting, FirstLife

LEMMA ExactStep ==
  TypeOK /\ OwnSlot /\ QueueSzBound /\ QueueSzExact /\ [Next]_vars
    => QueueSzExact'
<1> SUFFICES ASSUME TypeOK, OwnSlot, QueueSzBound, QueueSzExact, [Next]_vars
             PROVE  QueueSzExact'
  OBVIOUS
<1>0. MgrTypeOK /\ serial + 1 \in Nat
  BY DEF TypeOK
<1> USE DEF mgrVars
<1>1. CASE UNCHANGED vars
  BY <1>1, ExactUnchanged DEF vars
<1>2. ASSUME NEW c \in Clients, Push(c) PROVE QueueSzExact'
  <2>1. PICK r \in CfmIds : PushCmd(r, serial + 1)
    BY <1>2 DEF Push
  <2>2. CanPush /\ inits' = inits
    BY <1>2 DEF Push
  <2>3. /\ Cardinality(Waiting)' = Cardinality(Waiting) + 1
        /\ queue_sz' = queue_sz + 1
    BY <1>0, <2>1, <2>2, PushCounts, Zenon
  <2> QED
    BY <2>2, <2>3 DEF QueueSzExact, FirstLife
<1>3. ASSUME NEW c \in Clients, PushFails(c) PROVE QueueSzExact'
  BY <1>3, ExactUnchanged DEF PushFails
<1>4. ASSUME NEW c \in Clients, TxOk(c) PROVE QueueSzExact'
  BY <1>4, ExactUnchanged DEF TxOk
<1>5. ASSUME NEW c \in Clients, TxFail(c) PROVE QueueSzExact'
  BY <1>5, ExactUnchanged DEF TxFail
<1>6. ASSUME NEW c \in Clients, WaitOk(c) PROVE QueueSzExact'
  BY <1>6, ExactUnchanged DEF WaitOk
<1>7. ASSUME NEW c \in Clients, WaitOkKeep(c) PROVE QueueSzExact'
  BY <1>7, ExactUnchanged DEF WaitOkKeep
<1>8. ASSUME NEW c \in Clients, WaitTimeout(c) PROVE QueueSzExact'
  BY <1>8, ExactUnchanged DEF WaitTimeout
<1>9. ASSUME NEW c \in Clients, Take(c) PROVE QueueSzExact'
  <2>1. CASE ~up
    BY <1>9, <2>1, ExactUnchanged DEF Take
  <2>2. CASE up /\ FirstLife
    <3>1. /\ token[c] \in Slot /\ TakeSlot(token[c])
          /\ pc[c] = "take" /\ inits' = inits
      BY <1>9, <2>2 DEF Take, TypeOK
    <3>2. token[c] \notin Waiting
      BY <2>2, <3>1 DEF OwnSlot, Waiting
    <3>3. Waiting' = Waiting
      BY <1>0, <3>1, <3>2, TakeEffect
    <3> QED
      BY <3>1, <3>3 DEF QueueSzExact, FirstLife, TakeSlot
  <2>3. CASE ~FirstLife
    BY <1>9, <2>3 DEF Take, QueueSzExact, FirstLife
  <2> QED
    BY <2>1, <2>2, <2>3
<1>10. ASSUME NEW m \in wire, Confirm(m) PROVE QueueSzExact'
  <2>1. /\ m.reqid \in CfmIds /\ m.serial \in Nat /\ OnCfm(m.reqid, m.serial)
        /\ inits' = inits
    BY <1>10 DEF TypeOK, Request, Confirm
  <2>2. CASE WaitingFor(m.reqid) = {}
    BY <2>1, <2>2, ExactUnchanged DEF OnCfm
  <2>3. CASE WaitingFor(m.reqid) # {}
    <3>1. /\ Cardinality(Waiting)' = Cardinality(Waiting) - 1
          /\ queue_sz' = queue_sz - 1
      BY <1>0, <2>1, <2>3, CfmCounts, Zenon
    <3> QED
      BY <2>1, <3>1 DEF QueueSzExact, FirstLife
  <2> QED
    BY <2>2, <2>3
<1>11. ASSUME NEW m \in wire, Drop(m) PROVE QueueSzExact'
  BY <1>11, ExactUnchanged DEF Drop
<1>12. CASE SdioInit
  BY <1>12, EmptyTable DEF SdioInit, FreshMgr, QueueSzExact
<1>13. CASE SdioExit
  BY <1>13, EmptyTable DEF SdioExit, DropMgr, QueueSzExact
<1> QED
  BY <1>1, <1>2, <1>3, <1>4, <1>5, <1>6, <1>7, <1>8, <1>9, <1>10, <1>11,
     <1>12, <1>13, StepCases

LEMMA BoundInit == Init => QueueSzBound /\ QueueSzExact
<1> SUFFICES ASSUME Init PROVE QueueSzBound /\ QueueSzExact
  OBVIOUS
<1>1. Waiting = {}
  BY DEF Init, MgrInit, Waiting, Free
<1>2. Cardinality(Waiting) = 0
  BY <1>1, FS_EmptySet
<1> QED
  BY <1>2 DEF QueueSzBound, QueueSzExact, Init, MgrInit

(* queue_sz bounds the waiting commands and stays within max_queue_sz in     *)
(* every life of the manager, stale tokens and all: cmd_complete's           *)
(* saturating_sub never saturates.                                           *)
THEOREM QueueSzBounded == Spec => []QueueSzBound
BY TypeInit, TypeStep, BoundInit, BoundStep, PTL DEF Spec

(* In the first life queue_sz is the number of waiting commands: take_cfm is *)
(* only called on completed ones.                                            *)
THEOREM QueueSzCountsFirstLife == Spec => []QueueSzExact
BY TypeInit, TypeStep, CallInit, CallStep, OwnStep, BoundInit, BoundStep,
   ExactStep, PTL DEF Spec

-----------------------------------------------------------------------------
(* Why a CFM reaches its own command while its id is unambiguous: at most    *)
(* one command waits for the id, and a request the firmware still has is     *)
(* that one.                                                                 *)

(* A call that has not sent its message yet has nothing at the firmware. *)
NotSentYet ==
  \A c \in Clients : \A m \in wire : pc[c] = "pushed" => m.serial # mine[c]

OneWaiter ==
  \A r \in CfmIds \ ambig : \A s, t \in WaitingFor(r) : s = t

WireAwaited ==
  \A m \in wire : m.reqid \notin ambig =>
    \E s \in WaitingFor(m.reqid) : slots[s].serial = m.serial

PushedWaits ==
  \A c \in Clients : pc[c] = "pushed" /\ reqid[c] \notin ambig =>
    slots[token[c]].flags = "WAIT_CFM"

DoneMatches ==
  \A s \in Slot : slots[s].flags = "DONE" /\ slots[s].reqid \notin ambig =>
    slots[s].cfm = slots[s].serial

MatchInv ==
  /\ NotSentYet
  /\ FirstLife /\ up => OneWaiter /\ WireAwaited /\ PushedWaits /\ DoneMatches
  /\ CfmIsMine

(* Steps of a call that leave the table, the wire and the other calls alone, *)
(* and do not end the call with OK.                                          *)
LEMMA MatchUnchanged ==
  ASSUME MatchInv,
         UNCHANGED <<mgrVars, inits, token, mine, reqid, got, ambig>>,
         wire' \subseteq wire,
         \A c \in Clients :
           \/ pc'[c] = pc[c] /\ res'[c] = res[c]
           \/ pc'[c] = "idle" /\ res'[c] # "OK"
           \/ pc'[c] \in {"wait", "take"}
  PROVE  MatchInv'
<1> USE DEF mgrVars, MatchInv
<1>1. NotSentYet'
  BY DEF NotSentYet
<1>2. CfmIsMine'
  BY DEF CfmIsMine, FirstLife
<1>3. ASSUME FirstLife', up' PROVE (OneWaiter /\ DoneMatches)'
  BY <1>3 DEF OneWaiter, DoneMatches, FirstLife, WaitingFor, Waiting
<1>4. ASSUME FirstLife', up' PROVE WireAwaited'
  BY <1>4 DEF WireAwaited, FirstLife, WaitingFor, Waiting
<1>5. ASSUME FirstLife', up' PROVE PushedWaits'
  BY <1>5 DEF PushedWaits, FirstLife
<1> QED
  BY <1>1, <1>2, <1>3, <1>4, <1>5

LEMMA MatchPush ==
  ASSUME TypeOK, CallInv, OwnSlot, MatchInv, NEW c \in Clients, Push(c)
  PROVE  MatchInv'
<1> USE DEF TypeOK
<1>1. PICK r \in CfmIds :
        /\ PushCmd(r, serial + 1)
        /\ reqid' = [reqid EXCEPT ![c] = r]
        /\ ambig' = IF WaitingFor(r) = {} THEN ambig ELSE ambig \cup {r}
  BY DEF Push
<1>2. /\ CanPush
      /\ serial' = serial + 1
      /\ token' = [token EXCEPT ![c] = PushSlot]
      /\ mine' = [mine EXCEPT ![c] = serial + 1]
      /\ pc' = [pc EXCEPT ![c] = "pushed"]
      /\ UNCHANGED <<inits, res, got, wire>>
  BY DEF Push
<1>3. MgrTypeOK /\ serial + 1 \in Nat
  OBVIOUS
<1>4. PushSlot \in Slot /\ slots[PushSlot] = Free
  BY <1>2, <1>3, PushSlotFree
<1>5. /\ slots'[PushSlot] = [flags |-> "WAIT_CFM", reqid |-> r,
                             serial |-> serial + 1, cfm |-> 0]
      /\ \A s \in Slot \ {PushSlot} : slots'[s] = slots[s]
      /\ PushSlot \notin Waiting
      /\ Waiting' = Waiting \cup {PushSlot}
  BY <1>1, <1>2, <1>3, PushEffect, Zenon
<1>6. up /\ up' = up
  BY <1>1, <1>2 DEF PushCmd, CanPush
<1>7. ambig \subseteq ambig' /\ (r \notin ambig' => WaitingFor(r) = {})
  BY <1>1
<1>8. NotSentYet'
  BY <1>2 DEF NotSentYet, MatchInv, CallInv
<1>9. CfmIsMine'
  <2> SUFFICES ASSUME FirstLife', NEW d \in Clients, pc'[d] = "idle",
                      res'[d] = "OK", reqid'[d] \notin ambig'
               PROVE  got'[d] = mine'[d]
    BY DEF CfmIsMine
  <2>1. d # c
    BY <1>2
  <2> QED
    BY <1>1, <1>2, <1>7, <2>1 DEF CfmIsMine, MatchInv, FirstLife
<1> SUFFICES ASSUME FirstLife'
             PROVE  (OneWaiter /\ WireAwaited /\ PushedWaits /\ DoneMatches)'
  BY <1>8, <1>9 DEF MatchInv
<1>10. OneWaiter /\ WireAwaited /\ PushedWaits /\ DoneMatches
  BY <1>2, <1>6 DEF MatchInv, FirstLife
<1>11. ASSUME NEW q \in CfmIds, q # r PROVE WaitingFor(q)' = WaitingFor(q)
  BY <1>5, <1>11 DEF WaitingFor, Waiting
<1>12. r \notin ambig' => WaitingFor(r)' = {PushSlot}
  BY <1>5, <1>7 DEF WaitingFor, Waiting
<1>13. OneWaiter'
  <2> SUFFICES ASSUME NEW q \in CfmIds \ ambig',
                      NEW s \in WaitingFor(q)', NEW t \in WaitingFor(q)'
               PROVE  s = t
    BY DEF OneWaiter
  <2>1. CASE q = r
    BY <1>12, <2>1
  <2>2. CASE q # r
    BY <1>7, <1>10, <1>11, <2>2 DEF OneWaiter
  <2> QED
    BY <2>1, <2>2
<1>14. WireAwaited'
  <2> SUFFICES ASSUME NEW m \in wire, m.reqid \notin ambig'
               PROVE  \E s \in WaitingFor(m.reqid)' : slots'[s].serial = m.serial
    BY <1>2 DEF WireAwaited
  <2>1. PICK s \in WaitingFor(m.reqid) : slots[s].serial = m.serial
    BY <1>7, <1>10 DEF WireAwaited
  <2>2. m.reqid # r /\ m.reqid \in CfmIds
    BY <1>7, <2>1 DEF Request
  <2>3. s \in Slot \ {PushSlot}
    BY <1>5, <2>1 DEF WaitingFor, Waiting
  <2> QED
    BY <1>5, <1>11, <2>1, <2>2, <2>3
<1>15. PushedWaits'
  <2> SUFFICES ASSUME NEW d \in Clients, pc'[d] = "pushed", reqid'[d] \notin ambig'
               PROVE  slots'[token'[d]].flags = "WAIT_CFM"
    BY DEF PushedWaits
  <2>1. CASE d = c
    BY <1>2, <1>5, <2>1
  <2>2. CASE d # c
    <3>1. pc[d] = "pushed" /\ reqid[d] \notin ambig /\ token'[d] = token[d]
      BY <1>1, <1>2, <1>7, <2>2
    <3>2. slots[token[d]].flags = "WAIT_CFM"
      BY <1>10, <3>1 DEF PushedWaits
    <3>3. token[d] \in Slot \ {PushSlot}
      BY <1>4, <3>2 DEF Free
    <3> QED
      BY <1>5, <3>1, <3>2, <3>3
  <2> QED
    BY <2>1, <2>2
<1>16. DoneMatches'
  BY <1>5, <1>7, <1>10 DEF DoneMatches
<1> QED
  BY <1>13, <1>14, <1>15, <1>16

(* The message of c's command reaches the firmware and c goes on or gives up. *)
LEMMA MatchSent ==
  ASSUME TypeOK, CallInv, OwnSlot, MatchInv, NEW c \in Clients,
         pc[c] = "pushed",
         wire' = wire \cup {[reqid |-> reqid[c], serial |-> mine[c]]},
         UNCHANGED <<mgrVars, inits, token, mine, reqid, got, ambig>>,
         \/ pc' = [pc EXCEPT ![c] = "wait"] /\ res' = res
         \/ pc' = [pc EXCEPT ![c] = "idle"] /\ res' = [res EXCEPT ![c] = "ETX"]
  PROVE  MatchInv'
<1> USE DEF TypeOK, mgrVars
<1>1. NotSentYet'
  BY DEF NotSentYet, MatchInv, CallInv
<1>2. CfmIsMine'
  BY DEF CfmIsMine, MatchInv, FirstLife
<1> SUFFICES ASSUME FirstLife', up'
             PROVE  (OneWaiter /\ WireAwaited /\ PushedWaits /\ DoneMatches)'
  BY <1>1, <1>2 DEF MatchInv
<1>3. /\ OneWaiter /\ WireAwaited /\ PushedWaits /\ DoneMatches
      /\ FirstLife /\ up
  BY DEF MatchInv, FirstLife
<1>4. \A r \in CfmIds : WaitingFor(r)' = WaitingFor(r)
  BY DEF WaitingFor, Waiting
<1>5. WireAwaited'
  <2> SUFFICES ASSUME NEW m \in wire', m.reqid \notin ambig
               PROVE  \E s \in WaitingFor(m.reqid) : slots[s].serial = m.serial
    BY <1>4 DEF WireAwaited, WaitingFor, Waiting
  <2>1. CASE m \in wire
    BY <1>3, <2>1 DEF WireAwaited
  <2>2. CASE m = [reqid |-> reqid[c], serial |-> mine[c]]
    <3>1. /\ slots[token[c]].flags = "WAIT_CFM"
          /\ slots[token[c]].reqid = reqid[c]
          /\ slots[token[c]].serial = mine[c]
          /\ token[c] \in Slot
      BY <1>3, <2>2 DEF PushedWaits, OwnSlot
    <3> QED
      BY <2>2, <3>1 DEF WaitingFor, Waiting
  <2> QED
    BY <2>1, <2>2
<1>6. OneWaiter'
  BY <1>3, <1>4 DEF OneWaiter
<1>7. PushedWaits'
  BY <1>3 DEF PushedWaits
<1>8. DoneMatches'
  BY <1>3 DEF DoneMatches
<1> QED
  BY <1>5, <1>6, <1>7, <1>8

LEMMA MatchConfirm ==
  ASSUME TypeOK, OwnSlot, MatchInv, NEW m \in wire, Confirm(m)
  PROVE  MatchInv'
<1> USE DEF TypeOK
<1>1. /\ m.reqid \in CfmIds /\ m.serial \in Nat /\ MgrTypeOK
      /\ OnCfm(m.reqid, m.serial) /\ wire' = wire \ {m} /\ up /\ up' = up
      /\ UNCHANGED <<inits, clientVars, ambig>>
  BY DEF Confirm, OnCfm, Request
<1>2. CASE WaitingFor(m.reqid) = {}
  BY <1>1, <1>2, MatchUnchanged DEF OnCfm, mgrVars, clientVars
<1>3. CASE WaitingFor(m.reqid) # {}
  <2> DEFINE w == Min(WaitingFor(m.reqid))
  <2>1. /\ w \in Waiting
        /\ slots'[w] = Completed(slots[w], m.serial)
        /\ Waiting' = Waiting \ {w}
        /\ \A t \in Slot \ {w} : slots'[t] = slots[t]
    BY <1>1, <1>3, CfmEffect, Zenon
  <2>2. w \in Slot /\ slots[w].reqid = m.reqid
    BY <1>3, CfmSlotWaits
  <2> HIDE DEF w
  <2>3. NotSentYet'
    BY <1>1 DEF NotSentYet, MatchInv, clientVars
  <2>4. CfmIsMine'
    BY <1>1 DEF CfmIsMine, MatchInv, clientVars, FirstLife
  <2> SUFFICES ASSUME FirstLife'
               PROVE  (OneWaiter /\ WireAwaited /\ PushedWaits /\ DoneMatches)'
    BY <2>3, <2>4 DEF MatchInv
  <2>5. OneWaiter /\ WireAwaited /\ PushedWaits /\ DoneMatches /\ FirstLife
    BY <1>1 DEF MatchInv, FirstLife
  <2>6. \A r \in CfmIds : WaitingFor(r)' = WaitingFor(r) \ {w}
    BY <2>1 DEF WaitingFor, Waiting
  <2>7. w \in WaitingFor(m.reqid)
    BY <2>1, <2>2 DEF WaitingFor
  <2>8. m.reqid \notin ambig => slots[w].serial = m.serial
    <3> HAVE m.reqid \notin ambig
    <3>1. PICK s \in WaitingFor(m.reqid) : slots[s].serial = m.serial
      BY <2>5 DEF WireAwaited
    <3>2. s = w
      BY <1>1, <2>5, <2>7, <3>1 DEF OneWaiter
    <3> QED
      BY <3>1, <3>2
  <2>9. OneWaiter'
    BY <1>1, <2>5, <2>6 DEF OneWaiter
  <2>10. WireAwaited'
    <3> SUFFICES ASSUME NEW o \in wire, o # m, o.reqid \notin ambig
                 PROVE  \E s \in WaitingFor(o.reqid)' : slots'[s].serial = o.serial
      BY <1>1 DEF WireAwaited
    <3>1. PICK s \in WaitingFor(o.reqid) : slots[s].serial = o.serial
      BY <2>5 DEF WireAwaited
    <3>2. ASSUME s = w PROVE FALSE
      <4>1. o.reqid = m.reqid
        BY <2>2, <3>1, <3>2 DEF WaitingFor
      <4>2. o.serial = m.serial
        BY <2>8, <3>1, <3>2, <4>1
      <4> QED
        BY <4>1, <4>2 DEF Request
    <3>3. s \in Slot \ {w} /\ o.reqid \in CfmIds
      BY <3>1, <3>2 DEF WaitingFor, Waiting, Request
    <3> QED
      BY <2>1, <2>6, <3>1, <3>3
  <2>11. PushedWaits'
    <3> SUFFICES ASSUME NEW d \in Clients, pc[d] = "pushed", reqid[d] \notin ambig
                 PROVE  slots'[token[d]].flags = "WAIT_CFM"
      BY <1>1 DEF PushedWaits, clientVars
    <3>1. /\ slots[token[d]].flags = "WAIT_CFM" /\ token[d] \in Slot
          /\ slots[token[d]].serial = mine[d]
          /\ slots[token[d]].reqid = reqid[d]
      BY <1>1, <2>5 DEF PushedWaits, OwnSlot
    <3>2. token[d] # w
      BY <2>2, <2>8, <3>1 DEF MatchInv, NotSentYet
    <3> QED
      BY <2>1, <3>1, <3>2
  <2>12. DoneMatches'
    <3> SUFFICES ASSUME NEW s \in Slot, slots'[s].flags = "DONE",
                        slots'[s].reqid \notin ambig
                 PROVE  slots'[s].cfm = slots'[s].serial
      BY <1>1 DEF DoneMatches
    <3>1. CASE s = w
      BY <2>1, <2>2, <2>8, <3>1 DEF Completed
    <3>2. CASE s # w
      BY <2>1, <2>5, <3>2 DEF DoneMatches
    <3> QED
      BY <3>1, <3>2
  <2> QED
    BY <2>9, <2>10, <2>11, <2>12
<1> QED
  BY <1>2, <1>3

(* A call that returns OK found DONE behind its token. *)
LEMMA OkIsMine ==
  ASSUME TypeOK, OwnSlot, MatchInv, FirstLife, NEW c \in Clients,
         pc[c] # "idle", IsDone(token[c]), reqid[c] \notin ambig
  PROVE  slots[token[c]].cfm = mine[c]
BY DEF TypeOK, OwnSlot, MatchInv, DoneMatches, IsDone

LEMMA MatchTake ==
  ASSUME TypeOK, CallInv, OwnSlot, MatchInv, NEW c \in Clients, Take(c)
  PROVE  MatchInv'
<1> USE DEF TypeOK
<1>1. /\ pc[c] = "take" /\ pc' = [pc EXCEPT ![c] = "idle"]
      /\ UNCHANGED <<inits, token, mine, reqid, wire, ambig>>
  BY DEF Take, Return
<1>2. CASE ~up
  BY <1>1, <1>2, MatchUnchanged DEF Take, Return, IsDone
<1>3. CASE up
  <2>1. token[c] \in Slot /\ TakeSlot(token[c]) /\ MgrTypeOK /\ up' = up
    BY <1>3 DEF Take, TakeSlot
  <2>2. /\ Waiting' = Waiting \ {token[c]}
        /\ slots'[token[c]] = Free
        /\ \A t \in Slot \ {token[c]} : slots'[t] = slots[t]
    BY <2>1, TakeEffect
  <2>3. NotSentYet'
    BY <1>1 DEF NotSentYet, MatchInv
  <2>4. CfmIsMine'
    <3> SUFFICES ASSUME FirstLife', NEW d \in Clients, pc'[d] = "idle",
                        res'[d] = "OK", reqid'[d] \notin ambig'
                 PROVE  got'[d] = mine'[d]
      BY DEF CfmIsMine
    <3>1. CASE d = c
      <4>1. IsDone(token[c]) /\ got'[c] = slots[token[c]].cfm
        BY <3>1 DEF Take, Return
      <4> QED
        BY <1>1, <3>1, <4>1, OkIsMine DEF FirstLife
    <3>2. CASE d # c
      BY <1>1, <3>2 DEF Take, Return, CfmIsMine, MatchInv, FirstLife
    <3> QED
      BY <3>1, <3>2
  <2> SUFFICES ASSUME FirstLife'
               PROVE  (OneWaiter /\ WireAwaited /\ PushedWaits /\ DoneMatches)'
    BY <2>3, <2>4 DEF MatchInv
  <2>5. OneWaiter /\ WireAwaited /\ PushedWaits /\ DoneMatches /\ FirstLife
    BY <1>1, <1>3 DEF MatchInv, FirstLife
  <2>6. slots[token[c]].flags = "DONE" /\ slots[token[c]].serial = mine[c]
    BY <1>1, <1>3, <2>5 DEF OwnSlot
  <2>7. \A r \in CfmIds : WaitingFor(r)' = WaitingFor(r)
    BY <2>2, <2>6 DEF WaitingFor, Waiting, Free
  <2>8. OneWaiter'
    BY <1>1, <2>5, <2>7 DEF OneWaiter
  <2>9. WireAwaited'
    <3> SUFFICES ASSUME NEW m \in wire, m.reqid \notin ambig
                 PROVE  \E s \in WaitingFor(m.reqid)' : slots'[s].serial = m.serial
      BY <1>1 DEF WireAwaited
    <3>1. PICK s \in WaitingFor(m.reqid) : slots[s].serial = m.serial
      BY <2>5 DEF WireAwaited
    <3>2. s \in Slot \ {token[c]} /\ m.reqid \in CfmIds
      BY <2>6, <3>1 DEF WaitingFor, Waiting, Request
    <3> QED
      BY <2>2, <2>7, <3>1, <3>2
  <2>10. PushedWaits'
    BY <1>1, <2>2, <2>5, <2>6 DEF PushedWaits
  <2>11. DoneMatches'
    BY <1>1, <2>2, <2>5 DEF DoneMatches, Free
  <2> QED
    BY <2>8, <2>9, <2>10, <2>11
<1> QED
  BY <1>2, <1>3

LEMMA MatchStep ==
  TypeOK /\ CallInv /\ OwnSlot /\ MatchInv /\ [Next]_vars => MatchInv'
<1> SUFFICES ASSUME TypeOK, CallInv, OwnSlot, MatchInv, [Next]_vars
             PROVE  MatchInv'
  OBVIOUS
<1> USE DEF TypeOK
<1>1. CASE UNCHANGED vars
  BY <1>1, MatchUnchanged DEF vars, clientVars
<1>2. ASSUME NEW c \in Clients, Push(c) PROVE MatchInv'
  BY <1>2, MatchPush
<1>3. ASSUME NEW c \in Clients, PushFails(c) PROVE MatchInv'
  BY <1>3, MatchUnchanged DEF PushFails, Return
<1>4. ASSUME NEW c \in Clients, TxOk(c) PROVE MatchInv'
  BY <1>4, MatchSent DEF TxOk
<1>5. ASSUME NEW c \in Clients, TxFail(c) PROVE MatchInv'
  <2>1. CASE wire' = wire
    BY <1>5, <2>1, MatchUnchanged DEF TxFail, Return
  <2>2. CASE wire' = wire \cup {[reqid |-> reqid[c], serial |-> mine[c]]}
    BY <1>5, <2>2, MatchSent DEF TxFail, Return
  <2> QED
    BY <1>5, <2>1, <2>2 DEF TxFail
<1>6. ASSUME NEW c \in Clients, WaitOk(c) PROVE MatchInv'
  BY <1>6, MatchUnchanged DEF WaitOk
<1>7. ASSUME NEW c \in Clients, WaitOkKeep(c) PROVE MatchInv'
  <2>1. /\ pc[c] = "wait" /\ IsDone(token[c])
        /\ pc' = [pc EXCEPT ![c] = "idle"]
        /\ res' = [res EXCEPT ![c] = "OK"]
        /\ got' = [got EXCEPT ![c] = slots[token[c]].cfm]
        /\ UNCHANGED <<up, slots, queue_sz, inits, token, mine, reqid, wire, ambig>>
    BY <1>7 DEF WaitOkKeep, Return, mgrVars
  <2>2. CfmIsMine'
    <3> SUFFICES ASSUME FirstLife', NEW d \in Clients, pc'[d] = "idle",
                        res'[d] = "OK", reqid'[d] \notin ambig'
                 PROVE  got'[d] = mine'[d]
      BY DEF CfmIsMine
    <3>1. CASE d = c
      BY <2>1, <3>1, OkIsMine DEF FirstLife
    <3>2. CASE d # c
      BY <2>1, <3>2 DEF CfmIsMine, MatchInv, FirstLife
    <3> QED
      BY <3>1, <3>2
  <2>3. NotSentYet'
    BY <2>1 DEF NotSentYet, MatchInv
  <2>4. ASSUME FirstLife', up'
        PROVE  (OneWaiter /\ WireAwaited /\ DoneMatches)'
    BY <2>1, <2>4
    DEF OneWaiter, WireAwaited, DoneMatches, MatchInv, FirstLife,
        WaitingFor, Waiting
  <2>5. ASSUME FirstLife', up' PROVE PushedWaits'
    BY <2>1, <2>5 DEF PushedWaits, MatchInv, FirstLife
  <2> QED
    BY <2>2, <2>3, <2>4, <2>5 DEF MatchInv
<1>8. ASSUME NEW c \in Clients, WaitTimeout(c) PROVE MatchInv'
  BY <1>8, MatchUnchanged DEF WaitTimeout, Return
<1>9. ASSUME NEW c \in Clients, Take(c) PROVE MatchInv'
  BY <1>9, MatchTake
<1>10. ASSUME NEW m \in wire, Confirm(m) PROVE MatchInv'
  BY <1>10, MatchConfirm
<1>11. ASSUME NEW m \in wire, Drop(m) PROVE MatchInv'
  BY <1>11, MatchUnchanged DEF Drop, clientVars
<1>12. CASE SdioInit
  <2>1. /\ wire' = {} /\ slots' = [s \in Slot |-> Free] /\ inits' = inits + 1
        /\ UNCHANGED <<pc, token, mine, reqid, res, got, ambig>>
    BY <1>12 DEF SdioInit, FreshMgr, clientVars
  <2>2. NotSentYet' /\ CfmIsMine'
    BY <2>1 DEF NotSentYet, CfmIsMine, MatchInv, FirstLife
  <2>3. ASSUME FirstLife' PROVE \A c \in Clients : pc'[c] = "idle"
    BY <2>1, <2>3 DEF FirstLife, CallInv
  <2>4. Waiting' = {} /\ \A s \in Slot : slots'[s].flags = "FREE"
    BY <2>1 DEF Waiting, Free
  <2> QED
    BY <2>1, <2>2, <2>3, <2>4
    DEF MatchInv, OneWaiter, WireAwaited, PushedWaits, DoneMatches, WaitingFor
<1>13. CASE SdioExit
  <2>1. ~up' /\ UNCHANGED <<inits, pc, token, mine, reqid, res, got, wire, ambig>>
    BY <1>13 DEF SdioExit, DropMgr, clientVars
  <2> QED
    BY <2>1 DEF MatchInv, NotSentYet, CfmIsMine, FirstLife
<1> QED
  BY <1>1, <1>2, <1>3, <1>4, <1>5, <1>6, <1>7, <1>8, <1>9, <1>10, <1>11,
     <1>12, <1>13, StepCases

LEMMA MatchInit == Init => MatchInv
BY DEF Init, MgrInit, MatchInv, NotSentYet, CfmIsMine

(* A successful call of the first life ends with the answer to its own       *)
(* request, unless two commands waited for its confirmation id at once; late *)
(* CFMs of timed-out or half-sent commands included.                         *)
THEOREM AnswerIsMine == Spec => []CfmIsMine
<1>1. MatchInv => CfmIsMine
  BY DEF MatchInv
<1> QED
  BY <1>1, TypeInit, TypeStep, CallInit, CallStep, OwnStep, MatchInit,
     MatchStep, PTL DEF Spec

-----------------------------------------------------------------------------
LEMMA LifecycleStep ==
  ASSUME TypeOK, CallInv, OwnSlot, [Next]_vars, FirstLife', up, up',
         NEW s \in Slot
  PROVE  SlotStep(s)
<1>0. MgrTypeOK /\ serial + 1 \in Nat
  BY DEF TypeOK
<1> USE DEF mgrVars
<1>1. CASE UNCHANGED vars
  BY <1>1 DEF vars, SlotStep
<1>2. ASSUME NEW c \in Clients, Push(c) PROVE SlotStep(s)
  <2>1. PICK r \in CfmIds : PushCmd(r, serial + 1)
    BY <1>2 DEF Push
  <2>2. CanPush /\ serial' = serial + 1
    BY <1>2 DEF Push
  <2>3. slots[PushSlot] = Free
    BY <1>0, <2>2, PushSlotFree
  <2>4. /\ slots'[PushSlot] = [flags |-> "WAIT_CFM", reqid |-> r,
                               serial |-> serial + 1, cfm |-> 0]
        /\ \A t \in Slot \ {PushSlot} : slots'[t] = slots[t]
    BY <1>0, <2>1, <2>2, PushEffect, Zenon
  <2> QED
    BY <2>2, <2>3, <2>4 DEF SlotStep
<1>3. ASSUME NEW c \in Clients, PushFails(c) PROVE SlotStep(s)
  BY <1>3 DEF PushFails, SlotStep
<1>4. ASSUME NEW c \in Clients, TxOk(c) PROVE SlotStep(s)
  BY <1>4 DEF TxOk, SlotStep
<1>5. ASSUME NEW c \in Clients, TxFail(c) PROVE SlotStep(s)
  BY <1>5 DEF TxFail, SlotStep
<1>6. ASSUME NEW c \in Clients, WaitOk(c) PROVE SlotStep(s)
  BY <1>6 DEF WaitOk, SlotStep
<1>7. ASSUME NEW c \in Clients, WaitOkKeep(c) PROVE SlotStep(s)
  BY <1>7 DEF WaitOkKeep, SlotStep
<1>8. ASSUME NEW c \in Clients, WaitTimeout(c) PROVE SlotStep(s)
  BY <1>8 DEF WaitTimeout, SlotStep
<1>9. ASSUME NEW c \in Clients, Take(c) PROVE SlotStep(s)
  <2>1. /\ token[c] \in Slot /\ TakeSlot(token[c])
        /\ pc[c] = "take" /\ pc' = [pc EXCEPT ![c] = "idle"] /\ inits' = inits
    BY <1>9 DEF Take, Return, TypeOK
  <2>2. /\ slots'[token[c]] = Free
        /\ \A t \in Slot \ {token[c]} : slots'[t] = slots[t]
    BY <1>0, <2>1, TakeEffect
  <2>3. slots[token[c]].flags = "DONE" /\ slots[token[c]].serial = mine[c]
    BY <2>1 DEF OwnSlot, FirstLife
  <2>4. pc'[c] = "idle"
    BY <2>1 DEF TypeOK
  <2> QED
    BY <2>1, <2>2, <2>3, <2>4 DEF SlotStep
<1>10. ASSUME NEW m \in wire, Confirm(m) PROVE SlotStep(s)
  <2>1. m.reqid \in CfmIds /\ m.serial \in Nat /\ OnCfm(m.reqid, m.serial)
    BY <1>10 DEF TypeOK, Request, Confirm
  <2>2. CASE WaitingFor(m.reqid) = {}
    BY <2>1, <2>2 DEF OnCfm, SlotStep
  <2>3. CASE WaitingFor(m.reqid) # {}
    <3> DEFINE w == Min(WaitingFor(m.reqid))
    <3>1. /\ w \in Waiting
          /\ slots'[w] = Completed(slots[w], m.serial)
          /\ \A t \in Slot \ {w} : slots'[t] = slots[t]
      BY <1>0, <2>1, <2>3, CfmEffect, Zenon
    <3> HIDE DEF w
    <3>2. m.serial \in 1 .. serial /\ slots[w].flags = "WAIT_CFM"
      BY <3>1 DEF CallInv, Waiting
    <3> QED
      BY <3>1, <3>2 DEF SlotStep
  <2> QED
    BY <2>2, <2>3
<1>11. ASSUME NEW m \in wire, Drop(m) PROVE SlotStep(s)
  BY <1>11 DEF Drop, SlotStep
<1>12. CASE SdioInit
  BY <1>12 DEF SdioInit, FirstLife, CallInv, TypeOK
<1>13. CASE SdioExit
  BY <1>13 DEF SdioExit, DropMgr
<1> QED
  BY <1>1, <1>2, <1>3, <1>4, <1>5, <1>6, <1>7, <1>8, <1>9, <1>10, <1>11,
     <1>12, <1>13, StepCases

(* In the first life a command enters a free slot, is completed once, and    *)
(* leaves the table only when the call that pushed it takes its CFM.         *)
THEOREM CommandsAreKept == Spec => SlotLifecycle
<1>1. TypeOK /\ CallInv /\ OwnSlot /\ [Next]_vars
        => [FirstLife' /\ up /\ up' => \A s \in Slot : SlotStep(s)]_vars
  BY LifecycleStep
<1> QED
  BY <1>1, TypeInit, TypeStep, CallInit, CallStep, OwnStep, PTL
  DEF Spec, SlotLifecycle
=============================================================================
