---------------------------- MODULE FwInitProofs ----------------------------
(***************************************************************************)
(* Proofs about FwInit, for every table size and every length of the       *)
(* configuration tables and of the images.                                 *)
(***************************************************************************)
EXTENDS FwInit, TLAPS, SequenceTheorems, WellFoundedInduction

LEMMA Constants ==
  /\ MaxPending \in Nat \ {0}
  /\ SyscfgLen \in Nat /\ PatchTblLen \in Nat /\ MaskLen \in Nat
  /\ FwBlocks \in Nat /\ PatchBlocks \in Nat
  /\ CfmIds = {"READ", "WRITE", "MASK_WRITE", "BLOCK_WRITE", "START_APP"}
  BY MaxPendingAssumption, SizesAssumption

-----------------------------------------------------------------------------
(* The plan *)

Reqs == [cfm : CfmIds, take : BOOLEAN, held : BOOLEAN]

LEMMA ReqsOK ==
  /\ Req("READ", TRUE, FALSE) \in Reqs /\ Req("WRITE", TRUE, FALSE) \in Reqs
  /\ Req("WRITE", FALSE, FALSE) \in Reqs /\ Req("MASK_WRITE", FALSE, TRUE) \in Reqs
  /\ Req("BLOCK_WRITE", TRUE, FALSE) \in Reqs /\ Req("START_APP", FALSE, TRUE) \in Reqs
  BY Constants DEF Req, Reqs

LEMMA RepeatIsSeq ==
  ASSUME NEW n \in Nat, NEW x \in Reqs
  PROVE  /\ Repeat(n, x) \in Seq(Reqs) /\ Len(Repeat(n, x)) = n
         /\ \A i \in 1 .. n : Repeat(n, x)[i] = x
  BY DEF Repeat

LEMMA OneIsSeq ==
  ASSUME NEW x \in Reqs
  PROVE  <<x>> \in Seq(Reqs) /\ Len(<<x>>) = 1 /\ <<x>>[1] = x
  OBVIOUS

(* The requests of a chip other than the 8801: all but the last are taken. *)
OthersPlan(n) == <<Req("READ", TRUE, FALSE)>> \o Upload(n) \o StartApp

LEMMA OthersTake ==
  ASSUME NEW n \in Nat
  PROVE  /\ OthersPlan(n) \in Seq(Reqs) /\ Len(OthersPlan(n)) > 0
         /\ \A i \in 1 .. Len(OthersPlan(n)) - 1 : OthersPlan(n)[i].take
<1> DEFINE a == <<Req("READ", TRUE, FALSE)>>
           u == Upload(n)
           c == a \o u
           pl == c \o StartApp
<1>0. Req("READ", TRUE, FALSE).take /\ Req("BLOCK_WRITE", TRUE, FALSE).take
  BY DEF Req
<1>1. a \in Seq(Reqs) /\ Len(a) = 1 /\ a[1].take
  BY <1>0, ReqsOK, OneIsSeq
<1>2. u \in Seq(Reqs) /\ Len(u) = n /\ \A i \in 1 .. n : u[i].take
  <2>1. u \in Seq(Reqs) /\ Len(u) = n /\ \A i \in 1 .. n : u[i] = Req("BLOCK_WRITE", TRUE, FALSE)
    BY ReqsOK, RepeatIsSeq DEF Upload
  <2> QED
    BY <1>0, <2>1
<1>3. StartApp \in Seq(Reqs) /\ Len(StartApp) = 1
  BY ReqsOK, OneIsSeq DEF StartApp
<1> HIDE DEF a, u
<1>a. /\ c \in Seq(Reqs) /\ Len(c) = Len(a) + Len(u)
      /\ \A i \in 1 .. Len(a) + Len(u) :
            c[i] = IF i <= Len(a) THEN a[i] ELSE u[i - Len(a)]
  <2>1. a \in Seq(Reqs) /\ u \in Seq(Reqs)
    BY <1>1, <1>2
  <2> QED
    BY <2>1, ConcatProperties
<1>4. /\ c \in Seq(Reqs) /\ Len(c) = 1 + n
      /\ \A i \in 1 .. 1 + n : c[i] = IF i <= 1 THEN a[i] ELSE u[i - 1]
  BY <1>1, <1>2, <1>a
<1>5. \A i \in 1 .. Len(c) : c[i].take
  <2> SUFFICES ASSUME NEW i \in 1 .. Len(c) PROVE c[i].take
    OBVIOUS
  <2>1. CASE i = 1
    BY <1>1, <1>4, <2>1
  <2>2. CASE i > 1
    <3>1. i - 1 \in 1 .. n /\ c[i] = u[i - 1]
      BY <1>1, <1>2, <1>4, <2>2
    <3> QED
      BY <1>2, <3>1
  <2> QED
    BY <2>1, <2>2
<1> HIDE DEF c
<1>6. /\ pl \in Seq(Reqs) /\ Len(pl) = Len(c) + Len(StartApp)
      /\ \A i \in 1 .. Len(c) + Len(StartApp) :
            pl[i] = IF i <= Len(c) THEN c[i] ELSE StartApp[i - Len(c)]
  BY <1>3, <1>4, ConcatProperties
<1> HIDE DEF pl
<1>7. Len(c) \in Nat
  BY <1>4
<1>8. \A i \in 1 .. Len(pl) - 1 : pl[i].take
  BY <1>3, <1>5, <1>6, <1>7
<1>9. pl \in Seq(Reqs) /\ Len(pl) > 0 /\ \A i \in 1 .. Len(pl) - 1 : pl[i].take
  BY <1>3, <1>6, <1>7, <1>8
<1> QED
  BY <1>9 DEF pl, c, a, u, OthersPlan

(* What the proofs need of a plan. *)
LEMMA PlanShape ==
  ASSUME NEW p, NEW fw \in Nat, NEW patch \in Nat
  PROVE  /\ Plan(p, fw, patch) \in Seq(Reqs)
         /\ Len(Plan(p, fw, patch)) \in Nat /\ Len(Plan(p, fw, patch)) > 0
         /\ p # "Aic8801" =>
              \A i \in 1 .. Len(Plan(p, fw, patch)) - 1 : Plan(p, fw, patch)[i].take
<1>1. CASE p # "Aic8801"
  <2>1. Plan(p, fw, patch) = OthersPlan(fw)
    BY <1>1 DEF Plan, OthersPlan
  <2>2. Len(OthersPlan(fw)) \in Nat
    BY OthersTake
  <2> QED
    BY <2>1, <2>2, OthersTake
<1>2. CASE p = "Aic8801"
  <2> DEFINE a == <<Req("READ", TRUE, FALSE)>>
             s1 == SystemConfig \o Upload(fw)
             s2 == s1 \o Upload(patch)
             s3 == s2 \o PatchConfig
             s4 == s3 \o SysConfig
             b == a \o s4
             pl == b \o StartApp
  <2>1. a \in Seq(Reqs) /\ Len(a) = 1
    BY ReqsOK, OneIsSeq
  <2>2. SystemConfig \in Seq(Reqs) /\ SysConfig \in Seq(Reqs)
    BY ReqsOK, RepeatIsSeq, Constants DEF SystemConfig, SysConfig
  <2>3. Upload(fw) \in Seq(Reqs) /\ Upload(patch) \in Seq(Reqs)
    BY ReqsOK, RepeatIsSeq DEF Upload
  <2>4. PatchConfig \in Seq(Reqs)
    <3>1. 2 + 2 * PatchTblLen \in Nat
      BY Constants
    <3>2. Repeat(2 + 2 * PatchTblLen, Req("WRITE", FALSE, FALSE)) \in Seq(Reqs)
      BY <3>1, ReqsOK, RepeatIsSeq
    <3> QED
      BY <2>1, <3>2, ConcatProperties DEF PatchConfig
  <2>5. StartApp \in Seq(Reqs) /\ Len(StartApp) = 1
    BY ReqsOK, OneIsSeq DEF StartApp
  <2> HIDE DEF a
  <2>6. s1 \in Seq(Reqs)
    BY <2>2, <2>3, ConcatProperties
  <2> HIDE DEF s1
  <2>7. s2 \in Seq(Reqs)
    BY <2>3, <2>6, ConcatProperties
  <2> HIDE DEF s2
  <2>8. s3 \in Seq(Reqs)
    BY <2>4, <2>7, ConcatProperties
  <2> HIDE DEF s3
  <2>9. s4 \in Seq(Reqs)
    BY <2>2, <2>8, ConcatProperties
  <2> HIDE DEF s4
  <2>10. b \in Seq(Reqs)
    BY <2>1, <2>9, ConcatProperties
  <2> HIDE DEF b
  <2>11. pl \in Seq(Reqs) /\ Len(pl) = Len(b) + 1
    <3>1. pl \in Seq(Reqs) /\ Len(pl) = Len(b) + Len(StartApp)
      BY <2>5, <2>10, ConcatProperties
    <3> QED
      BY <2>5, <3>1
  <2>12. Len(b) \in Nat
    BY <2>10
  <2>13. pl = Plan(p, fw, patch)
    BY <1>2 DEF Plan, a, b, s1, s2, s3, s4
  <2> HIDE DEF pl
  <2> QED
    BY <1>2, <2>11, <2>12, <2>13
<1> QED
  BY <1>1, <1>2

-----------------------------------------------------------------------------
(* The command manager, as far as one sender at a time uses it *)

(* The least element of a nonempty set of slots. *)
LEMMA MinOfSlots ==
  ASSUME NEW S \in SUBSET Nat, S # {}
  PROVE  Min(S) \in S
<1> DEFINE R == {p \in Nat \X Nat : p[1] < p[2]}
<1>1. IsWellFoundedOn(R, Nat)
  BY NatLessThanWellFounded, Zenon DEF OpToRel
<1> HIDE DEF R
<1>2. PICK x \in S : \A y \in S : ~ (<<y, x>> \in R)
  BY <1>1, WFMin
<1>3. ASSUME NEW y \in S  PROVE x <= y
  <2>1. <<y, x>> \notin R
    BY <1>2
  <2> QED
    BY <2>1 DEF R
<1> QED
  BY <1>3 DEF Min

LEMMA SlotsAreNat == Slot \in SUBSET Nat /\ Slot # {}
  BY Constants DEF Slot

(* push fills a free slot and leaves the others. *)
LEMMA PushDoes ==
  ASSUME MgrTypeOK, CanPush, NEW r \in CfmIds, NEW n \in Nat, PushCmd(r, n)
  PROVE  /\ MgrTypeOK' /\ PushSlot \in Slot /\ slots[PushSlot] = Free
         /\ slots'[PushSlot] =
              [flags |-> "WAIT_CFM", reqid |-> r, serial |-> n, cfm |-> 0]
         /\ slots'[PushSlot] \in PendingCmd
         /\ \A s \in Slot : s # PushSlot => slots'[s] = slots[s]
<1>1. FreeSlots \in SUBSET Nat /\ FreeSlots # {}
  BY SlotsAreNat DEF CanPush, FreeSlots
<1>2. PushSlot \in FreeSlots
  BY <1>1, MinOfSlots DEF PushSlot
<1>3. PushSlot \in Slot /\ slots[PushSlot] = Free
  BY <1>2 DEF FreeSlots
<1> DEFINE c == [flags |-> "WAIT_CFM", reqid |-> r, serial |-> n, cfm |-> 0]
<1>4. c \in PendingCmd
  BY DEF PendingCmd
<1>5. slots' = [slots EXCEPT ![PushSlot] = c] /\ up' = up /\ queue_sz' = queue_sz + 1
  BY DEF PushCmd
<1> HIDE DEF c
<1>6. /\ slots' \in [Slot -> PendingCmd \cup {Free}] /\ slots'[PushSlot] = c
      /\ \A s \in Slot : s # PushSlot => slots'[s] = slots[s]
  BY <1>3, <1>4, <1>5 DEF MgrTypeOK
<1>7. queue_sz' \in Nat
  BY <1>5 DEF MgrTypeOK
<1>8. MgrTypeOK'
  BY <1>5, <1>6, <1>7 DEF MgrTypeOK
<1> QED
  BY <1>3, <1>4, <1>6, <1>8 DEF c

(* on_cfm keeps the types; with one command waiting, that one is completed. *)
LEMMA CfmDoes ==
  ASSUME MgrTypeOK, NEW r, NEW n \in Nat, OnCfm(r, n)
  PROVE  /\ MgrTypeOK'
         /\ \A s \in Slot : Waiting = {s} /\ slots[s].reqid = r =>
              /\ slots'[s] = Completed(slots[s], n) /\ slots'[s] \in PendingCmd
              /\ \A u \in Slot : u # s => slots'[u] = slots[u]
              /\ queue_sz' = IF queue_sz > 0 THEN queue_sz - 1 ELSE 0
<1>1. up' = up
  BY DEF OnCfm
<1>2. CASE WaitingFor(r) = {}
  <2>1. UNCHANGED <<slots, queue_sz>>
    BY <1>2 DEF OnCfm
  <2>2. MgrTypeOK'
    BY <1>1, <2>1 DEF MgrTypeOK
  <2>3. \A s \in Slot : ~(Waiting = {s} /\ slots[s].reqid = r)
    BY <1>2 DEF WaitingFor
  <2> QED
    BY <2>2, <2>3
<1>3. CASE WaitingFor(r) # {}
  <2> DEFINE m == Min(WaitingFor(r))
             c == Completed(slots[m], n)
  <2>1. WaitingFor(r) \in SUBSET Nat
    BY SlotsAreNat DEF WaitingFor, Waiting
  <2>2. m \in WaitingFor(r)
    BY <1>3, <2>1, MinOfSlots
  <2>3. /\ slots' = [slots EXCEPT ![m] = c]
        /\ queue_sz' = IF queue_sz > 0 THEN queue_sz - 1 ELSE 0
    BY <1>3 DEF OnCfm
  <2> HIDE DEF m
  <2>4. m \in Slot /\ slots[m].flags = "WAIT_CFM" /\ m \in Waiting
    BY <2>2 DEF WaitingFor, Waiting
  <2>5. slots[m] \in PendingCmd
    BY <2>4 DEF MgrTypeOK, Free
  <2>6. c \in PendingCmd
    BY <2>5 DEF Completed, PendingCmd
  <2>7. c = Completed(slots[m], n)
    OBVIOUS
  <2> HIDE DEF c
  <2>8. /\ slots' \in [Slot -> PendingCmd \cup {Free}] /\ slots'[m] = c
        /\ \A u \in Slot : u # m => slots'[u] = slots[u]
    BY <2>3, <2>4, <2>6 DEF MgrTypeOK
  <2>9. queue_sz' \in Nat
    BY <2>3 DEF MgrTypeOK
  <2>10. MgrTypeOK'
    BY <1>1, <2>8, <2>9 DEF MgrTypeOK
  <2>11. \A s \in Slot : Waiting = {s} => s = m
    BY <2>4
  <2> QED
    BY <2>3, <2>6, <2>7, <2>8, <2>10, <2>11
<1> QED
  BY <1>2, <1>3

(* take_cfm frees the slot. *)
LEMMA TakeDoes ==
  ASSUME MgrTypeOK, NEW s \in Slot, TakeSlot(s)
  PROVE  /\ MgrTypeOK' /\ slots'[s] = Free
         /\ \A u \in Slot : u # s => slots'[u] = slots[u]
  BY DEF TakeSlot, MgrTypeOK

-----------------------------------------------------------------------------
(* Types *)

PlanType ==
  /\ product \in Products
  /\ \E fw \in {0, FwBlocks}, patch \in {0, PatchBlocks} :
       plan = Plan(product, fw, patch)

RestType ==
  /\ step \in 1 .. Len(plan)
  /\ pc \in {"start", "push", "tx", "wait", "take", "ok", "fail"}
  /\ token \in Slot
  /\ err \in {"none", "BadState", "ENOMEM", "ETX", "ETIMEDOUT", "EIO"}
  /\ dev \in BOOLEAN
  /\ wire \in 0 .. Len(plan)
  /\ rx \in 0 .. Len(plan)
  /\ executed \in Seq(1 .. Len(plan))
  /\ trouble \in BOOLEAN

LEMMA TypeSplit == TypeOK <=> MgrTypeOK /\ PlanType /\ RestType
  BY DEF TypeOK, PlanType, RestType

LEMMA PlanFacts ==
  ASSUME TypeOK
  PROVE  /\ plan \in Seq(Reqs) /\ Len(plan) \in Nat /\ Len(plan) > 0
         /\ step \in Nat /\ step > 0 /\ step <= Len(plan)
         /\ plan[step] \in Reqs /\ plan[step].cfm \in CfmIds
         /\ product # "Aic8801" => \A i \in 1 .. Len(plan) - 1 : plan[i].take
<1>1. PICK fw \in {0, FwBlocks}, patch \in {0, PatchBlocks} : plan = Plan(product, fw, patch)
  BY DEF TypeOK
<1>2. fw \in Nat /\ patch \in Nat
  BY Constants
<1>3. /\ plan \in Seq(Reqs) /\ Len(plan) \in Nat /\ Len(plan) > 0
      /\ product # "Aic8801" => \A i \in 1 .. Len(plan) - 1 : plan[i].take
  BY <1>1, <1>2, PlanShape
<1>4. step \in 1 .. Len(plan)
  BY DEF TypeOK
<1>5. plan[step] \in Reqs
  BY <1>3, <1>4, ElementOfSeq
<1> QED
  BY <1>3, <1>4, <1>5 DEF Reqs

LEMMA MgrTypeStep ==
  ASSUME TypeOK, [Next]_vars
  PROVE  MgrTypeOK'
<1>0. MgrTypeOK /\ RestType /\ plan[step].cfm \in CfmIds /\ step \in Nat
  BY TypeSplit, PlanFacts
<1>1. ASSUME UNCHANGED mgrVars  PROVE MgrTypeOK'
  BY <1>0, <1>1 DEF mgrVars, MgrTypeOK
<1>2. CASE Push
  BY <1>0, <1>2, PushDoes DEF Push
<1>3. CASE Take \/ TakeFails
  <2>1. TakeSlot(token) \/ UNCHANGED mgrVars
    BY <1>3 DEF Take, TakeFails
  <2> QED
    BY <1>0, <1>1, <2>1, TakeDoes DEF RestType
<1>4. CASE Receive
  <2>1. OnCfm(plan[rx].cfm, rx) /\ rx \in Nat
    BY <1>0, <1>4, PlanFacts DEF Receive, RestType
  <2> QED
    BY <1>0, <2>1, CfmDoes
<1>5. CASE ExitManager
  BY <1>5 DEF ExitManager, DropMgr, MgrTypeOK
<1>6. CASE \/ Start \/ StartFails \/ PushFails \/ TxOk \/ TxFails \/ WaitOk
           \/ WaitTimeout \/ Execute \/ ExitDevice \/ UNCHANGED vars
  BY <1>1, <1>6 DEF Start, StartFails, PushFails, TxOk, TxFails, WaitOk, WaitTimeout,
     Execute, ExitDevice, vars
<1> QED
  BY <1>2, <1>3, <1>4, <1>5, <1>6 DEF Next, Function

(* The function goes on to the next request, or is at its end. *)
LEMMA AdvanceDoes ==
  ASSUME TypeOK, Advance
  PROVE  \/ step = Len(plan) /\ pc' = "ok" /\ step' = step
         \/ step < Len(plan) /\ pc' = "push" /\ step' = step + 1
  BY PlanFacts DEF Advance

LEMMA RestTypeStep ==
  ASSUME TypeOK, [Next]_vars
  PROVE  PlanType' /\ RestType'
<1>0. RestType /\ Len(plan) \in Nat /\ step \in Nat /\ step > 0 /\ step <= Len(plan)
  BY TypeSplit, PlanFacts
<1>1. UNCHANGED <<product, plan>>
  BY DEF Next, Function, Start, StartFails, Push, PushFails, TxOk, TxFails, WaitOk,
     WaitTimeout, Take, TakeFails, Execute, Receive, ExitDevice, ExitManager, vars
<1>p. PlanType'
  BY <1>1, TypeSplit DEF PlanType
<1> SUFFICES RestType'
  BY <1>p
<1>2. CASE Start \/ StartFails \/ PushFails \/ WaitTimeout
  BY <1>0, <1>2 DEF Start, StartFails, PushFails, WaitTimeout, Fail, RestType
<1>3. CASE Push
  BY <1>0, <1>3, TypeSplit, PlanFacts, PushDoes DEF Push, RestType
<1>4. CASE TxOk \/ TxFails
  <2>1. /\ wire' = 0 \/ wire' = step
        /\ pc' \in {"wait", "fail"} /\ err' \in {err, "ETX"}
        /\ trouble' = trouble \/ trouble' = TRUE
        /\ UNCHANGED <<plan, step, token, dev, rx, executed>>
    BY <1>4 DEF TxOk, TxFails, Fail
  <2>2. wire' \in 0 .. Len(plan)
    BY <1>0, <2>1
  <2> QED
    BY <1>0, <2>1, <2>2 DEF RestType
<1>5. CASE WaitOk \/ Take \/ TakeFails
  <2>1. \/ step = Len(plan) /\ pc' = "ok" /\ step' = step
        \/ step < Len(plan) /\ pc' = "push" /\ step' = step + 1
        \/ pc' \in {"take", "fail"} /\ step' = step
    BY <1>5, AdvanceDoes DEF WaitOk, Take, TakeFails, Fail
  <2>2. /\ pc' \in {"ok", "push", "take", "fail"} /\ step' \in 1 .. Len(plan)
    BY <1>0, <2>1
  <2>3. /\ UNCHANGED <<product, plan, token, dev, wire, rx, executed>>
        /\ err' \in {err, "EIO"} /\ trouble' \in {trouble, TRUE}
    BY <1>5 DEF WaitOk, Take, TakeFails, Fail
  <2> QED
    BY <1>0, <2>2, <2>3 DEF RestType
<1>6. CASE Execute
  <2>1. /\ executed' = Append(executed, wire) /\ wire # 0 /\ wire' = 0
        /\ rx' = rx \/ rx' = wire
        /\ trouble' = trouble \/ trouble' = TRUE
        /\ UNCHANGED <<plan, step, pc, token, err, dev>>
    BY <1>6 DEF Execute
  <2>2. wire \in 0 .. Len(plan) /\ rx \in 0 .. Len(plan) /\ executed \in Seq(1 .. Len(plan))
    BY <1>0 DEF RestType
  <2>3. wire \in 1 .. Len(plan)
    BY <1>0, <2>1, <2>2
  <2>4. executed' \in Seq(1 .. Len(plan))
    BY <2>1, <2>2, <2>3, AppendProperties
  <2>5. wire' \in 0 .. Len(plan) /\ rx' \in 0 .. Len(plan)
    BY <1>0, <2>1, <2>2
  <2> QED
    BY <1>0, <2>1, <2>4, <2>5 DEF RestType
<1>7. CASE Receive \/ ExitDevice \/ ExitManager \/ UNCHANGED vars
  <2>1. /\ rx' = 0 \/ rx' = rx
        /\ dev' = FALSE \/ dev' = dev
        /\ trouble' = trouble \/ trouble' = TRUE
        /\ UNCHANGED <<plan, step, pc, token, err, wire, executed>>
    BY <1>7 DEF Receive, ExitDevice, ExitManager, vars
  <2>2. rx' \in 0 .. Len(plan)
    BY <1>0, <2>1 DEF RestType
  <2> QED
    BY <1>0, <2>1, <2>2 DEF RestType
<1> QED
  BY <1>2, <1>3, <1>4, <1>5, <1>6, <1>7 DEF Next, Function

-----------------------------------------------------------------------------
(* The inductive invariant *)

(* How far the chip is: a request is on the wire, executed or answered only   *)
(* while the function waits for it, or after it has failed.                   *)
OrderInv ==
  /\ \A i \in 1 .. Len(executed) : executed[i] = i
  /\ wire # 0 => wire = Len(executed) + 1
  /\ pc \in {"start", "push", "tx"} => wire = 0 /\ rx = 0 /\ Len(executed) = step - 1
  /\ pc = "wait" => \/ wire = step /\ rx = 0 /\ Len(executed) = step - 1
                    \/ wire = 0 /\ rx \in {0, step} /\ Len(executed) = step
  /\ pc = "take" => wire = 0 /\ rx = 0 /\ Len(executed) = step /\ plan[step].take
  /\ pc = "ok" => wire = 0 /\ rx = 0 /\ Len(executed) = Len(plan)

(* The requests made so far whose senders keep their slots. *)
KeptSteps == {i \in 1 .. step - 1 : ~plan[i].take}

(* The slots S of table t hold the commands of steps K, all completed. *)
Holds(t, S, K) ==
  /\ \A s \in S : t[s].flags = "DONE" /\ t[s].serial \in K
  /\ \A i \in K : \E s \in S : t[s].serial = i

TableInv ==
  up =>
    /\ pc \in {"start", "push"} => Holds(slots, Occupied, KeptSteps) /\ queue_sz = 0
    /\ pc \in {"tx", "wait", "take"} =>
         /\ Holds(slots, Occupied \ {token}, KeptSteps)
         /\ slots[token] \in PendingCmd
         /\ slots[token].serial = step /\ slots[token].reqid = plan[step].cfm
         /\ slots[token].flags = "WAIT_CFM" => queue_sz = 1
         /\ slots[token].flags = "DONE" => queue_sz = 0
    /\ pc = "tx" => slots[token].flags = "WAIT_CFM"
    /\ pc = "take" => slots[token].flags = "DONE"
    /\ pc = "wait" /\ slots[token].flags = "DONE" =>
         wire = 0 /\ rx = 0 /\ Len(executed) = step

(* Without a manager there is no device, and without a device trouble. *)
CauseInv ==
  /\ ~up => ~dev
  /\ ~dev => trouble
  /\ product # "Aic8801" /\ pc = "fail" => trouble

-----------------------------------------------------------------------------
(* OrderInv *)

LEMMA OrderStep ==
  ASSUME TypeOK, OrderInv, TableInv, [Next]_vars
  PROVE  OrderInv'
<1>0. /\ Len(plan) \in Nat /\ step \in Nat /\ step > 0 /\ step <= Len(plan)
      /\ executed \in Seq(1 .. Len(plan)) /\ Len(executed) \in Nat
  BY PlanFacts DEF TypeOK
<1>1. ASSUME UNCHANGED <<executed, wire>>, pc' = "fail"  PROVE OrderInv'
  BY <1>1 DEF OrderInv
<1>2. CASE StartFails \/ PushFails \/ WaitTimeout \/ TakeFails
  BY <1>1, <1>2 DEF StartFails, PushFails, WaitTimeout, TakeFails, Fail
<1>3. CASE Start \/ Push
  <2>1. /\ pc \in {"start", "push"} /\ pc' \in {"push", "tx"}
        /\ UNCHANGED <<plan, step, executed, wire, rx>>
    BY <1>3 DEF Start, Push
  <2> QED
    BY <2>1 DEF OrderInv
<1>4. CASE TxOk
  <2>1. pc = "tx" /\ pc' = "wait" /\ wire' = step /\ UNCHANGED <<plan, step, executed, rx>>
    BY <1>4 DEF TxOk
  <2> QED
    BY <1>0, <2>1 DEF OrderInv
<1>5. CASE TxFails
  <2>1. pc = "tx" /\ pc' = "fail" /\ (wire' = 0 \/ wire' = step) /\ UNCHANGED executed
    BY <1>5 DEF TxFails, Fail
  <2> QED
    BY <1>0, <2>1 DEF OrderInv
<1>6. CASE WaitOk
  <2>1. /\ pc = "wait" /\ IsDone(token)
        /\ IF plan[step].take THEN pc' = "take" /\ step' = step ELSE Advance
        /\ UNCHANGED <<plan, executed, wire, rx>>
    BY <1>6 DEF WaitOk, Answered
  <2>2. wire = 0 /\ rx = 0 /\ Len(executed) = step
    BY <2>1 DEF TableInv, IsDone
  <2>3. CASE plan[step].take
    BY <2>1, <2>2, <2>3 DEF OrderInv
  <2>4. CASE Advance
    <3>1. \/ step = Len(plan) /\ pc' = "ok" /\ step' = step
          \/ pc' = "push" /\ step' = step + 1
      BY <2>4, AdvanceDoes
    <3> QED
      BY <1>0, <2>1, <2>2, <3>1 DEF OrderInv
  <2> QED
    BY <2>1, <2>3, <2>4
<1>7. CASE Take
  <2>1. pc = "take" /\ Advance /\ UNCHANGED <<plan, executed, wire, rx>>
    BY <1>7 DEF Take
  <2>2. \/ step = Len(plan) /\ pc' = "ok" /\ step' = step
        \/ pc' = "push" /\ step' = step + 1
    BY <2>1, AdvanceDoes
  <2> QED
    BY <1>0, <2>1, <2>2 DEF OrderInv
<1>8. CASE Execute
  <2>1. /\ wire # 0 /\ executed' = Append(executed, wire) /\ wire' = 0
        /\ rx' = wire \/ rx' = rx
        /\ UNCHANGED <<plan, step, pc>>
    BY <1>8 DEF Execute
  <2>2. wire = Len(executed) + 1 /\ wire \in 1 .. Len(plan)
    BY <1>0, <2>1 DEF OrderInv, TypeOK
  <2>3. /\ Len(executed') = Len(executed) + 1
        /\ \A i \in 1 .. Len(executed) : executed'[i] = executed[i]
        /\ executed'[Len(executed) + 1] = wire
    BY <1>0, <2>1, <2>2, AppendProperties
  <2>4. \A i \in 1 .. Len(executed') : executed'[i] = i
    <3> SUFFICES ASSUME NEW i \in 1 .. Len(executed') PROVE executed'[i] = i
      OBVIOUS
    <3>1. CASE i = Len(executed) + 1
      BY <2>2, <2>3, <3>1
    <3>2. CASE i # Len(executed) + 1
      <4>1. i \in 1 .. Len(executed)
        BY <1>0, <2>3, <3>2
      <4> QED
        BY <2>3, <4>1 DEF OrderInv
    <3> QED
      BY <3>1, <3>2
  <2>5. pc \notin {"start", "push", "tx", "take", "ok"}
    BY <2>1 DEF OrderInv
  <2>6. pc = "wait" => wire = step /\ rx = 0 /\ Len(executed') = step
    BY <1>0, <2>1, <2>3 DEF OrderInv
  <2> QED
    BY <2>1, <2>4, <2>5, <2>6 DEF OrderInv
<1>9. CASE Receive
  <2>1. rx # 0 /\ rx' = 0 /\ UNCHANGED <<plan, step, pc, wire, executed>>
    BY <1>9 DEF Receive
  <2> QED
    BY <2>1 DEF OrderInv
<1>10. CASE ExitDevice \/ ExitManager \/ UNCHANGED vars
  BY <1>10 DEF ExitDevice, ExitManager, vars, OrderInv
<1> QED
  BY <1>2, <1>3, <1>4, <1>5, <1>6, <1>7, <1>8, <1>9, <1>10 DEF Next, Function

-----------------------------------------------------------------------------
(* TableInv *)

LEMMA TableStep ==
  ASSUME TypeOK, OrderInv, TableInv, [Next]_vars
  PROVE  TableInv'
<1>0. /\ Len(plan) \in Nat /\ step \in Nat /\ step > 0 /\ step <= Len(plan)
      /\ MgrTypeOK /\ token \in Slot /\ plan[step].cfm \in CfmIds
  BY PlanFacts DEF TypeOK
<1>1. ASSUME pc' \in {"fail", "ok"}  PROVE TableInv'
  BY <1>1 DEF TableInv
<1>2. CASE StartFails \/ PushFails \/ TxFails \/ WaitTimeout \/ TakeFails
  BY <1>1, <1>2 DEF StartFails, PushFails, TxFails, WaitTimeout, TakeFails, Fail
<1>3. CASE Start
  <2>1. pc = "start" /\ pc' = "push" /\ UNCHANGED <<up, slots, queue_sz, plan, step>>
    BY <1>3 DEF Start, mgrVars
  <2> QED
    BY <2>1 DEF TableInv, Occupied, FreeSlots, KeptSteps
<1>4. CASE TxOk
  <2>1. pc = "tx" /\ pc' = "wait" /\ UNCHANGED <<up, slots, queue_sz, plan, step, token>>
    BY <1>4 DEF TxOk, mgrVars
  <2> QED
    BY <2>1 DEF TableInv, Occupied, FreeSlots, KeptSteps
<1>5. CASE Push
  <2> DEFINE p == PushSlot
  <2>1. /\ pc = "push" /\ CanPush /\ PushCmd(plan[step].cfm, step) /\ pc' = "tx"
        /\ token' = p /\ UNCHANGED <<plan, step>>
    BY <1>5 DEF Push
  <2>2. /\ p \in Slot /\ slots[p] = Free
        /\ slots'[p] = [flags |-> "WAIT_CFM", reqid |-> plan[step].cfm, serial |-> step, cfm |-> 0]
        /\ slots'[p] \in PendingCmd
        /\ \A s \in Slot : s # p => slots'[s] = slots[s]
    BY <1>0, <2>1, PushDoes
  <2>3. up /\ queue_sz' = queue_sz + 1
    BY <2>1 DEF CanPush, PushCmd
  <2> HIDE DEF p
  <2>4. Holds(slots, Occupied, KeptSteps) /\ queue_sz = 0
    BY <2>1, <2>3 DEF TableInv
  <2>5. slots'[p] # Free
    BY <2>2 DEF Free
  <2>6. Occupied' \ {p} = Occupied
    BY <2>2, <2>5 DEF Occupied, FreeSlots
  <2>7. \A s \in Occupied : slots'[s] = slots[s]
    BY <2>2 DEF Occupied, FreeSlots
  <2>8. Holds(slots', Occupied' \ {p}, KeptSteps)
    BY <2>4, <2>6, <2>7 DEF Holds
  <2>9. KeptSteps' = KeptSteps
    BY <2>1 DEF KeptSteps
  <2> QED
    BY <2>1, <2>2, <2>3, <2>4, <2>8, <2>9 DEF TableInv
<1>6. CASE WaitOk
  <2>1. /\ pc = "wait" /\ IsDone(token)
        /\ IF plan[step].take THEN pc' = "take" /\ step' = step ELSE Advance
        /\ UNCHANGED <<up, slots, queue_sz, plan, token>>
    BY <1>6 DEF WaitOk, Answered, mgrVars
  <2>2. up /\ slots[token].flags = "DONE"
    BY <2>1 DEF IsDone
  <2>3. CASE plan[step].take
    <3>1. pc' = "take" /\ step' = step
      BY <2>1, <2>3
    <3> QED
      BY <2>1, <2>2, <3>1 DEF TableInv, Occupied, FreeSlots, KeptSteps
  <2>4. CASE ~plan[step].take
    <3>1. pc' = "ok" \/ (pc' = "push" /\ step' = step + 1)
      BY <2>1, <2>4, AdvanceDoes
    <3> SUFFICES ASSUME pc' = "push", step' = step + 1 PROVE TableInv'
      BY <1>1, <3>1
    <3>2. /\ Holds(slots, Occupied \ {token}, KeptSteps) /\ queue_sz = 0
          /\ slots[token] \in PendingCmd /\ slots[token].serial = step
      BY <2>1, <2>2 DEF TableInv
    <3>3. KeptSteps' = KeptSteps \cup {step}
      BY <1>0, <2>1, <2>4 DEF KeptSteps
    <3>4. token \in Occupied
      <4>1. slots[token] # Free
        BY <2>2 DEF Free
      <4> QED
        BY <1>0, <4>1 DEF Occupied, FreeSlots
    <3>5. Holds(slots, Occupied, KeptSteps')
      BY <2>2, <3>2, <3>3, <3>4 DEF Holds
    <3>6. Occupied' = Occupied
      BY <2>1 DEF Occupied, FreeSlots
    <3> QED
      BY <2>1, <3>2, <3>5, <3>6 DEF TableInv
  <2> QED
    BY <2>3, <2>4
<1>7. CASE Take
  <2>1. /\ pc = "take" /\ Advance /\ UNCHANGED plan
        /\ IF up THEN TakeSlot(token) ELSE UNCHANGED mgrVars
    BY <1>7 DEF Take
  <2>2. pc' = "ok" \/ (pc' = "push" /\ step' = step + 1)
    BY <2>1, AdvanceDoes
  <2>3. up' = up
    BY <2>1 DEF TakeSlot, mgrVars
  <2> SUFFICES ASSUME pc' = "push", step' = step + 1, up PROVE TableInv'
    BY <1>1, <2>2, <2>3 DEF TableInv
  <2>4. TakeSlot(token) /\ queue_sz' = queue_sz
    BY <2>1 DEF TakeSlot
  <2>5. slots'[token] = Free /\ \A u \in Slot : u # token => slots'[u] = slots[u]
    BY <1>0, <2>4, TakeDoes
  <2>6. Holds(slots, Occupied \ {token}, KeptSteps) /\ queue_sz = 0
    BY <2>1 DEF TableInv
  <2>7. Occupied' = Occupied \ {token}
    BY <1>0, <2>5 DEF Occupied, FreeSlots
  <2>8. \A s \in Occupied \ {token} : slots'[s] = slots[s]
    BY <2>5 DEF Occupied
  <2>9. KeptSteps' = KeptSteps
    <3>1. plan[step].take
      BY <2>1 DEF OrderInv
    <3> QED
      BY <1>0, <2>1, <3>1 DEF KeptSteps
  <2>10. Holds(slots', Occupied', KeptSteps')
    BY <2>6, <2>7, <2>8, <2>9 DEF Holds
  <2> QED
    BY <2>4, <2>6, <2>10 DEF TableInv
<1>8. CASE Execute
  <2>1. /\ wire # 0 /\ UNCHANGED <<up, slots, queue_sz, plan, step, pc, token>>
    BY <1>8 DEF Execute, mgrVars
  <2>2. pc = "wait" /\ up => slots[token].flags # "DONE"
    BY <2>1 DEF TableInv
  <2> QED
    BY <2>1, <2>2 DEF TableInv, Occupied, FreeSlots, KeptSteps
<1>9. CASE Receive
  <2>1. /\ rx # 0 /\ up /\ OnCfm(plan[rx].cfm, rx) /\ rx' = 0
        /\ UNCHANGED <<plan, step, pc, token, wire, executed>>
    BY <1>9 DEF Receive
  <2>2. pc \notin {"start", "push", "tx", "take", "ok"}
    BY <2>1 DEF OrderInv
  <2>3. CASE pc = "wait"
    <3>1. rx = step /\ wire = 0 /\ Len(executed) = step
      BY <2>1, <2>3 DEF OrderInv
    <3>2. /\ Holds(slots, Occupied \ {token}, KeptSteps)
          /\ slots[token] \in PendingCmd
          /\ slots[token].serial = step /\ slots[token].reqid = plan[step].cfm
          /\ slots[token].flags = "WAIT_CFM" => queue_sz = 1
          /\ slots[token].flags # "DONE"
      BY <2>1, <2>3, <3>1 DEF TableInv
    <3>3. slots[token].flags = "WAIT_CFM" /\ queue_sz = 1
      BY <3>2 DEF PendingCmd
    <3>4. Waiting = {token}
      <4>1. \A s \in Slot : s # token => slots[s].flags # "WAIT_CFM"
        <5> SUFFICES ASSUME NEW s \in Slot, s # token PROVE slots[s].flags # "WAIT_CFM"
          OBVIOUS
        <5>1. CASE slots[s] = Free
          BY <5>1 DEF Free
        <5>2. CASE slots[s] # Free
          <6>1. s \in Occupied \ {token}
            BY <5>2 DEF Occupied, FreeSlots
          <6> QED
            BY <3>2, <6>1 DEF Holds
        <5> QED
          BY <5>1, <5>2
      <4> QED
        BY <1>0, <3>3, <4>1 DEF Waiting
    <3>5. /\ slots'[token] = Completed(slots[token], step) /\ slots'[token] \in PendingCmd
          /\ \A u \in Slot : u # token => slots'[u] = slots[u]
          /\ queue_sz' = 0
      <4>1. OnCfm(plan[step].cfm, step)
        BY <2>1, <3>1
      <4> QED
        BY <1>0, <3>2, <3>3, <3>4, <4>1, CfmDoes
    <3>6. /\ slots'[token].flags = "DONE" /\ slots'[token].serial = step
          /\ slots'[token].reqid = plan[step].cfm
      BY <3>2, <3>5 DEF Completed
    <3>7. Occupied' \ {token} = Occupied \ {token}
      BY <3>5 DEF Occupied, FreeSlots
    <3>8. \A s \in Occupied \ {token} : slots'[s] = slots[s]
      BY <3>5 DEF Occupied
    <3>9. Holds(slots', Occupied' \ {token}, KeptSteps)
      BY <3>2, <3>7, <3>8 DEF Holds
    <3>10. KeptSteps' = KeptSteps
      BY <2>1 DEF KeptSteps
    <3> QED
      BY <2>1, <2>3, <3>1, <3>5, <3>6, <3>9, <3>10 DEF TableInv
  <2>4. CASE pc = "fail"
    BY <1>1, <2>1, <2>4
  <2> QED
    BY <2>2, <2>3, <2>4 DEF TypeOK
<1>10. CASE ExitManager
  BY <1>10 DEF ExitManager, DropMgr, TableInv
<1>11. CASE ExitDevice \/ UNCHANGED vars
  <2>1. UNCHANGED <<up, slots, queue_sz, plan, step, pc, token, wire, rx, executed>>
    BY <1>11 DEF ExitDevice, vars, mgrVars
  <2> QED
    BY <2>1 DEF TableInv, Occupied, FreeSlots, KeptSteps
<1> QED
  BY <1>2, <1>3, <1>4, <1>5, <1>6, <1>7, <1>8, <1>9, <1>10, <1>11 DEF Next, Function

-----------------------------------------------------------------------------
(* CauseInv *)

LEMMA CauseStep ==
  ASSUME TypeOK, TableInv, CauseInv, [Next]_vars
  PROVE  CauseInv'
<1>1. ASSUME UNCHANGED <<up, dev>>, product' = product,
             trouble' = TRUE \/ (trouble' = trouble /\ pc' # "fail")
      PROVE  CauseInv'
  BY <1>1 DEF CauseInv
<1>2. CASE StartFails \/ TxFails \/ WaitTimeout
  BY <1>1, <1>2 DEF StartFails, TxFails, WaitTimeout, mgrVars
<1>3. CASE TakeFails
  BY <1>1, <1>3 DEF TakeFails, TakeSlot, mgrVars
<1>4. CASE Start \/ TxOk
  BY <1>1, <1>4 DEF Start, TxOk, mgrVars
<1>5. CASE Push
  BY <1>1, <1>5 DEF Push, PushCmd
<1>6. CASE WaitOk \/ Take
  <2>1. pc' # "fail"
    BY <1>6 DEF WaitOk, Take, Advance
  <2> QED
    BY <1>1, <1>6, <2>1 DEF WaitOk, Take, TakeSlot, mgrVars
<1>7. CASE PushFails
  <2>1. pc = "push" /\ ~CanPush /\ UNCHANGED <<up, dev, product, trouble>>
    BY <1>7 DEF PushFails, mgrVars
  <2>2. product # "Aic8801" => trouble
    <3> SUFFICES ASSUME product # "Aic8801", up PROVE FALSE
      BY DEF CauseInv
    <3>1. Holds(slots, Occupied, KeptSteps) /\ queue_sz = 0
      BY <2>1 DEF TableInv
    <3>2. KeptSteps = {}
      BY PlanFacts DEF KeptSteps
    <3>3. Occupied = {}
      BY <3>1, <3>2 DEF Holds
    <3>4. 0 \in Slot /\ 0 < MaxPending
      BY Constants DEF Slot
    <3>5. 0 \in FreeSlots
      BY <3>3, <3>4 DEF Occupied
    <3> QED
      BY <2>1, <3>1, <3>4, <3>5 DEF CanPush
  <2> QED
    BY <2>1, <2>2 DEF CauseInv
<1>8. CASE Execute
  <2>1. UNCHANGED <<up, dev, product, pc>> /\ (trouble' = TRUE \/ trouble' = trouble)
    BY <1>8 DEF Execute, mgrVars
  <2> QED
    BY <2>1 DEF CauseInv
<1>9. CASE Receive
  <2>1. UNCHANGED <<up, dev, product, pc, trouble>>
    BY <1>9 DEF Receive, OnCfm
  <2> QED
    BY <2>1 DEF CauseInv
<1>10. CASE ExitDevice
  BY <1>10 DEF ExitDevice, mgrVars, CauseInv
<1>11. CASE ExitManager
  BY <1>11 DEF ExitManager, DropMgr, CauseInv
<1>12. CASE UNCHANGED vars
  BY <1>12 DEF vars, mgrVars, CauseInv
<1> QED
  BY <1>2, <1>3, <1>4, <1>5, <1>6, <1>7, <1>8, <1>9, <1>10, <1>11, <1>12
     DEF Next, Function

-----------------------------------------------------------------------------
(* The theorems *)

IInv == TypeOK /\ OrderInv /\ TableInv /\ CauseInv

LEMMA InvInit == Init => IInv
<1> SUFFICES ASSUME Init PROVE IInv
  OBVIOUS
<1>1. MgrTypeOK
  BY DEF Init, MgrTypeOK
<1>2. PlanType
  BY DEF Init, PlanType
<1>3. PICK fw \in {0, FwBlocks}, patch \in {0, PatchBlocks} : plan = Plan(product, fw, patch)
  BY DEF Init
<1>4. fw \in Nat /\ patch \in Nat
  BY Constants
<1>5. Len(plan) \in Nat /\ Len(plan) > 0
  BY <1>3, <1>4, PlanShape
<1>6. 0 \in Slot
  BY Constants DEF Slot
<1>7. executed \in Seq(1 .. Len(plan)) /\ Len(executed) = 0
  BY EmptySeq DEF Init
<1>8. RestType
  BY <1>5, <1>6, <1>7 DEF Init, RestType
<1>9. OrderInv
  BY <1>7 DEF Init, OrderInv
<1>10. TableInv
  <2>1. Occupied = {}
    BY DEF Init, Occupied, FreeSlots
  <2>2. KeptSteps = {}
    BY DEF Init, KeptSteps
  <2> QED
    BY <2>1, <2>2 DEF Init, TableInv, Holds
<1>11. CauseInv
  BY DEF Init, CauseInv
<1> QED
  BY <1>1, <1>2, <1>8, <1>9, <1>10, <1>11, TypeSplit DEF IInv

LEMMA TypeStep ==
  ASSUME TypeOK, [Next]_vars
  PROVE  TypeOK'
<1>1. MgrTypeOK' /\ PlanType' /\ RestType'
  BY MgrTypeStep, RestTypeStep
<1> QED
  BY <1>1 DEF TypeOK, PlanType, RestType

LEMMA InvStep == IInv /\ [Next]_vars => IInv'
  BY TypeStep, OrderStep, TableStep, CauseStep DEF IInv

LEMMA Inductive == Spec => []IInv
  BY InvInit, InvStep, PTL DEF Spec

(* Every variable of the bring-up keeps its type, for every plan. *)
THEOREM TypeCorrect == Spec => []TypeOK
<1>1. IInv => TypeOK
  BY DEF IInv
<1> QED
  BY <1>1, Inductive, PTL

(* The chip executes the requests of aicbsp_driver_fw_init in order, each at  *)
(* most once, and all of them before it returns Ok, however long the tables   *)
(* and the images are.                                                        *)
THEOREM ExecutedInOrder == Spec => []InOrder
<1>1. IInv => InOrder
  <2> SUFFICES ASSUME IInv PROVE InOrder
    OBVIOUS
  <2>1. TypeOK /\ OrderInv
    BY DEF IInv
  <2>2. executed \in Seq(1 .. Len(plan)) /\ step \in Nat
    BY <2>1, PlanFacts DEF TypeOK
  <2>3. Len(executed) \in Nat /\ executed \in [1 .. Len(executed) -> 1 .. Len(plan)]
    BY <2>2, LenProperties
  <2>4. executed = [i \in 1 .. Len(executed) |-> i]
    BY <2>1, <2>3 DEF OrderInv
  <2>5. pc = "wait" => Len(executed) >= step - 1
    <3>1. pc = "wait" => Len(executed) = step - 1 \/ Len(executed) = step
      BY <2>1 DEF OrderInv
    <3> QED
      BY <2>2, <3>1
  <2> QED
    BY <2>1, <2>4, <2>5 DEF OrderInv, InOrder
<1> QED
  BY <1>1, Inductive, PTL

(* Between two requests exactly the commands whose senders do not call        *)
(* take_cfm occupy slots, for every plan: that is why eight of them fill the  *)
(* table of an 8801.                                                          *)
THEOREM KeptAndNoOther == Spec => []OnlyKeptOccupy
<1>1. IInv => OnlyKeptOccupy
  <2> SUFFICES ASSUME IInv, pc = "push", up
               PROVE  /\ {slots[s].serial : s \in Occupied} = {i \in 1 .. step - 1 : ~plan[i].take}
                      /\ Waiting = {}
                      /\ queue_sz = 0
    BY DEF OnlyKeptOccupy
  <2>1. Holds(slots, Occupied, KeptSteps) /\ queue_sz = 0
    BY DEF IInv, TableInv
  <2>2. {slots[s].serial : s \in Occupied} = KeptSteps
    BY <2>1 DEF Holds
  <2>3. Waiting = {}
    <3> SUFFICES ASSUME NEW s \in Slot PROVE slots[s].flags # "WAIT_CFM"
      BY DEF Waiting
    <3>1. CASE slots[s] = Free
      BY <3>1 DEF Free
    <3>2. CASE slots[s] # Free
      <4>1. s \in Occupied
        BY <3>2 DEF Occupied, FreeSlots
      <4> QED
        BY <2>1, <4>1 DEF Holds
    <3> QED
      BY <3>1, <3>2
  <2> QED
    BY <2>1, <2>2, <2>3 DEF KeptSteps
<1> QED
  BY <1>1, Inductive, PTL

(* A bring-up of a chip other than the 8801 fails only for a reason outside   *)
(* the driver, whatever the size of its image and of the table.               *)
THEOREM OthersHaveCause == Spec => []OthersFailForCause
<1>1. IInv => OthersFailForCause
  BY DEF IInv, CauseInv, OthersFailForCause
<1> QED
  BY <1>1, Inductive, PTL
=============================================================================
