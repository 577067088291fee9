---------------------------- MODULE BusTxProofs -----------------------------
(***************************************************************************)
(* Proofs about BusTx, for any number of senders, chunks, messages,        *)
(* restarts and EAGAINs.                                                   *)
(***************************************************************************)
EXTENDS BusTx, TLAPS, SequenceTheorems

USE BusTxAssumption

(* bustx has a message in its hands that it may still write. *)
InHand == tpc \in {"send", "again"}

(* Messages move from PENDING_CMD_TX through bustx to the chip and never      *)
(* back: what is written is older than what bustx holds, which is older than  *)
(* what is pending.                                                           *)
Order ==
  /\ pending <= serial
  /\ InHand => cur <= serial
  /\ InHand /\ pending # 0 => cur < pending
  /\ \A i \in DOMAIN written :
       /\ written[i] <= serial
       /\ InHand => written[i] < cur
       /\ pending # 0 => written[i] < pending

OrderInv == Order /\ WrittenOnce

IsWritten(m) == \E i \in DOMAIN written : written[i] = m

(* What a sender that had the path to itself can rely on while it waits:      *)
(* the only message anywhere is its own.                                      *)
OnlyMine(c) ==
  /\ \A d \in Clients : d # c => ~Calling(d)
  /\ pc[c] = "cleared" =>
       /\ pending = 0 /\ result = 0
       /\ tpc \notin {"send", "again", "report"}
       /\ res[c] = "none"
  /\ Calling(c) /\ pc[c] # "cleared" =>
       /\ pending \in {0, mine[c]}
       /\ tpc \in {"send", "again", "report"} => cur = mine[c]
       /\ result \in {0, mine[c]}
       /\ result # 0 /\ ~failed => IsWritten(mine[c])
       /\ res[c] = "none"

OwnInv == (\A c \in Clients : fresh[c] => OnlyMine(c)) /\ OwnResult

-----------------------------------------------------------------------------
(* What Append adds to written. *)
LEMMA AppendWritten ==
  ASSUME NEW s \in Seq(Nat), NEW m \in Nat
  PROVE  /\ Append(s, m) \in Seq(Nat)
         /\ DOMAIN s = 1 .. Len(s) /\ Len(s) \in Nat
         /\ DOMAIN Append(s, m) = 1 .. Len(s) + 1
         /\ \A i \in DOMAIN s : Append(s, m)[i] = s[i] /\ s[i] \in Nat
         /\ Append(s, m)[Len(s) + 1] = m
<1>1. Len(Append(s, m)) = Len(s) + 1
  BY AppendProperties
<1> QED
  BY <1>1, AppendProperties, LenProperties, ElementOfSeq

(* The disjuncts of Next, one at a time. *)
LEMMA StepCases ==
  ASSUME Next
  PROVE  \/ \E c \in Clients :
              \/ Clear(c) \/ Post(c) \/ Notify(c) \/ Enter(c)
              \/ ChunkTimeout(c) \/ TakeResult(c) \/ NoResult(c)
         \/ BustxLoop \/ BustxEnter \/ BustxTimeout \/ BustxTake
         \/ SendOk \/ SendFails \/ SendAgain \/ Resend \/ BustxReport
         \/ StoreDevice \/ EnsureBustx \/ StopBustx \/ DropDevice
  BY DEF Next, Client, Bustx

-----------------------------------------------------------------------------
(* Type correctness. *)

LEMMA TypeInit == Init => TypeOK
<1>1. /\ 0 \in 0 .. MaxInits /\ 0 \in 0 .. MaxCardInts
      /\ 0 \in 0 .. MaxChunks - 1 /\ 0 \in Nat
  OBVIOUS
<1>2. <<>> \in Seq(Nat)
  BY EmptySeq
<1> QED
  BY <1>1, <1>2, Zenon DEF Init, TypeOK

LEMMA TypeStep == TypeOK /\ [Next]_vars => TypeOK'
<1> SUFFICES ASSUME TypeOK, [Next]_vars
             PROVE  TypeOK'
  OBVIOUS
<1> USE DEF TypeOK, lifeVars, threadVars, clientVars
<1>1. ASSUME NEW c \in Clients, Clear(c)  PROVE TypeOK'
  <2>1. \A d \in Clients : (d = c /\ Quiet) \in BOOLEAN
    OBVIOUS
  <2> QED
    BY <1>1, <2>1 DEF Clear
<1>2. ASSUME NEW c \in Clients, Post(c)  PROVE TypeOK'
  BY <1>2 DEF Post
<1>3. ASSUME NEW c \in Clients, Notify(c)  PROVE TypeOK'
  BY <1>3 DEF Notify, NotifyBustx
<1>4. ASSUME NEW c \in Clients, Enter(c)  PROVE TypeOK'
  BY <1>4 DEF Enter
<1>5. ASSUME NEW c \in Clients, ChunkTimeout(c)  PROVE TypeOK'
  BY <1>5 DEF ChunkTimeout
<1>6. ASSUME NEW c \in Clients, TakeResult(c)  PROVE TypeOK'
  <2>1. 0 \in 0 .. MaxChunks - 1
    OBVIOUS
  <2>2. (IF failed THEN "ERR" ELSE "OK") \in {"none", "OK", "ERR", "ETIMEDOUT"}
    BY Zenon
  <2> QED
    BY <1>6, <2>1, <2>2 DEF TakeResult, Return
<1>7. ASSUME NEW c \in Clients, NoResult(c)  PROVE TypeOK'
  <2>1. CASE pc[c] = "late" /\ chunks[c] + 1 >= MaxChunks
    <3>1. 0 \in 0 .. MaxChunks - 1
      OBVIOUS
    <3> QED
      BY <1>7, <2>1, <3>1 DEF NoResult, Return
  <2>2. CASE ~(pc[c] = "late" /\ chunks[c] + 1 >= MaxChunks)
    <3>1. (IF pc[c] = "late" THEN chunks[c] + 1 ELSE chunks[c])
            \in 0 .. MaxChunks - 1
      BY <2>2
    <3> QED
      BY <1>7, <2>2, <3>1 DEF NoResult
  <2> QED
    BY <2>1, <2>2
<1>8. ASSUME BustxLoop \/ BustxEnter \/ BustxTimeout \/ Resend  PROVE TypeOK'
  BY <1>8 DEF BustxLoop, BustxEnter, BustxTimeout, Resend
<1>9. ASSUME BustxTake  PROVE TypeOK'
  BY <1>9 DEF BustxTake
<1>10. ASSUME SendOk \/ SendFails  PROVE TypeOK'
  <2>1. written' \in Seq(Nat)
    BY <1>10, AppendWritten DEF SendOk, SendFails
  <2> QED
    BY <1>10, <2>1 DEF SendOk, SendFails, StoreResult
<1>11. ASSUME SendAgain  PROVE TypeOK'
  BY <1>11 DEF SendAgain
<1>12. ASSUME BustxReport  PROVE TypeOK'
  <2>1. pc' \in [Clients -> {"idle", "cleared", "posted", "enter", "queue",
                              "woken", "late"}]
    BY <1>12 DEF BustxReport, NotifyTxDone
  <2> QED
    BY <1>12, <2>1 DEF BustxReport
<1>13. ASSUME StoreDevice \/ EnsureBustx \/ StopBustx \/ DropDevice  PROVE TypeOK'
  <2>1. CASE StoreDevice
    BY <2>1 DEF StoreDevice
  <2>2. CASE EnsureBustx
    BY <2>2 DEF EnsureBustx
  <2>3. CASE StopBustx
    BY <2>3 DEF StopBustx, NotifyBustx
  <2>4. CASE DropDevice
    BY <2>4 DEF DropDevice
  <2> QED
    BY <1>13, <2>1, <2>2, <2>3, <2>4
<1>14. ASSUME UNCHANGED vars  PROVE TypeOK'
  BY <1>14 DEF vars
<1> QED
  BY <1>1, <1>2, <1>3, <1>4, <1>5, <1>6, <1>7, <1>8, <1>9, <1>10, <1>11,
     <1>12, <1>13, <1>14, StepCases

(* Every variable keeps its type; in particular the sum of timed-out chunks   *)
(* never reaches the limit at which submit_cmd_tx_and_wait_tx_done returns.   *)
THEOREM TypeCorrect == Spec => []TypeOK
  BY TypeInit, TypeStep, PTL DEF Spec

-----------------------------------------------------------------------------
(* WrittenOnce *)

(* A step that changes neither cell nor the hands of bustx. *)
LEMMA OrderUnchanged ==
  ASSUME OrderInv, UNCHANGED <<pending, serial, cur, written>>, InHand' => InHand
  PROVE  OrderInv'
  BY DEF OrderInv, Order, WrittenOnce, InHand

LEMMA OrderStep == TypeOK /\ OrderInv /\ [Next]_vars => OrderInv'
<1> SUFFICES ASSUME TypeOK, OrderInv, [Next]_vars
             PROVE  OrderInv'
  OBVIOUS
<1> USE DEF lifeVars, threadVars, clientVars
<1>1. ASSUME NEW c \in Clients, Clear(c) \/ Notify(c) \/ Enter(c)
               \/ ChunkTimeout(c) \/ TakeResult(c) \/ NoResult(c)
      PROVE  OrderInv'
  <2>1. UNCHANGED <<pending, serial, cur, written>> /\ (InHand' => InHand)
    BY <1>1 DEF Clear, Notify, Enter, ChunkTimeout, TakeResult, NoResult,
                NotifyBustx, InHand
  <2> QED
    BY <2>1, OrderUnchanged
<1>2. ASSUME NEW c \in Clients, Post(c)  PROVE OrderInv'
  <2>1. \A i \in DOMAIN written : written[i] \in Nat
    BY ElementOfSeq, LenProperties DEF TypeOK
  <2> QED
    BY <1>2, <2>1 DEF Post, OrderInv, Order, WrittenOnce, InHand, TypeOK
<1>3. ASSUME BustxLoop \/ BustxEnter \/ BustxTimeout \/ SendAgain \/ Resend
             \/ StoreDevice \/ EnsureBustx \/ StopBustx \/ DropDevice
      PROVE  OrderInv'
  <2>1. UNCHANGED <<pending, serial, cur, written>> /\ (InHand' => InHand)
    BY <1>3 DEF BustxLoop, BustxEnter, BustxTimeout, SendAgain, Resend,
         StoreDevice, EnsureBustx, StopBustx, DropDevice, NotifyBustx, InHand
  <2> QED
    BY <2>1, OrderUnchanged
<1>4. ASSUME BustxTake  PROVE OrderInv'
  BY <1>4 DEF BustxTake, OrderInv, Order, WrittenOnce, InHand, TypeOK
<1>5. ASSUME SendOk \/ SendFails  PROVE OrderInv'
  <2>1. /\ tpc = "send" /\ tpc' = "report"
        /\ UNCHANGED <<pending, serial, cur>>
        /\ written' = written \/ written' = Append(written, cur)
    BY <1>5 DEF SendOk, SendFails, StoreResult
  <2>2. CASE written' = written
    BY <2>1, <2>2 DEF OrderInv, Order, WrittenOnce, InHand
  <2>3. CASE written' = Append(written, cur)
    <3> DEFINE n == Len(written)
    <3>1. /\ n \in Nat /\ DOMAIN written = 1 .. n
          /\ DOMAIN written' = 1 .. n + 1
          /\ \A i \in 1 .. n : written'[i] = written[i] /\ written[i] \in Nat
          /\ written'[n + 1] = cur
      BY <2>3, AppendWritten DEF TypeOK
    <3>2. \A i \in 1 .. n : written[i] < cur
      BY <2>1, <3>1 DEF OrderInv, Order, InHand
    <3> HIDE DEF n
    <3>3. WrittenOnce'
      BY <3>1, <3>2 DEF OrderInv, WrittenOnce, TypeOK
    <3>4. Order'
      BY <2>1, <3>1 DEF OrderInv, Order, InHand, TypeOK
    <3> QED
      BY <3>3, <3>4 DEF OrderInv
  <2> QED
    BY <2>1, <2>2, <2>3
<1>6. ASSUME BustxReport  PROVE OrderInv'
  BY <1>6 DEF BustxReport, OrderInv, Order, WrittenOnce, InHand
<1>7. ASSUME UNCHANGED vars  PROVE OrderInv'
  BY <1>7, OrderUnchanged DEF vars, InHand
<1> QED
  BY <1>1, <1>2, <1>3, <1>4, <1>5, <1>6, <1>7, StepCases

(* bustx writes no message twice and none after a later one, for any number   *)
(* of senders that overwrite PENDING_CMD_TX, time out or are restarted.       *)
THEOREM NoMessageTwice == Spec => []WrittenOnce
<1>1. Init => OrderInv
  BY DEF Init, OrderInv, Order, WrittenOnce, InHand
<1>2. OrderInv => WrittenOnce
  BY DEF OrderInv
<1> QED
  BY <1>1, <1>2, OrderStep, TypeCorrect, PTL DEF Spec

-----------------------------------------------------------------------------
(* OwnResult *)

(* A step of a call under way: no other sender had the path to itself. *)
LEMMA FreshIsCaller ==
  ASSUME OwnInv, NEW c \in Clients, Calling(c), NEW d \in Clients, fresh[d]
  PROVE  d = c
  BY DEF OwnInv, OnlyMine

(* A written message stays written. *)
LEMMA WrittenGrows ==
  ASSUME TypeOK, NEW m, IsWritten(m),
         written' = written \/ written' = Append(written, cur)
  PROVE  IsWritten(m)'
<1>1. CASE written' = written
  BY <1>1 DEF IsWritten
<1>2. CASE written' = Append(written, cur)
  <2>1. PICK i \in DOMAIN written : written[i] = m
    BY DEF IsWritten
  <2>2. /\ Len(written) \in Nat /\ DOMAIN written = 1 .. Len(written)
        /\ DOMAIN written' = 1 .. Len(written) + 1
        /\ written'[i] = written[i]
    BY <1>2, AppendWritten DEF TypeOK
  <2>3. i \in DOMAIN written'
    BY <2>2
  <2> QED
    BY <2>1, <2>2, <2>3 DEF IsWritten
<1> QED
  BY <1>1, <1>2

(* Steps of bustx and of the power sequence that leave the senders and both   *)
(* cells alone.                                                               *)
LEMMA OwnUnchanged ==
  ASSUME OwnInv, UNCHANGED <<pending, result, failed, clientVars, written>>,
         \/ tpc' \notin {"send", "again", "report"}
         \/ tpc \in {"send", "again", "report"} /\ cur' = cur
  PROVE  OwnInv'
  BY DEF OwnInv, OnlyMine, OwnResult, IsWritten, Calling, clientVars

LEMMA OwnStep == TypeOK /\ OwnInv /\ [Next]_vars => OwnInv'
<1> SUFFICES ASSUME TypeOK, OwnInv, [Next]_vars
             PROVE  OwnInv'
  OBVIOUS
<1> USE DEF lifeVars, threadVars, clientVars
<1>1. ASSUME NEW c \in Clients, Clear(c)  PROVE OwnInv'
  <2>1. /\ \A d \in Clients : fresh'[d] => d = c /\ Quiet
        /\ pc' = [pc EXCEPT ![c] = "cleared"]
        /\ res' = [res EXCEPT ![c] = "none"]
        /\ result' = 0 /\ pending' = pending /\ tpc' = tpc
    BY <1>1 DEF Clear
  <2>2. ASSUME NEW d \in Clients, fresh'[d]  PROVE OnlyMine(d)' /\ res'[d] = "none"
    BY <2>1, <2>2 DEF OnlyMine, Quiet, Calling, TypeOK
  <2> QED
    BY <2>2 DEF OwnInv, OwnResult
<1>2. ASSUME NEW c \in Clients, Post(c)  PROVE OwnInv'
  <2>1. Calling(c) /\ fresh' = fresh
    BY <1>2 DEF Post, Calling
  <2>2. ASSUME NEW d \in Clients, fresh'[d]  PROVE OnlyMine(d)' /\ res'[d] = "none"
    <3>1. d = c /\ OnlyMine(c)
      BY <2>1, <2>2, FreshIsCaller DEF OwnInv
    <3> QED
      BY <1>2, <3>1 DEF Post, OnlyMine, Calling, TypeOK
  <2> QED
    BY <2>2 DEF OwnInv, OwnResult
<1>3. ASSUME NEW c \in Clients, Notify(c) \/ Enter(c) \/ ChunkTimeout(c)
      PROVE  OwnInv'
  <2>1. /\ Calling(c) /\ pc[c] # "cleared"
        /\ UNCHANGED <<fresh, pending, result, failed, mine, res, got, cur, written>>
        /\ pc' = [pc EXCEPT ![c] = pc'[c]]
        /\ pc'[c] \in {"enter", "queue", "late"}
        /\ tpc' \in {"send", "again", "report"} => tpc' = tpc
    BY <1>3 DEF Notify, Enter, ChunkTimeout, NotifyBustx, Calling, TypeOK
  <2>2. ASSUME NEW d \in Clients, fresh'[d]  PROVE OnlyMine(d)'
    <3>1. d = c /\ OnlyMine(c)
      BY <2>1, <2>2, FreshIsCaller DEF OwnInv
    <3> QED
      BY <2>1, <3>1 DEF OnlyMine, Calling, IsWritten, TypeOK
  <2> QED
    BY <2>1, <2>2 DEF OwnInv, OwnResult
<1>4. ASSUME NEW c \in Clients, TakeResult(c)  PROVE OwnInv'
  <2>1. /\ Calling(c) /\ pc[c] # "cleared"
        /\ UNCHANGED <<fresh, mine, written>>
        /\ pc' = [pc EXCEPT ![c] = "idle"]
        /\ res' = [res EXCEPT ![c] = IF failed THEN "ERR" ELSE "OK"]
        /\ got' = [got EXCEPT ![c] = result]
        /\ result # 0
    BY <1>4 DEF TakeResult, Return, Calling
  <2>2. ASSUME NEW d \in Clients, fresh'[d]
        PROVE  /\ OnlyMine(d)'
               /\ got'[d] = mine'[d]
               /\ res'[d] = "OK" => IsWritten(mine[d])'
    <3>1. d = c /\ OnlyMine(c)
      BY <2>1, <2>2, FreshIsCaller DEF OwnInv
    <3>2. OnlyMine(c)' /\ got'[c] = mine'[c]
      BY <2>1, <3>1 DEF OnlyMine, Calling, TypeOK
    <3>3. res'[c] = "OK" => ~failed
      BY <2>1 DEF TypeOK
    <3>4. res'[c] = "OK" => IsWritten(mine[c])'
      BY <2>1, <3>1, <3>3 DEF OnlyMine, IsWritten
    <3> QED
      BY <3>1, <3>2, <3>4
  <2> QED
    BY <2>2 DEF OwnInv, OwnResult, IsWritten
<1>5. ASSUME NEW c \in Clients, NoResult(c)  PROVE OwnInv'
  <2>1. /\ Calling(c) /\ pc[c] # "cleared"
        /\ UNCHANGED <<fresh, pending, result, failed, mine, got, tpc, cur, written>>
        /\ \/ /\ pc' = [pc EXCEPT ![c] = "idle"]
              /\ res' = [res EXCEPT ![c] = "ETIMEDOUT"]
           \/ pc' = [pc EXCEPT ![c] = "enter"] /\ res' = res
    BY <1>5 DEF NoResult, Return, Calling
  <2>2. ASSUME NEW d \in Clients, fresh'[d]
        PROVE  OnlyMine(d)' /\ res'[d] \in {"none", "ETIMEDOUT"}
    <3>1. d = c /\ OnlyMine(c)
      BY <2>1, <2>2, FreshIsCaller DEF OwnInv
    <3> QED
      BY <2>1, <3>1 DEF OnlyMine, Calling, IsWritten, TypeOK
  <2> QED
    BY <2>2 DEF OwnInv, OwnResult
<1>6. ASSUME BustxLoop \/ BustxEnter \/ BustxTimeout \/ SendAgain \/ Resend
             \/ StoreDevice \/ EnsureBustx \/ StopBustx \/ DropDevice
      PROVE  OwnInv'
  <2>1. /\ UNCHANGED <<pending, result, failed, clientVars, written>>
        /\ \/ tpc' \notin {"send", "again", "report"}
           \/ tpc \in {"send", "again", "report"} /\ cur' = cur
    BY <1>6 DEF BustxLoop, BustxEnter, BustxTimeout, SendAgain, Resend,
         StoreDevice, EnsureBustx, StopBustx, DropDevice, NotifyBustx
  <2> QED
    BY <2>1, OwnUnchanged
<1>7. ASSUME BustxTake  PROVE OwnInv'
  BY <1>7 DEF BustxTake, OwnInv, OnlyMine, OwnResult, IsWritten, Calling
<1>8. ASSUME SendOk \/ SendFails  PROVE OwnInv'
  <2>1. /\ tpc = "send"
        /\ result' = cur /\ tpc' = "report"
        /\ UNCHANGED <<cur, pending, clientVars>>
        /\ written' = written \/ written' = Append(written, cur)
        /\ failed' \/ written' = Append(written, cur)
    BY <1>8 DEF SendOk, SendFails, StoreResult
  <2>2. ~failed' => IsWritten(cur)'
    <3>1. /\ Len(written) \in Nat
          /\ DOMAIN Append(written, cur) = 1 .. Len(written) + 1
          /\ Append(written, cur)[Len(written) + 1] = cur
      BY AppendWritten DEF TypeOK
    <3>2. Len(written) + 1 \in 1 .. Len(written) + 1
      BY <3>1
    <3> QED
      BY <2>1, <3>1, <3>2 DEF IsWritten
  <2>3. ASSUME NEW c \in Clients, fresh'[c]
        PROVE  OnlyMine(c)'
    <3>1. OnlyMine(c)
      BY <2>1, <2>3 DEF OwnInv
    <3>2. Calling(c) => cur = mine[c] /\ pc[c] # "cleared"
      BY <2>1, <3>1 DEF OnlyMine
    <3> QED
      BY <2>1, <2>2, <3>1, <3>2 DEF OnlyMine, Calling, IsWritten
  <2>4. ASSUME NEW c \in Clients, fresh'[c], res'[c] \in {"OK", "ERR"}
        PROVE  got'[c] = mine'[c] /\ (res'[c] = "OK" => IsWritten(mine[c])')
    <3>1. got[c] = mine[c] /\ (res[c] = "OK" => IsWritten(mine[c]))
      BY <2>1, <2>4 DEF OwnInv, OwnResult, IsWritten
    <3>2. IsWritten(mine[c]) => (\E i \in DOMAIN written' : written'[i] = mine[c])
      BY <2>1, WrittenGrows DEF IsWritten
    <3> QED
      BY <2>1, <2>4, <3>1, <3>2 DEF IsWritten
  <2> QED
    BY <2>3, <2>4 DEF OwnInv, OwnResult, IsWritten
<1>9. ASSUME BustxReport  PROVE OwnInv'
  <2>1. /\ tpc' = "loop"
        /\ UNCHANGED <<pending, result, failed, fresh, mine, res, got, written>>
        /\ \/ pc' = pc
           \/ \E d \in Clients : pc[d] = "queue" /\ pc' = [pc EXCEPT ![d] = "woken"]
    BY <1>9 DEF BustxReport, NotifyTxDone
  <2>2. ASSUME NEW c \in Clients
        PROVE  /\ Calling(c)' <=> Calling(c)
               /\ pc'[c] = "cleared" <=> pc[c] = "cleared"
    BY <2>1 DEF Calling, TypeOK
  <2> QED
    BY <2>1, <2>2 DEF OwnInv, OnlyMine, OwnResult, IsWritten
<1>10. ASSUME UNCHANGED vars  PROVE OwnInv'
  BY <1>10 DEF vars, OwnInv, OnlyMine, OwnResult, IsWritten, Calling
<1> QED
  BY <1>1, <1>2, <1>3, <1>4, <1>5, <1>6, <1>7, <1>8, <1>9, <1>10, StepCases

(* A submit that found no message under way and was not overlapped by another *)
(* one gets the result of its own message from TX_RESULT, and Ok means that   *)
(* bustx wrote it, across EAGAIN, lost wake-ups, exits and restarts.          *)
THEOREM UndisturbedGetsOwn == Spec => []OwnResult
<1>1. Init => OwnInv
  BY DEF Init, OwnInv, OwnResult
<1>2. OwnInv => OwnResult
  BY DEF OwnInv
<1> QED
  BY <1>1, <1>2, OwnStep, TypeCorrect, PTL DEF Spec
=============================================================================
