--------------------------- MODULE HostIrqProofs ----------------------------
(***************************************************************************)
(* Proofs about HostIrq, for every boundary, every set of buffers and      *)
(* every choice of error bits.                                             *)
(***************************************************************************)
EXTENDS HostIrq, TLAPS

LEMMA Constants ==
  /\ Boundary \in Nat \ {0}
  /\ Bases \subseteq Nat /\ Totals \subseteq Nat \ {0}
  /\ Kinds \subseteq {"cmd52", "chunk", "blocks"}
  /\ CmdErrors \subseteq {"TIMEOUT", "CRC", "END_BIT", "INDEX"}
  /\ DataErrors \subseteq {"DATA_TIMEOUT", "DATA_CRC", "ADMA_ERROR"}
  BY HostIrqAssumption

(* The next boundary lies ahead. *)
LEMMA BoundaryAhead ==
  ASSUME NEW a \in Nat
  PROVE  NextBoundary(a) \in Nat /\ NextBoundary(a) > a
<1>1. Boundary \in Nat \ {0}
  BY Constants
<1> QED
  BY <1>1 DEF NextBoundary

(* What a result can be. *)
LEMMA Results ==
  /\ CmdResult \in Errors \cup {"OK"} /\ PollResult \in Errors \cup {"OK"}
  /\ DataError \in Errors /\ DataError # "OK"
  /\ PollResult = "OK" =>
       "RESPONSE" \in sts /\ sts \cap {"TIMEOUT", "CRC", "END_BIT", "INDEX"} = {}
<1>1. CmdResult \in Errors \cup {"OK"}
  BY DEF CmdResult, Errors
<1>2. DataError \in Errors /\ DataError # "OK"
  BY DEF DataError, Errors
<1>3. CmdResult = "OK" =>
        "RESPONSE" \in sts /\ sts \cap {"TIMEOUT", "CRC", "END_BIT"} = {}
  BY DEF CmdResult
<1>4. PollResult \in Errors \cup {"OK"}
  BY <1>1 DEF PollResult, Errors
<1>5. ASSUME PollResult = "OK"
      PROVE  "RESPONSE" \in sts /\ sts \cap {"TIMEOUT", "CRC", "END_BIT", "INDEX"} = {}
  <2>1. CmdResult = "OK" /\ "INDEX" \notin sts
    BY <1>5 DEF PollResult
  <2> QED
    BY <1>3, <2>1
<1> QED
  BY <1>1, <1>2, <1>4, <1>5

-----------------------------------------------------------------------------
(* Types *)

(* Where a thread may be. *)
PcSet == {"idle", "irqs", "pending", "issue", "poll", "fifo", "xfer",
          "enter cmd", "wait cmd", "woken cmd", "enter dma", "wait dma",
          "woken dma", "r5", "clear cmd", "reset cmd", "clear dat",
          "reset dat", "done"}
StsBits == CmdBits \cup DataBits \cup {"CARD_INT"}

ThreadType ==
  /\ owner \in {"none", "user", "work"}
  /\ pc \in PcSet
  /\ kind \in {"cmd52", "chunk", "blocks"}
  /\ err \in Errors \cup {"OK"}
  /\ res \in Errors \cup {"none", "OK", "EAGAIN"}

HwType ==
  /\ sts \subseteq StsBits
  /\ hw \in {"idle", "cmd", "data", "paused", "last"}
  /\ sdma \in Nat /\ left \in Nat

FlagType ==
  /\ cmd_pending \in BOOLEAN /\ dma_pending \in BOOLEAN
  /\ cmd_result \in Errors \cup {"OK"} /\ dma_result \in Errors \cup {"OK"}

DmaType == base \in Nat /\ total \in Nat /\ bytes \in Nat

CardType ==
  /\ card \in BOOLEAN /\ card_en \in BOOLEAN /\ saved_en \in BOOLEAN
  /\ irq_pending \in BOOLEAN
  /\ wpc \in {"out", "queue", "woken", "running"}
  /\ lost \in BOOLEAN

HistType == moved \subseteq Nat /\ responded \in BOOLEAN

Types == ThreadType /\ HwType /\ FlagType /\ DmaType /\ CardType /\ HistType

LEMMA TypesOK == TypeOK <=> Types
  BY DEF TypeOK, Types, ThreadType, HwType, FlagType, DmaType, CardType, HistType,
     PcSet, StsBits

LEMMA ThreadTypeStep ==
  ASSUME Types, [Next]_vars
  PROVE  ThreadType'
<1>0. ThreadType /\ FlagType
  BY DEF Types
<1>1. ASSUME UNCHANGED threadVars  PROVE ThreadType'
  BY <1>0, <1>1 DEF threadVars, ThreadType
<1>2. ASSUME NEW k \in Kinds, Start(k)  PROVE ThreadType'
  BY <1>2, Constants DEF Start, Begin, ThreadType, PcSet
<1>3. ASSUME NEW b \in Bases, NEW n \in Totals, StartBlocks(b, n)  PROVE ThreadType'
  BY <1>3 DEF StartBlocks, Begin, ThreadType, PcSet
<1>4. CASE StartAgain
  BY <1>0, <1>4 DEF StartAgain, ThreadType
<1>5. CASE ReadIrqs \/ SetPending \/ Issue
  BY <1>0, <1>5 DEF ReadIrqs, SetPending, Issue, ThreadType, PcSet
<1>6. CASE Poll
  BY <1>0, <1>6, Results DEF Poll, Finish, Fails, ThreadType, PcSet, Errors
<1>7. CASE PollTimeout \/ Fifo \/ FifoFails
  BY <1>0, <1>7 DEF PollTimeout, Fifo, FifoFails, Fails, ThreadType, PcSet, Errors
<1>8. CASE XferPoll \/ XferTimeout
  <2>1. /\ pc' \in {"r5", "clear dat"} /\ err' \in {err, DataError, "ETIMEDOUT"}
        /\ UNCHANGED <<owner, kind, res>>
    BY <1>8 DEF XferPoll, XferTimeout, Fails
  <2>2. err' \in Errors \cup {"OK"}
    <3>1. err \in Errors \cup {"OK"} /\ DataError \in Errors /\ "ETIMEDOUT" \in Errors
      BY <1>0, Results DEF ThreadType, Errors
    <3> QED
      BY <2>1, <3>1
  <2> QED
    BY <1>0, <2>1, <2>2 DEF ThreadType, PcSet
<1>9. CASE EnterQueue \/ CmdTimeout \/ DmaTimeout
  BY <1>0, <1>9 DEF EnterQueue, CmdTimeout, DmaTimeout, Fails, ThreadType, PcSet, Errors
<1>10. CASE CmdWoken \/ DmaWoken
  BY <1>0, <1>10 DEF CmdWoken, DmaWoken, Fails, ThreadType, FlagType, PcSet
<1>11. CASE R5Ok \/ R5Error
  BY <1>0, <1>11 DEF R5Ok, R5Error, Finish, Fails, ThreadType, PcSet, Errors
<1>12. CASE ClearIntStatus
  BY <1>0, <1>12 DEF ClearIntStatus, ThreadType, PcSet
<1>13. CASE ResetCmdLine \/ ResetDatLine
  BY <1>0, <1>13 DEF ResetCmdLine, ResetDatLine, Finish, ThreadType, PcSet, Errors
<1>14. CASE WorkAck \/ WorkRun
  BY <1>0, <1>14 DEF WorkAck, WorkRun, Begin, ThreadType, PcSet
<1>15. CASE HandleSdhciHostIrq
  <2>1. pc' \in {pc, "woken cmd", "woken dma"} /\ UNCHANGED <<owner, kind, err, res>>
    BY <1>15 DEF HandleSdhciHostIrq, NotifyWaiter
  <2> QED
    BY <1>0, <2>1 DEF ThreadType, PcSet
<1>16. CASE WorkEnter \/ Hardware \/ UNCHANGED vars
  BY <1>1, <1>16 DEF WorkEnter, Hardware, HwResponse, HwCmdError, HwDma, HwDataEnd,
     HwDataError, CardInt, vars
<1> QED
  BY <1>2, <1>3, <1>4, <1>5, <1>6, <1>7, <1>8, <1>9, <1>10, <1>11, <1>12, <1>13,
     <1>14, <1>15, <1>16 DEF Next, Command

LEMMA CardTypeStep ==
  ASSUME Types, [Next]_vars
  PROVE  FlagType' /\ CardType'
<1>0. FlagType /\ CardType
  BY DEF Types
<1>1. ASSUME UNCHANGED <<flagVars, cardVars>>  PROVE FlagType' /\ CardType'
  BY <1>0, <1>1 DEF flagVars, cardVars, FlagType, CardType
<1>2. ASSUME UNCHANGED flagVars  PROVE FlagType'
  BY <1>0, <1>2 DEF flagVars, FlagType
<1>3. CASE SetPending
  BY <1>0, <1>3 DEF SetPending, FlagType, CardType
<1>4. CASE ReadIrqs
  BY <1>0, <1>2, <1>4 DEF ReadIrqs, CardType
<1>5. CASE CmdTimeout \/ DmaTimeout
  BY <1>0, <1>5 DEF CmdTimeout, DmaTimeout, cardVars, FlagType, CardType
<1>6. CASE HandleSdhciHostIrq
  <2>1. /\ cmd_pending' \in BOOLEAN /\ dma_pending' \in BOOLEAN
    BY <1>6 DEF HandleSdhciHostIrq
  <2>2. cmd_result' \in {CmdResult, cmd_result} /\ dma_result' \in {"OK", DataError, dma_result}
    BY <1>6 DEF HandleSdhciHostIrq
  <2>3. FlagType'
    BY <1>0, <2>1, <2>2, Results DEF FlagType
  <2>4. CardType'
    BY <1>0, <1>6 DEF HandleSdhciHostIrq, NotifyWork, CardType
  <2> QED
    BY <2>3, <2>4
<1>7. CASE StartAgain
  BY <1>0, <1>2, <1>7 DEF StartAgain, NotifyWork, CardType
<1>8. CASE WorkEnter \/ WorkRun \/ WorkAck
  BY <1>0, <1>2, <1>8 DEF WorkEnter, WorkRun, WorkAck, CardType
<1>9. CASE HwResponse \/ CardInt
  BY <1>0, <1>2, <1>9 DEF HwResponse, CardInt, CardType
<1>10. ASSUME NEW k \in Kinds, Start(k)  PROVE FlagType' /\ CardType'
  BY <1>1, <1>10 DEF Start
<1>11. ASSUME NEW b \in Bases, NEW n \in Totals, StartBlocks(b, n)
       PROVE  FlagType' /\ CardType'
  BY <1>1, <1>11 DEF StartBlocks
<1>12. CASE \/ Issue \/ Poll \/ PollTimeout \/ Fifo \/ FifoFails \/ XferPoll \/ XferTimeout
            \/ EnterQueue \/ CmdWoken \/ DmaWoken \/ R5Ok \/ R5Error \/ ClearIntStatus
            \/ ResetCmdLine \/ ResetDatLine \/ HwCmdError \/ HwDma \/ HwDataEnd
            \/ HwDataError \/ UNCHANGED vars
  BY <1>1, <1>12 DEF Issue, Poll, PollTimeout, Fifo, FifoFails, XferPoll, XferTimeout,
     EnterQueue, CmdWoken, DmaWoken, R5Ok, R5Error, ClearIntStatus, ResetCmdLine,
     ResetDatLine, HwCmdError, HwDma, HwDataEnd, HwDataError, vars
<1> QED
  BY <1>3, <1>4, <1>5, <1>6, <1>7, <1>8, <1>9, <1>10, <1>11, <1>12
     DEF Next, Command, Hardware

LEMMA HwTypeStep ==
  ASSUME Types, [Next]_vars
  PROVE  HwType' /\ DmaType' /\ HistType'
<1>0. HwType /\ DmaType /\ HistType
  BY DEF Types
<1> DEFINE T == HwType' /\ DmaType' /\ HistType'
<1>1. ASSUME UNCHANGED <<hwVars, dmaVars, histVars>>  PROVE T
  BY <1>0, <1>1 DEF hwVars, dmaVars, histVars, HwType, DmaType, HistType
<1>2. ASSUME UNCHANGED <<dmaVars, histVars>>  PROVE DmaType' /\ HistType'
  BY <1>0, <1>2 DEF dmaVars, histVars, DmaType, HistType
<1> SUFFICES T
  OBVIOUS
<1>3. ASSUME NEW k \in Kinds, Start(k)  PROVE T
  BY <1>0, <1>3 DEF Start, Begin, hwVars, dmaVars, HwType, DmaType, HistType
<1>4. ASSUME NEW b \in Bases, NEW n \in Totals, StartBlocks(b, n)  PROVE T
  <2>1. b \in Nat /\ n \in Nat
    BY Constants
  <2> QED
    BY <1>0, <1>4, <2>1 DEF StartBlocks, Begin, HwType, DmaType, HistType
<1>5. CASE Issue
  BY <1>0, <1>2, <1>5 DEF Issue, HwType, DmaType
<1>6. CASE Poll \/ XferPoll \/ R5Ok \/ ClearIntStatus
  BY <1>0, <1>2, <1>6 DEF Poll, XferPoll, R5Ok, ClearIntStatus, HwType
<1>7. CASE Fifo \/ ResetCmdLine \/ ResetDatLine
  BY <1>0, <1>2, <1>7 DEF Fifo, ResetCmdLine, ResetDatLine, HwType
<1>8. CASE WorkRun
  BY <1>0, <1>8 DEF WorkRun, Begin, hwVars, dmaVars, HwType, DmaType, HistType
<1>9. CASE HandleSdhciHostIrq
  <2>1. /\ sts' = {} /\ UNCHANGED <<left, base, total, moved, responded>>
        /\ \/ UNCHANGED <<bytes, sdma, hw>>
           \/ DmaBoundary
    BY <1>9 DEF HandleSdhciHostIrq, histVars
  <2>2. base + bytes \in Nat /\ base \in Nat
    BY <1>0 DEF DmaType
  <2>3. NextBoundary(base + bytes) \in Nat /\ NextBoundary(base + bytes) > base + bytes
    BY <2>2, BoundaryAhead
  <2>4. NextBoundary(base + bytes) - base \in Nat
    BY <1>0, <2>3 DEF DmaType
  <2>5. /\ bytes' = bytes \/ bytes' = NextBoundary(base + bytes) - base
        /\ sdma' = sdma \/ sdma' = NextBoundary(base + bytes)
        /\ hw' \in {hw, "data"}
    BY <2>1 DEF DmaBoundary
  <2> QED
    BY <1>0, <2>1, <2>3, <2>4, <2>5 DEF HwType, DmaType, HistType
<1>10. CASE HwResponse
  BY <1>0, <1>10 DEF HwResponse, dmaVars, HwType, DmaType, HistType, StsBits, CmdBits
<1>11. CASE HwCmdError
  BY <1>0, <1>2, <1>11, Constants DEF HwCmdError, HwType, StsBits, CmdBits
<1>12. CASE HwDma
  <2> DEFINE limit == (sdma \div Boundary) * Boundary + Boundary
             stop == IF sdma + left < limit THEN sdma + left ELSE limit
  <2>1. /\ moved' = moved \cup (sdma .. stop - 1) /\ left' = left - (stop - sdma)
        /\ sdma' = stop /\ sts' \subseteq sts \cup {"DMA_END"} /\ hw' \in {"last", "paused"}
        /\ UNCHANGED <<dmaVars, responded>>
    BY <1>12 DEF HwDma
  <2>2. limit \in Nat /\ limit > sdma /\ sdma \in Nat /\ left \in Nat
    BY <1>0, BoundaryAhead DEF NextBoundary, HwType
  <2> HIDE DEF limit
  <2>3. stop \in Nat /\ stop >= sdma /\ stop <= sdma + left
    BY <2>2
  <2> HIDE DEF stop
  <2>4. left' \in Nat /\ sdma .. stop - 1 \subseteq Nat
    BY <2>1, <2>2, <2>3
  <2>5. "DMA_END" \in StsBits
    BY DEF StsBits, DataBits
  <2> QED
    BY <1>0, <2>1, <2>3, <2>4, <2>5 DEF dmaVars, HwType, DmaType, HistType
<1>13. CASE HwDataEnd \/ CardInt
  BY <1>0, <1>2, <1>13 DEF HwDataEnd, CardInt, HwType, StsBits, DataBits
<1>14. CASE HwDataError
  BY <1>0, <1>2, <1>14, Constants DEF HwDataError, HwType, StsBits, DataBits
<1>15. CASE \/ ReadIrqs \/ SetPending \/ PollTimeout \/ FifoFails \/ XferTimeout
            \/ EnterQueue \/ CmdTimeout \/ CmdWoken \/ DmaTimeout \/ DmaWoken
            \/ R5Error \/ WorkAck \/ WorkEnter \/ StartAgain \/ UNCHANGED vars
  BY <1>1, <1>15 DEF ReadIrqs, SetPending, PollTimeout, FifoFails, XferTimeout,
     EnterQueue, CmdTimeout, CmdWoken, DmaTimeout, DmaWoken, R5Error, WorkAck,
     WorkEnter, StartAgain, vars
<1> HIDE DEF T
<1> QED
  BY <1>3, <1>4, <1>5, <1>6, <1>7, <1>8, <1>9, <1>10, <1>11, <1>12, <1>13, <1>14, <1>15
     DEF Next, Command, Hardware

-----------------------------------------------------------------------------
(* The inductive invariant *)

(* The command has been answered and, for a block transfer, has moved its     *)
(* whole buffer; the controller has nothing left to do.                       *)
Complete ==
  hw = "idle" /\ responded /\ (kind = "blocks" => moved = Buffer)

(* No bit of a command is set. *)
Quiet == \A b \in sts : b \notin CmdBits /\ b \notin DataBits

CmdErrorBits == {"TIMEOUT", "CRC", "END_BIT", "INDEX"}
BeforeIssue == {"irqs", "pending", "issue"}
DatPhase == {"fifo", "xfer", "r5", "clear dat", "reset dat"}

(* The lock is free exactly when no command is under way; CARD_INT is not     *)
(* unmasked between the two halves of set_transfer_irqs_dma.                  *)
LockInv ==
  /\ owner = "none" <=> pc = "idle"
  /\ pc = "pending" /\ card_en => saved_en

(* While sdio_irq_work runs, SDIO_IRQ_PENDING means a notify it did not hear. *)
NotifyInv == wpc = "running" /\ irq_pending => lost

(* Before COMMAND is written the controller is idle and the register clean;   *)
(* in the data phase and its cleanup the command line is free.                *)
LineInv ==
  /\ pc \in {"idle", "done"} \cup BeforeIssue => hw = "idle"
  /\ pc \in BeforeIssue => Quiet
  /\ pc \in DatPhase => hw # "cmd"
  /\ hw = "cmd" => Quiet
  /\ kind = "cmd52" => hw \in {"cmd", "idle"}

(* A cleanup has an error to return; only a byte-mode CMD53 uses the FIFO. *)
CleanUp == {"clear cmd", "reset cmd", "clear dat", "reset dat"}
PathInv ==
  /\ pc \in CleanUp => err # "OK"
  /\ pc = "fifo" => kind = "chunk"

(* Every sign of the end of a command is a sign of its own end. *)
EndInv ==
  /\ hw \in {"data", "paused", "last"} => responded
  /\ "RESPONSE" \in sts => responded \/ \E e \in CmdErrorBits : e \in sts
  /\ "DATA_END" \in sts => Complete
  /\ pc = "r5" => Complete
  /\ pc = "woken dma" => ~dma_pending /\ (dma_result = "OK" => Complete)
  /\ res = "OK" => Complete /\ pc \in {"idle", "done"}

(* How far SDMA is, and what the handler knows of it. *)
DmaInv ==
  kind = "blocks" =>
    /\ moved \subseteq Buffer
    /\ pc \in BeforeIssue => moved = {} /\ sdma = base /\ bytes = 0 /\ total > 0
    /\ hw = "cmd" => moved = {} /\ sdma = base /\ bytes = 0 /\ left = total /\ total > 0
    /\ hw = "data" => /\ sdma = base + bytes /\ left = total - bytes /\ left > 0
                      /\ moved = base .. sdma - 1 /\ "DMA_END" \notin sts
    /\ hw = "paused" => /\ sdma = NextBoundary(base + bytes)
                        /\ left = base + total - sdma /\ left > 0 /\ base <= sdma
                        /\ moved = base .. sdma - 1
    /\ hw = "last" => /\ moved = Buffer /\ sdma = base + total
                      /\ "DMA_END" \in sts => NextBoundary(base + bytes) = sdma

-----------------------------------------------------------------------------
(* LockInv and the CARD_INT *)

LEMMA LockStep ==
  ASSUME Types, LockInv, [Next]_vars
  PROVE  LockInv'
<1>1. ASSUME NEW k \in Kinds, Start(k)  PROVE LockInv'
  BY <1>1 DEF Start, Begin, LockInv
<1>2. ASSUME NEW b \in Bases, NEW n \in Totals, StartBlocks(b, n)  PROVE LockInv'
  BY <1>2 DEF StartBlocks, Begin, LockInv
<1>3. CASE StartAgain
  BY <1>3 DEF StartAgain, LockInv
<1>4. CASE ReadIrqs \/ SetPending \/ Issue
  <2>1. CASE ReadIrqs
    <3>1. pc = "irqs" /\ pc' = "pending" /\ saved_en' = card_en /\ UNCHANGED <<owner, card_en>>
      BY <2>1 DEF ReadIrqs
    <3>2. owner' # "none" /\ (card_en' => saved_en')
      BY <3>1, Zenon DEF LockInv
    <3> QED
      BY <3>1, <3>2 DEF LockInv
  <2>2. CASE SetPending \/ Issue
    BY <2>2 DEF SetPending, Issue, LockInv
  <2> QED
    BY <1>4, <2>1, <2>2
<1>5. CASE Poll
  BY <1>5 DEF Poll, Finish, Fails, LockInv
<1>6. CASE PollTimeout \/ Fifo \/ FifoFails
  BY <1>6 DEF PollTimeout, Fifo, FifoFails, Fails, LockInv
<1>7. CASE XferPoll \/ XferTimeout
  BY <1>7 DEF XferPoll, XferTimeout, Fails, LockInv
<1>8. CASE EnterQueue \/ CmdTimeout \/ DmaTimeout
  BY <1>8 DEF EnterQueue, CmdTimeout, DmaTimeout, Fails, LockInv
<1>9. CASE CmdWoken \/ DmaWoken
  BY <1>9 DEF CmdWoken, DmaWoken, Fails, LockInv
<1>10. CASE R5Ok \/ R5Error
  BY <1>10 DEF R5Ok, R5Error, Finish, Fails, LockInv
<1>11. CASE ClearIntStatus
  BY <1>11 DEF ClearIntStatus, LockInv
<1>12. CASE ResetCmdLine \/ ResetDatLine
  BY <1>12 DEF ResetCmdLine, ResetDatLine, Finish, LockInv
<1>13. CASE WorkAck \/ WorkRun
  BY <1>13 DEF WorkAck, WorkRun, Begin, LockInv
<1>14. CASE HandleSdhciHostIrq
  <2>1. /\ UNCHANGED <<owner, saved_en>> /\ (card_en' => card_en)
        /\ pc' = pc \/ (pc \in {"wait cmd", "wait dma"} /\ pc' \in {"woken cmd", "woken dma"})
    BY <1>14 DEF HandleSdhciHostIrq, NotifyWaiter
  <2> QED
    BY <2>1 DEF LockInv
<1>15. CASE WorkEnter \/ Hardware \/ UNCHANGED vars
  <2>1. UNCHANGED <<owner, pc, card_en, saved_en>>
    BY <1>15 DEF WorkEnter, Hardware, HwResponse, HwCmdError, HwDma, HwDataEnd,
       HwDataError, CardInt, vars, threadVars, cardVars
  <2> QED
    BY <2>1 DEF LockInv
<1> QED
  BY <1>1, <1>2, <1>3, <1>4, <1>5, <1>6, <1>7, <1>8, <1>9, <1>10, <1>11, <1>12, <1>13,
     <1>14, <1>15 DEF Next, Command

LEMMA CardStep ==
  ASSUME Types, LockInv, NotifyInv, [Next]_vars
  PROVE  NotifyInv' /\ (Responsible => Responsible')
<1> DEFINE Kept == NotifyInv' /\ (Responsible => Responsible')
<1>0. CardType
  BY DEF Types
<1>1. ASSUME UNCHANGED <<card_en, irq_pending, wpc, lost>>  PROVE Kept
  BY <1>1 DEF NotifyInv, Responsible
<1>2. CASE SetPending
  BY <1>2 DEF SetPending, LockInv, NotifyInv, Responsible
<1>3. ASSUME NotifyWork  PROVE Kept
  <2>1. CASE wpc \in {"queue", "woken"}
    BY <1>3, <2>1 DEF NotifyWork, NotifyInv, Responsible
  <2>2. CASE wpc \notin {"queue", "woken"}
    BY <1>3, <2>2 DEF NotifyWork, NotifyInv, Responsible
  <2> QED
    BY <2>1, <2>2
<1>4. CASE WorkEnter
  BY <1>4 DEF WorkEnter, NotifyInv, Responsible
<1>5. CASE WorkRun
  BY <1>5 DEF WorkRun, NotifyInv, Responsible
<1>6. CASE WorkAck
  <2>1. /\ wpc = "running" /\ wpc' = "out"
        /\ (card_en' <=> card_en \/ ~irq_pending) /\ lost' = lost
    BY <1>0, <1>6 DEF WorkAck, CardType
  <2>2. card_en' \/ lost'
    BY <2>1, Zenon DEF NotifyInv
  <2> QED
    BY <2>1, <2>2 DEF NotifyInv, Responsible
<1>7. CASE HandleSdhciHostIrq
  <2>1. NotifyWork \/ UNCHANGED <<card_en, irq_pending, wpc, lost>>
    BY <1>7 DEF HandleSdhciHostIrq
  <2> QED
    BY <1>1, <1>3, <2>1
<1>8. CASE StartAgain
  BY <1>3, <1>8 DEF StartAgain
<1>9. ASSUME NEW k \in Kinds, Start(k)  PROVE Kept
  BY <1>1, <1>9 DEF Start, cardVars
<1>10. ASSUME NEW b \in Bases, NEW n \in Totals, StartBlocks(b, n)  PROVE Kept
  BY <1>1, <1>10 DEF StartBlocks, cardVars
<1>11. CASE \/ ReadIrqs \/ HwResponse \/ CardInt
            \/ Issue \/ Poll \/ PollTimeout \/ Fifo \/ FifoFails \/ XferPoll \/ XferTimeout
            \/ EnterQueue \/ CmdTimeout \/ DmaTimeout \/ CmdWoken \/ DmaWoken \/ R5Ok
            \/ R5Error \/ ClearIntStatus \/ ResetCmdLine \/ ResetDatLine \/ HwCmdError
            \/ HwDma \/ HwDataEnd \/ HwDataError \/ UNCHANGED vars
  <2>1. UNCHANGED <<card_en, irq_pending, wpc, lost>>
    BY <1>11 DEF ReadIrqs, HwResponse, CardInt, Issue, Poll, PollTimeout, Fifo,
       FifoFails, XferPoll, XferTimeout, EnterQueue, CmdTimeout, DmaTimeout, CmdWoken,
       DmaWoken, R5Ok, R5Error, ClearIntStatus, ResetCmdLine, ResetDatLine, HwCmdError,
       HwDma, HwDataEnd, HwDataError, vars, cardVars
  <2> QED
    BY <1>1, <2>1
<1> QED
  BY <1>2, <1>4, <1>5, <1>6, <1>7, <1>8, <1>9, <1>10, <1>11 DEF Next, Command, Hardware

-----------------------------------------------------------------------------
(* LineInv *)

LEMMA LineStep ==
  ASSUME Types, LockInv, LineInv, EndInv, [Next]_vars
  PROVE  LineInv'
<1>0. ThreadType /\ HwType
  BY DEF Types
<1>1. ASSUME NEW k \in Kinds, Start(k)  PROVE LineInv'
  BY <1>1 DEF Start, Begin, LineInv, Quiet, hwVars, BeforeIssue, DatPhase
<1>2. ASSUME NEW b \in Bases, NEW n \in Totals, StartBlocks(b, n)  PROVE LineInv'
  BY <1>2 DEF StartBlocks, Begin, LineInv, Quiet, BeforeIssue, DatPhase
<1>3. CASE StartAgain
  BY <1>3 DEF StartAgain, hwVars, LineInv, Quiet
<1>4. CASE ReadIrqs
  BY <1>4 DEF ReadIrqs, hwVars, LineInv, Quiet, BeforeIssue, DatPhase
<1>5. CASE SetPending
  BY <1>5 DEF SetPending, hwVars, LineInv, Quiet, BeforeIssue, DatPhase
<1>6. CASE Issue
  BY <1>6 DEF Issue, LineInv, Quiet, BeforeIssue, DatPhase
<1>7. CASE Poll
  <2>1. hw # "cmd" /\ hw' = hw /\ kind' = kind /\ kind \in {"cmd52", "chunk"}
    BY <1>7 DEF Poll, LineInv, Quiet
  <2>2. kind = "cmd52" => pc' \in {"idle", "done"}
    BY <1>7 DEF Poll, Finish
  <2>3. kind = "chunk" => pc' \in {"clear dat", "fifo"}
    BY <1>7 DEF Poll, Fails
  <2> QED
    BY <2>1, <2>2, <2>3 DEF LineInv, BeforeIssue, DatPhase
<1>8. CASE PollTimeout
  BY <1>8 DEF PollTimeout, Fails, hwVars, LineInv, Quiet, BeforeIssue, DatPhase
<1>9. CASE Fifo
  <2>1. pc = "fifo" /\ kind # "cmd52"
    BY <1>9 DEF Fifo, LineInv
  <2> QED
    BY <1>9, <2>1 DEF Fifo, LineInv, Quiet, BeforeIssue, DatPhase
<1>10. CASE FifoFails
  BY <1>10 DEF FifoFails, Fails, hwVars, LineInv, Quiet, BeforeIssue, DatPhase
<1>11. CASE XferPoll
  BY <1>11 DEF XferPoll, Fails, LineInv, Quiet, BeforeIssue, DatPhase
<1>12. CASE XferTimeout
  BY <1>12 DEF XferTimeout, Fails, hwVars, LineInv, Quiet, BeforeIssue, DatPhase
<1>13. CASE EnterQueue
  BY <1>13 DEF EnterQueue, hwVars, LineInv, Quiet, BeforeIssue, DatPhase
<1>14. CASE CmdTimeout \/ DmaTimeout
  BY <1>14 DEF CmdTimeout, DmaTimeout, Fails, hwVars, LineInv, Quiet, BeforeIssue, DatPhase
<1>15. CASE CmdWoken
  BY <1>15 DEF CmdWoken, Fails, hwVars, LineInv, Quiet, BeforeIssue, DatPhase
<1>16. CASE DmaWoken
  <2>1. pc' = "r5" => hw = "idle"
    BY <1>16 DEF DmaWoken, Fails, EndInv, Complete
  <2> QED
    BY <1>16, <2>1 DEF DmaWoken, Fails, hwVars, LineInv, Quiet, BeforeIssue, DatPhase
<1>17. CASE R5Ok
  <2>1. hw = "idle" /\ hw' = hw /\ pc' \in {"idle", "done"} /\ kind' = kind
    BY <1>17 DEF R5Ok, Finish, EndInv, Complete
  <2> QED
    BY <2>1 DEF LineInv, BeforeIssue, DatPhase
<1>18. CASE R5Error
  BY <1>18 DEF R5Error, Fails, hwVars, LineInv, Quiet, BeforeIssue, DatPhase
<1>19. CASE ClearIntStatus
  BY <1>19 DEF ClearIntStatus, LineInv, Quiet, BeforeIssue, DatPhase
<1>20. CASE ResetCmdLine
  BY <1>0, <1>20 DEF ResetCmdLine, Finish, LineInv, Quiet, BeforeIssue, DatPhase
<1>21. CASE ResetDatLine
  BY <1>21 DEF ResetDatLine, Finish, LineInv, Quiet, BeforeIssue, DatPhase
<1>22. CASE WorkAck
  BY <1>22 DEF WorkAck, hwVars, LineInv, Quiet, BeforeIssue, DatPhase
<1>23. CASE WorkRun
  BY <1>23 DEF WorkRun, Begin, hwVars, LineInv, Quiet, BeforeIssue, DatPhase
<1>24. CASE HandleSdhciHostIrq
  <2>1. sts' = {} /\ kind' = kind
    BY <1>24 DEF HandleSdhciHostIrq
  <2>2. pc' = pc \/ pc' \in {"woken cmd", "woken dma"}
    BY <1>24 DEF HandleSdhciHostIrq, NotifyWaiter
  <2>3. hw' = hw \/ (hw = "paused" /\ hw' = "data")
    BY <1>24 DEF HandleSdhciHostIrq, DmaBoundary
  <2> QED
    BY <2>1, <2>2, <2>3 DEF LineInv, Quiet, BeforeIssue, DatPhase
<1>25. CASE HwResponse
  <2>1. hw = "cmd" /\ hw' = (IF kind = "cmd52" THEN "idle" ELSE "data") /\ UNCHANGED <<pc, kind>>
    BY <1>25 DEF HwResponse, threadVars
  <2>2. pc \notin {"idle", "done"} \cup BeforeIssue
    BY <2>1 DEF LineInv
  <2> QED
    BY <2>1, <2>2 DEF LineInv, BeforeIssue
<1>26. CASE HwCmdError
  <2>1. hw = "cmd" /\ hw' = "idle" /\ UNCHANGED <<pc, kind>>
    BY <1>26 DEF HwCmdError, threadVars
  <2>2. pc \notin BeforeIssue
    BY <2>1 DEF LineInv
  <2> QED
    BY <2>1, <2>2 DEF LineInv
<1>27. CASE HwDma
  <2>1. hw = "data" /\ hw' \in {"last", "paused"} /\ kind = "blocks" /\ UNCHANGED <<pc, kind>>
    BY <1>27 DEF HwDma, threadVars
  <2>2. pc \notin {"idle", "done"} \cup BeforeIssue
    BY <2>1 DEF LineInv
  <2> QED
    BY <2>1, <2>2 DEF LineInv
<1>28. CASE HwDataEnd \/ HwDataError
  <2>1. hw \in {"data", "paused", "last"} /\ hw' = "idle" /\ UNCHANGED <<pc, kind>>
    BY <1>28 DEF HwDataEnd, HwDataError, threadVars
  <2>2. pc \notin BeforeIssue
    BY <2>1 DEF LineInv
  <2> QED
    BY <2>1, <2>2 DEF LineInv
<1>29. CASE CardInt
  <2>1. sts' = sts \cup {"CARD_INT"} /\ UNCHANGED <<hw, pc, kind>>
    BY <1>29 DEF CardInt, threadVars
  <2>2. Quiet => Quiet'
    BY <2>1 DEF Quiet, CmdBits, DataBits
  <2> QED
    BY <2>1, <2>2 DEF LineInv
<1>30. CASE WorkEnter \/ UNCHANGED vars
  BY <1>30 DEF WorkEnter, vars, threadVars, hwVars, LineInv, Quiet
<1> QED
  BY <1>1, <1>2, <1>3, <1>4, <1>5, <1>6, <1>7, <1>8, <1>9, <1>10, <1>11, <1>12, <1>13,
     <1>14, <1>15, <1>16, <1>17, <1>18, <1>19, <1>20, <1>21, <1>22, <1>23, <1>24,
     <1>25, <1>26, <1>27, <1>28, <1>29, <1>30 DEF Next, Command, Hardware

-----------------------------------------------------------------------------
(* PathInv *)

LEMMA PathStep ==
  ASSUME PathInv, [Next]_vars
  PROVE  PathInv'
<1>1. ASSUME pc' \notin CleanUp \cup {"fifo"}  PROVE PathInv'
  BY <1>1 DEF PathInv
<1>2. ASSUME UNCHANGED <<pc, err, kind>>  PROVE PathInv'
  BY <1>2 DEF PathInv
<1>3. ASSUME NEW k \in Kinds, Start(k)  PROVE PathInv'
  BY <1>1, <1>3 DEF Start, CleanUp
<1>4. ASSUME NEW b \in Bases, NEW n \in Totals, StartBlocks(b, n)  PROVE PathInv'
  BY <1>1, <1>4 DEF StartBlocks, CleanUp
<1>5. CASE ReadIrqs \/ SetPending \/ Issue \/ Fifo \/ EnterQueue \/ WorkAck \/ WorkRun
  BY <1>1, <1>5 DEF ReadIrqs, SetPending, Issue, Fifo, EnterQueue, WorkAck, WorkRun, CleanUp
<1>6. CASE Poll
  BY <1>1, <1>6 DEF Poll, Finish, Fails, PathInv, CleanUp
<1>7. CASE PollTimeout \/ FifoFails \/ XferTimeout \/ CmdTimeout \/ DmaTimeout \/ R5Error
  BY <1>7 DEF PollTimeout, FifoFails, XferTimeout, CmdTimeout, DmaTimeout, R5Error, Fails,
     PathInv, CleanUp
<1>8. CASE XferPoll
  <2>1. pc' = "r5" \/ (pc' = "clear dat" /\ err' = DataError)
    BY <1>8 DEF XferPoll, Fails
  <2> QED
    BY <2>1, Results DEF PathInv, CleanUp
<1>9. CASE CmdWoken \/ DmaWoken
  BY <1>9 DEF CmdWoken, DmaWoken, Fails, PathInv, CleanUp
<1>10. CASE R5Ok
  BY <1>1, <1>10 DEF R5Ok, Finish, CleanUp
<1>11. CASE ClearIntStatus
  BY <1>11 DEF ClearIntStatus, PathInv, CleanUp
<1>12. CASE ResetCmdLine \/ ResetDatLine
  BY <1>12 DEF ResetCmdLine, ResetDatLine, Finish, PathInv, CleanUp
<1>13. CASE HandleSdhciHostIrq
  <2>1. err' = err /\ kind' = kind /\ pc' \in {pc, "woken cmd", "woken dma"}
    BY <1>13 DEF HandleSdhciHostIrq, NotifyWaiter
  <2> QED
    BY <2>1 DEF PathInv, CleanUp
<1>14. CASE StartAgain \/ WorkEnter \/ Hardware \/ UNCHANGED vars
  BY <1>2, <1>14 DEF StartAgain, WorkEnter, Hardware, HwResponse, HwCmdError, HwDma,
     HwDataEnd, HwDataError, CardInt, threadVars, vars
<1> QED
  BY <1>3, <1>4, <1>5, <1>6, <1>7, <1>8, <1>9, <1>10, <1>11, <1>12, <1>13, <1>14
     DEF Next, Command

-----------------------------------------------------------------------------
(* EndInv *)

(* Steps that neither end nor begin anything. *)
LEMMA EndKept ==
  ASSUME EndInv, sts' \subseteq sts,
         ~("RESPONSE" \in sts') \/ sts' = sts,
         UNCHANGED <<hw, responded, kind, moved, base, total, res, dma_pending, dma_result>>,
         pc' \notin {"r5", "woken dma"},
         res = "OK" => pc' \in {"idle", "done"}
  PROVE  EndInv'
<1>1. Complete' <=> Complete
  BY DEF Complete, Buffer
<1> QED
  BY <1>1 DEF EndInv

LEMMA EndStep ==
  ASSUME Types, LockInv, LineInv, PathInv, EndInv, DmaInv, [Next]_vars
  PROVE  EndInv'
<1>0. ThreadType /\ HwType
  BY DEF Types
<1>c. ASSUME UNCHANGED <<hw, responded, kind, moved, base, total>>
      PROVE  Complete' <=> Complete
  BY <1>c DEF Complete, Buffer
<1>1. ASSUME Quiet, hw = "idle", sts' = sts, hw' = hw, res' = "none", pc' \in BeforeIssue
      PROVE  EndInv'
  <2>1. "RESPONSE" \notin sts /\ "DATA_END" \notin sts
    BY <1>1 DEF Quiet, CmdBits, DataBits
  <2> QED
    BY <1>1, <2>1 DEF EndInv, BeforeIssue
<1>2. ASSUME NEW k \in Kinds, Start(k)  PROVE EndInv'
  <2>1. Quiet /\ hw = "idle" /\ sts' = sts /\ hw' = hw /\ res' = "none" /\ pc' = "issue"
    BY <1>2 DEF Start, Begin, hwVars, Quiet
  <2> QED
    BY <1>1, <2>1 DEF BeforeIssue
<1>3. ASSUME NEW b \in Bases, NEW n \in Totals, StartBlocks(b, n)  PROVE EndInv'
  <2>1. Quiet /\ hw = "idle" /\ sts' = sts /\ hw' = hw /\ res' = "none" /\ pc' = "irqs"
    BY <1>3 DEF StartBlocks, Begin, Quiet
  <2> QED
    BY <1>1, <2>1 DEF BeforeIssue
<1>4. CASE WorkRun
  <2>1. Quiet /\ hw = "idle" /\ sts' = sts /\ hw' = hw /\ res' = "none" /\ pc' = "issue"
    BY <1>4 DEF WorkRun, Begin, hwVars, Quiet
  <2> QED
    BY <1>1, <2>1 DEF BeforeIssue
<1>5. CASE StartAgain
  <2>1. /\ res' = "EAGAIN" /\ pc' = pc /\ pc = "idle" /\ sts' = sts
        /\ UNCHANGED <<hw, responded, kind, moved, base, total, dma_pending, dma_result>>
    BY <1>5 DEF StartAgain, hwVars, histVars, dmaVars, flagVars, LockInv
  <2> QED
    BY <1>c, <2>1 DEF EndInv
<1>6. CASE ReadIrqs
  BY <1>6, EndKept DEF ReadIrqs, hwVars, histVars, dmaVars, flagVars, EndInv
<1>7. CASE SetPending
  <2>1. /\ pc = "pending" /\ pc' = "issue" /\ sts' = sts
        /\ UNCHANGED <<hw, responded, kind, moved, base, total, res>>
    BY <1>7 DEF SetPending, hwVars, histVars, dmaVars
  <2> QED
    BY <1>c, <2>1 DEF EndInv
<1>8. CASE Issue
  <2>1. /\ pc = "issue" /\ hw' = "cmd" /\ sts' = sts /\ res' = res
        /\ pc' \in {"enter cmd", "poll"}
    BY <1>8 DEF Issue
  <2>2. Quiet
    BY <2>1 DEF LineInv, BeforeIssue
  <2>3. "RESPONSE" \notin sts /\ "DATA_END" \notin sts
    BY <2>2 DEF Quiet, CmdBits, DataBits
  <2> QED
    BY <2>1, <2>3 DEF EndInv
<1>9. CASE Poll
  <2>1. /\ pc = "poll" /\ sts' = sts \ CmdBits /\ hw # "cmd" /\ kind \in {"cmd52", "chunk"}
        /\ UNCHANGED <<hw, responded, kind, moved, base, total, dma_pending, dma_result>>
    BY <1>9 DEF Poll, histVars, dmaVars, flagVars, LineInv, Quiet
  <2>2. res # "OK"
    BY <2>1 DEF EndInv
  <2>3. "RESPONSE" \notin sts' /\ sts' \subseteq sts
    BY <2>1 DEF CmdBits
  <2>4. CASE kind = "chunk"
    <3>1. pc' \in {"clear dat", "fifo"} /\ res' = res
      BY <1>9, <2>4 DEF Poll, Fails
    <3> QED
      BY <2>1, <2>2, <2>3, <3>1, EndKept
  <2>5. CASE kind = "cmd52"
    <3>1. pc' \in {"idle", "done"} /\ (res' = "OK" => PollResult = "OK")
      BY <1>9, <2>5 DEF Poll, Finish
    <3>2. hw = "idle"
      BY <2>1, <2>5 DEF LineInv
    <3>3. PollResult = "OK" => Complete
      <4>1. ASSUME PollResult = "OK"  PROVE responded
        <5>1. "RESPONSE" \in sts /\ sts \cap CmdErrorBits = {}
          BY <4>1, Results DEF CmdErrorBits
        <5> QED
          BY <5>1 DEF EndInv
      <4> QED
        BY <2>5, <3>2, <4>1 DEF Complete
    <3> QED
      BY <1>c, <2>1, <2>3, <3>1, <3>2, <3>3 DEF EndInv
  <2> QED
    BY <2>1, <2>4, <2>5
<1>10. CASE PollTimeout \/ FifoFails \/ XferTimeout
  <2>1. /\ pc \in {"poll", "fifo", "xfer"} /\ pc' \in {"clear cmd", "clear dat"} /\ sts' = sts
        /\ UNCHANGED <<hw, responded, kind, moved, base, total, res, dma_pending, dma_result>>
    BY <1>10 DEF PollTimeout, FifoFails, XferTimeout, Fails, hwVars, histVars, dmaVars, flagVars
  <2> QED
    BY <2>1, EndKept DEF EndInv
<1>11. CASE Fifo
  <2>1. /\ pc = "fifo" /\ pc' = "xfer" /\ hw = "data" /\ hw' = "last" /\ sts' = sts
        /\ UNCHANGED <<responded, kind, moved, base, total, res>>
    BY <1>11 DEF Fifo, histVars, dmaVars
  <2>2. responded /\ "DATA_END" \notin sts
    BY <2>1 DEF EndInv, Complete
  <2> QED
    BY <2>1, <2>2 DEF EndInv
<1>12. CASE XferPoll
  <2>1. /\ pc = "xfer" /\ sts' = {} /\ pc' \in {"r5", "clear dat"}
        /\ pc' = "r5" => "DATA_END" \in sts
        /\ UNCHANGED <<hw, responded, kind, moved, base, total, res>>
    BY <1>12 DEF XferPoll, Fails, histVars, dmaVars
  <2> QED
    BY <1>c, <2>1 DEF EndInv
<1>13. CASE EnterQueue \/ CmdTimeout \/ DmaTimeout
  <2>1. /\ pc \notin {"idle", "done"} /\ sts' = sts
        /\ pc' \in {"wait cmd", "wait dma", "clear cmd"}
        /\ UNCHANGED <<hw, responded, kind, moved, base, total, res>>
    BY <1>13 DEF EnterQueue, CmdTimeout, DmaTimeout, Fails, hwVars, histVars, dmaVars
  <2> QED
    BY <1>c, <2>1 DEF EndInv
<1>14. CASE CmdWoken
  <2>1. /\ pc = "woken cmd" /\ sts' = sts /\ pc' \in {"enter dma", "clear cmd"}
        /\ UNCHANGED <<hw, responded, kind, moved, base, total, res>>
    BY <1>14 DEF CmdWoken, Fails, hwVars, histVars, dmaVars
  <2> QED
    BY <1>c, <2>1 DEF EndInv
<1>15. CASE DmaWoken
  <2>1. /\ pc = "woken dma" /\ sts' = sts /\ pc' \in {"r5", "clear cmd"}
        /\ pc' = "r5" => dma_result = "OK"
        /\ UNCHANGED <<hw, responded, kind, moved, base, total, res>>
    BY <1>15 DEF DmaWoken, Fails, hwVars, histVars, dmaVars
  <2> QED
    BY <1>c, <2>1 DEF EndInv
<1>16. CASE R5Ok
  <2>1. /\ pc = "r5" /\ sts' = {} /\ pc' \in {"idle", "done"}
        /\ UNCHANGED <<hw, responded, kind, moved, base, total>>
    BY <1>16 DEF R5Ok, Finish, histVars, dmaVars
  <2> QED
    BY <1>c, <2>1 DEF EndInv
<1>17. CASE R5Error \/ ClearIntStatus
  <2>1. /\ pc \in {"r5", "clear cmd", "clear dat"} /\ sts' \in {sts, {}}
        /\ pc' \in {"clear cmd", "clear dat", "reset cmd", "reset dat"}
        /\ UNCHANGED <<hw, responded, kind, moved, base, total, res>>
    BY <1>17 DEF R5Error, ClearIntStatus, Fails, hwVars, histVars, dmaVars
  <2> QED
    BY <1>c, <2>1 DEF EndInv
<1>18. CASE ResetCmdLine \/ ResetDatLine
  <2>1. /\ pc \in {"reset cmd", "reset dat"} /\ sts' = sts
        /\ pc' \in {"reset dat", "clear dat", "idle", "done"}
        /\ hw' = hw \/ hw' = "idle" \/ hw = "cmd"
        /\ hw' \in {hw, "idle"}
        /\ res' \in {res, err}
        /\ UNCHANGED <<responded, kind, moved, base, total>>
    BY <1>18 DEF ResetCmdLine, ResetDatLine, Finish, histVars, dmaVars
  <2>2. "DATA_END" \in sts => Complete'
    BY <2>1 DEF EndInv, Complete, Buffer
  <2>3. res # "OK"
    BY <2>1 DEF EndInv
  <2>4. err # "OK"
    BY <2>1 DEF PathInv, CleanUp
  <2> QED
    BY <2>1, <2>2, <2>3, <2>4 DEF EndInv
<1>19. CASE WorkAck
  <2>1. /\ pc = "done" /\ pc' = "idle" /\ sts' = sts
        /\ UNCHANGED <<hw, responded, kind, moved, base, total, res, dma_pending, dma_result>>
    BY <1>19 DEF WorkAck, hwVars, histVars, dmaVars, flagVars
  <2> QED
    BY <2>1, EndKept
<1>20. CASE WorkEnter \/ UNCHANGED vars
  <2>1. UNCHANGED <<sts, pc, hw, responded, kind, moved, base, total, res, dma_pending,
                    dma_result>>
    BY <1>20 DEF WorkEnter, vars, threadVars, hwVars, histVars, dmaVars, flagVars
  <2> QED
    BY <1>c, <2>1 DEF EndInv
<1>21. CASE HandleSdhciHostIrq
  <2>1. /\ sts' = {} /\ UNCHANGED <<responded, kind, moved, base, total, res>>
        /\ hw' = hw \/ (hw = "paused" /\ hw' = "data")
    BY <1>21 DEF HandleSdhciHostIrq, DmaBoundary, histVars
  <2>2. /\ pc' \in {pc, "woken cmd", "woken dma"}
        /\ pc' # pc => pc \in {"wait cmd", "wait dma"}
        /\ pc' = "woken dma" => pc = "woken dma" \/ DmaCompletes
    BY <1>21 DEF HandleSdhciHostIrq, NotifyWaiter
  <2>3. Complete => Complete'
    BY <2>1 DEF Complete, Buffer
  <2>4. ASSUME DmaCompletes
        PROVE  ~dma_pending' /\ (dma_result' = "OK" => "DATA_END" \in sts)
    <3>1. dma_result' = (IF "DATA_END" \in sts THEN "OK" ELSE DataError)
      BY <1>21, <2>4 DEF HandleSdhciHostIrq
    <3>2. ~dma_pending'
      BY <1>21, <2>4 DEF HandleSdhciHostIrq
    <3> QED
      BY <3>1, <3>2, Results
  <2>5. ASSUME ~dma_pending
        PROVE  ~dma_pending' /\ dma_result' = dma_result
    <3>1. ~DmaCompletes
      BY <2>5 DEF DmaCompletes
    <3> QED
      BY <1>21, <2>5, <3>1 DEF HandleSdhciHostIrq
  <2>6. pc' = "woken dma" => ~dma_pending' /\ (dma_result' = "OK" => Complete')
    BY <2>2, <2>3, <2>4, <2>5 DEF EndInv
  <2> QED
    BY <2>1, <2>2, <2>3, <2>6 DEF EndInv
<1>22. CASE HwResponse
  <2>1. /\ hw = "cmd" /\ sts' = sts \cup {"RESPONSE"} /\ responded'
        /\ UNCHANGED <<pc, res, dma_pending, dma_result>>
    BY <1>22 DEF HwResponse, threadVars, flagVars
  <2>2. "DATA_END" \notin sts'
    BY <2>1 DEF LineInv, Quiet, DataBits
  <2> QED
    BY <2>1, <2>2 DEF EndInv, Complete
<1>23. CASE HwCmdError
  <2>1. /\ hw = "cmd" /\ hw' = "idle" /\ UNCHANGED <<pc, res, dma_pending, dma_result>>
    BY <1>23 DEF HwCmdError, threadVars, flagVars
  <2>2. PICK e \in CmdErrors : e \in sts' /\ sts' \subseteq sts \cup {e, "RESPONSE"}
    BY <1>23 DEF HwCmdError
  <2>3. e \in CmdErrorBits
    BY <2>2, Constants DEF CmdErrorBits
  <2>4. "DATA_END" \notin sts'
    BY <2>1, <2>2, <2>3 DEF LineInv, Quiet, DataBits, CmdErrorBits
  <2> QED
    BY <2>1, <2>2, <2>3, <2>4 DEF EndInv, Complete
<1>24. CASE HwDma
  <2>1. /\ hw = "data" /\ hw' \in {"last", "paused"} /\ sts' \subseteq sts \cup {"DMA_END"}
        /\ sts \subseteq sts'
        /\ UNCHANGED <<pc, res, dma_pending, dma_result, responded>>
    BY <1>24 DEF HwDma, threadVars, flagVars
  <2>2. "DATA_END" \notin sts'
    BY <2>1 DEF EndInv, Complete
  <2> QED
    BY <2>1, <2>2 DEF EndInv, Complete
<1>25. CASE HwDataEnd
  <2>1. /\ hw = "last" /\ hw' = "idle" /\ sts \subseteq sts'
        /\ sts' \subseteq sts \cup {"DATA_END", "DATA_TIMEOUT"}
        /\ UNCHANGED <<pc, res, dma_pending, dma_result, responded, kind, moved, base, total>>
    BY <1>25 DEF HwDataEnd, threadVars, flagVars, histVars, dmaVars
  <2>2. Complete'
    BY <2>1 DEF EndInv, DmaInv, Complete, Buffer
  <2> QED
    BY <2>1, <2>2 DEF EndInv, Complete
<1>26. CASE HwDataError
  <2>1. /\ hw \in {"data", "paused", "last"} /\ hw' = "idle" /\ sts \subseteq sts'
        /\ UNCHANGED <<pc, res, dma_pending, dma_result, responded>>
    BY <1>26 DEF HwDataError, threadVars, flagVars, histVars
  <2>2. PICK e \in DataErrors : sts' = sts \cup {e}
    BY <1>26 DEF HwDataError
  <2>3. e # "RESPONSE" /\ e # "DATA_END"
    BY Constants
  <2>4. "DATA_END" \notin sts'
    BY <2>1, <2>2, <2>3 DEF EndInv, Complete
  <2> QED
    BY <2>1, <2>2, <2>3, <2>4 DEF EndInv, Complete
<1>27. CASE CardInt
  <2>1. /\ sts' = sts \cup {"CARD_INT"}
        /\ UNCHANGED <<hw, pc, res, dma_pending, dma_result, responded, kind, moved, base, total>>
    BY <1>27 DEF CardInt, threadVars, flagVars, histVars, dmaVars
  <2> QED
    BY <1>c, <2>1 DEF EndInv
<1> QED
  BY <1>2, <1>3, <1>4, <1>5, <1>6, <1>7, <1>8, <1>9, <1>10, <1>11, <1>12, <1>13, <1>14,
     <1>15, <1>16, <1>17, <1>18, <1>19, <1>20, <1>21, <1>22, <1>23, <1>24, <1>25,
     <1>26, <1>27 DEF Next, Command, Hardware

-----------------------------------------------------------------------------
(* DmaInv *)

(* Steps that leave the transfer where it is, or give it up. *)
LEMMA DmaKept ==
  ASSUME DmaInv, UNCHANGED <<kind, moved, base, total, bytes, sdma, left>>,
         hw' \in {hw, "idle"},
         "DMA_END" \in sts' => "DMA_END" \in sts,
         pc' \in BeforeIssue => pc \in BeforeIssue
  PROVE  DmaInv'
<1>1. Buffer' = Buffer
  BY DEF Buffer
<1>2. NextBoundary(base + bytes)' = NextBoundary(base + bytes)
  BY DEF NextBoundary
<1>3. CASE hw' = hw
  BY <1>1, <1>2, <1>3 DEF DmaInv
<1>4. CASE hw' = "idle"
  BY <1>1, <1>4 DEF DmaInv
<1> QED
  BY <1>3, <1>4

LEMMA DmaStep ==
  ASSUME Types, LockInv, LineInv, PathInv, DmaInv, [Next]_vars
  PROVE  DmaInv'
<1>0. ThreadType /\ HwType /\ DmaType
  BY DEF Types
<1>1. ASSUME NEW k \in Kinds, Start(k)  PROVE DmaInv'
  BY <1>1 DEF Start, Begin, DmaInv
<1>2. CASE WorkRun
  BY <1>2 DEF WorkRun, Begin, DmaInv
<1>3. ASSUME NEW b \in Bases, NEW n \in Totals, StartBlocks(b, n)  PROVE DmaInv'
  <2>1. /\ moved' = {} /\ sdma' = b /\ base' = b /\ total' = n /\ bytes' = 0 /\ hw' = "idle"
    BY <1>3 DEF StartBlocks, Begin
  <2>2. n > 0
    BY Constants
  <2> QED
    BY <2>1, <2>2 DEF DmaInv
<1>4. CASE Issue
  <2>1. /\ pc = "issue" /\ hw' = "cmd" /\ left' = (IF kind = "blocks" THEN total ELSE 0)
        /\ pc' \in {"enter cmd", "poll"} /\ UNCHANGED <<kind, moved, base, total, bytes, sdma>>
    BY <1>4 DEF Issue, dmaVars, histVars
  <2>2. kind = "blocks" =>
          moved = {} /\ sdma = base /\ bytes = 0 /\ total > 0 /\ left' = total
    BY <2>1 DEF DmaInv, BeforeIssue
  <2> QED
    BY <2>1, <2>2 DEF DmaInv, BeforeIssue
<1>5. CASE Fifo
  BY <1>5 DEF Fifo, PathInv, DmaInv
<1>6. CASE Poll
  <2>1. sts' \subseteq sts /\ UNCHANGED <<kind, moved, base, total, bytes, sdma, left, hw>>
    BY <1>6 DEF Poll, dmaVars, histVars
  <2>2. pc' \notin BeforeIssue
    BY <1>6 DEF Poll, Finish, Fails, BeforeIssue
  <2> QED
    BY <2>1, <2>2, DmaKept
<1>7. CASE XferPoll \/ R5Ok \/ ClearIntStatus
  <2>1. sts' = {} /\ UNCHANGED <<kind, moved, base, total, bytes, sdma, left, hw>>
    BY <1>7 DEF XferPoll, R5Ok, ClearIntStatus, dmaVars, histVars
  <2>2. pc' \notin BeforeIssue
    BY <1>7 DEF XferPoll, R5Ok, ClearIntStatus, Finish, Fails, BeforeIssue
  <2> QED
    BY <2>1, <2>2, DmaKept
<1>8. CASE ResetCmdLine \/ ResetDatLine
  <2>1. /\ hw' \in {hw, "idle"} /\ UNCHANGED <<sts, kind, moved, base, total, bytes, sdma, left>>
        /\ pc' \notin BeforeIssue
    BY <1>8 DEF ResetCmdLine, ResetDatLine, Finish, dmaVars, histVars, BeforeIssue
  <2> QED
    BY <2>1, DmaKept
<1>9. CASE ReadIrqs \/ SetPending
  <2>1. UNCHANGED <<sts, kind, moved, base, total, bytes, sdma, left, hw>> /\ pc \in BeforeIssue
    BY <1>9 DEF ReadIrqs, SetPending, hwVars, dmaVars, histVars, BeforeIssue
  <2> QED
    BY <2>1, DmaKept
<1>10. CASE \/ PollTimeout \/ FifoFails \/ XferTimeout \/ EnterQueue \/ CmdTimeout
            \/ CmdWoken \/ DmaTimeout \/ DmaWoken \/ R5Error \/ WorkAck
  <2>1. UNCHANGED <<sts, kind, moved, base, total, bytes, sdma, left, hw>>
    BY <1>10 DEF PollTimeout, FifoFails, XferTimeout, EnterQueue, CmdTimeout, CmdWoken,
       DmaTimeout, DmaWoken, R5Error, WorkAck, hwVars, dmaVars, histVars
  <2>2. pc' \notin BeforeIssue
    BY <1>10 DEF PollTimeout, FifoFails, XferTimeout, EnterQueue, CmdTimeout, CmdWoken,
       DmaTimeout, DmaWoken, R5Error, WorkAck, Fails, BeforeIssue
  <2> QED
    BY <2>1, <2>2, DmaKept
<1>11. CASE StartAgain \/ WorkEnter \/ UNCHANGED vars
  <2>1. UNCHANGED <<sts, pc, kind, moved, base, total, bytes, sdma, left, hw>>
    BY <1>11 DEF StartAgain, WorkEnter, vars, threadVars, hwVars, dmaVars, histVars
  <2> QED
    BY <2>1, DmaKept
<1>12. CASE HwCmdError \/ HwDataError
  <2>1. hw' = "idle" /\ UNCHANGED <<pc, kind, moved, base, total, bytes, sdma, left>>
    BY <1>12 DEF HwCmdError, HwDataError, threadVars, dmaVars, histVars
  <2>2. "DMA_END" \in sts' => "DMA_END" \in sts
    BY <1>12, Constants DEF HwCmdError, HwDataError
  <2> QED
    BY <2>1, <2>2, DmaKept
<1>13. CASE HwDataEnd \/ CardInt
  <2>1. /\ hw' \in {hw, "idle"} /\ UNCHANGED <<pc, kind, moved, base, total, bytes, sdma, left>>
        /\ sts' \subseteq sts \cup {"DATA_END", "DATA_TIMEOUT", "CARD_INT"}
    BY <1>13 DEF HwDataEnd, CardInt, threadVars, dmaVars, histVars
  <2> QED
    BY <2>1, DmaKept
<1>14. CASE HwResponse
  <2>1. /\ hw = "cmd" /\ hw' \in {"idle", "data"} /\ sts' = sts \cup {"RESPONSE"}
        /\ UNCHANGED <<pc, kind, moved, base, total, bytes, sdma, left>>
    BY <1>14 DEF HwResponse, threadVars, dmaVars
  <2>2. "DMA_END" \notin sts' /\ pc' \notin BeforeIssue
    BY <2>1 DEF LineInv, Quiet, DataBits
  <2>3. ASSUME kind = "blocks"
        PROVE  /\ moved = {} /\ sdma = base + bytes /\ left = total - bytes /\ left > 0
               /\ moved = base .. sdma - 1
    <3>1. moved = {} /\ sdma = base /\ bytes = 0 /\ left = total /\ total > 0
      BY <2>1, <2>3 DEF DmaInv
    <3> QED
      BY <1>0, <3>1 DEF HwType, DmaType
  <2>4. kind = "blocks" => moved' \subseteq Buffer'
    BY <2>1, <2>3
  <2> QED
    BY <2>1, <2>2, <2>3, <2>4 DEF DmaInv
<1>15. CASE HwDma
  <2> DEFINE limit == NextBoundary(sdma)
             stop == IF sdma + left < limit THEN sdma + left ELSE limit
  <2>1. /\ hw = "data" /\ kind = "blocks"
        /\ moved' = moved \cup (sdma .. stop - 1) /\ left' = left - (stop - sdma)
        /\ sdma' = stop
        /\ sts' = (IF stop = limit THEN sts \cup {"DMA_END"} ELSE sts)
        /\ hw' = (IF sdma + left = stop THEN "last" ELSE "paused")
        /\ UNCHANGED <<pc, kind, base, total, bytes>>
    BY <1>15 DEF HwDma, NextBoundary, threadVars, dmaVars
  <2>2. /\ sdma = base + bytes /\ left = total - bytes /\ left > 0
        /\ moved = base .. sdma - 1 /\ "DMA_END" \notin sts
    BY <2>1 DEF DmaInv
  <2>3. sdma \in Nat /\ left \in Nat /\ base \in Nat /\ total \in Nat /\ bytes \in Nat
    BY <1>0 DEF HwType, DmaType
  <2>4. limit \in Nat /\ limit > sdma
    BY <2>3, BoundaryAhead
  <2>5. limit = NextBoundary(base + bytes)
    BY <2>2
  <2>6. (NextBoundary(base + bytes))' = limit
    BY <2>1, <2>5 DEF NextBoundary
  <2> HIDE DEF limit
  <2>7. /\ stop \in Nat /\ stop > sdma /\ stop <= sdma + left
        /\ stop # sdma + left => stop = limit
    BY <2>2, <2>3, <2>4
  <2> HIDE DEF stop
  <2>8. sdma + left = base + total
    BY <2>2, <2>3
  <2>9. moved' = base .. stop - 1
    <3>1. base <= sdma /\ sdma < stop
      BY <2>2, <2>3, <2>7
    <3> QED
      BY <2>1, <2>2, <2>3, <2>7, <3>1
  <2>10. moved' \subseteq Buffer'
    BY <2>1, <2>3, <2>7, <2>8, <2>9 DEF Buffer
  <2>11. pc \notin BeforeIssue
    BY <2>1 DEF LineInv
  <2>12. CASE sdma + left = stop
    <3>0. stop = base + total
      BY <2>8, <2>12
    <3>a. hw' = "last" /\ sdma' = base' + total'
      BY <2>1, <2>12, <3>0
    <3>b. moved' = Buffer'
      <4>1. base' = base /\ total' = total
        BY <2>1
      <4>2. Buffer' = base .. (base + total) - 1
        BY <2>3, <4>1 DEF Buffer
      <4> QED
        BY <2>9, <3>0, <4>2
    <3>1. hw' = "last" /\ sdma' = base' + total' /\ moved' = Buffer'
      BY <3>a, <3>b
    <3>2. "DMA_END" \in sts' => (NextBoundary(base + bytes))' = sdma'
      BY <2>1, <2>2, <2>6
    <3> QED
      BY <2>1, <2>10, <2>11, <3>1, <3>2 DEF DmaInv
  <2>13. CASE sdma + left # stop
    <3>1. hw' = "paused" /\ stop = limit
      BY <2>1, <2>7, <2>13
    <3>2. left' = base + total - stop /\ left' > 0 /\ base <= stop
      BY <2>1, <2>2, <2>3, <2>7, <2>8, <2>13
    <3> QED
      BY <2>1, <2>6, <2>9, <2>10, <2>11, <3>1, <3>2 DEF DmaInv
  <2> QED
    BY <2>12, <2>13
<1>16. CASE HandleSdhciHostIrq
  <2>1. /\ sts' = {} /\ UNCHANGED <<kind, moved, base, total, left>>
    BY <1>16 DEF HandleSdhciHostIrq, histVars
  <2>2. pc' \in BeforeIssue => pc \in BeforeIssue
    BY <1>16 DEF HandleSdhciHostIrq, NotifyWaiter, BeforeIssue
  <2>3. CASE UNCHANGED <<bytes, sdma, hw>>
    BY <2>1, <2>2, <2>3, DmaKept
  <2>4. CASE DmaBoundary /\ "DMA_END" \in sts
    <3> DEFINE next == NextBoundary(base + bytes)
    <3>1. /\ bytes' = next - base
          /\ IF next - base < total
             THEN sdma' = next /\ hw' = (IF hw = "paused" THEN "data" ELSE hw)
             ELSE UNCHANGED <<sdma, hw>>
      BY <2>4 DEF DmaBoundary
    <3>2. next \in Nat /\ base \in Nat /\ total \in Nat
      BY <1>0, BoundaryAhead DEF DmaType
    <3>3. moved \subseteq Buffer => moved' \subseteq Buffer'
      BY <2>1 DEF Buffer
    <3>4. ~Quiet
      BY <2>4 DEF Quiet, DataBits
    <3>5. pc' \notin BeforeIssue /\ hw # "cmd"
      BY <2>2, <3>4 DEF LineInv
    <3>6. kind = "blocks" => hw # "data"
      BY <2>4 DEF DmaInv
    <3>7. ASSUME kind = "blocks", hw = "paused"
          PROVE  /\ hw' = "data" /\ sdma' = base + bytes' /\ left = total - bytes' /\ left > 0
                 /\ moved = base .. sdma' - 1
      <4>1. /\ sdma = next /\ left = base + total - sdma /\ left > 0
            /\ moved = base .. sdma - 1
        BY <3>7 DEF DmaInv
      <4> HIDE DEF next
      <4>2. next - base < total
        BY <3>2, <4>1
      <4>3. sdma' = next /\ hw' = "data"
        BY <3>1, <3>7, <4>2
      <4> QED
        BY <3>1, <3>2, <4>1, <4>3
    <3>8. ASSUME kind = "blocks", hw = "last"
          PROVE  UNCHANGED <<sdma, hw>>
      <4>1. sdma = base + total /\ next = sdma
        BY <2>4, <3>8 DEF DmaInv
      <4> HIDE DEF next
      <4>2. ~(next - base < total)
        BY <3>2, <4>1
      <4> QED
        BY <3>1, <4>2
    <3>9. ASSUME kind = "blocks", hw = "last"
          PROVE  moved' = Buffer' /\ sdma' = base' + total'
      BY <2>1, <3>8, <3>9 DEF DmaInv, Buffer
    <3>10. kind = "blocks" => hw \in {"idle", "paused", "last"}
      BY <1>0, <3>5, <3>6 DEF HwType
    <3>11. hw = "idle" => hw' = "idle"
      BY <3>1
    <3> HIDE DEF next
    <3>12. CASE kind # "blocks"
      BY <2>1, <3>12 DEF DmaInv
    <3>13. CASE kind = "blocks" /\ hw = "paused"
      BY <2>1, <3>3, <3>5, <3>7, <3>13 DEF DmaInv
    <3>14. CASE kind = "blocks" /\ hw = "last"
      BY <2>1, <3>3, <3>5, <3>8, <3>9, <3>14 DEF DmaInv
    <3>15. CASE kind = "blocks" /\ hw = "idle"
      BY <2>1, <3>3, <3>5, <3>11, <3>15 DEF DmaInv
    <3> QED
      BY <3>10, <3>12, <3>13, <3>14, <3>15
  <2> QED
    BY <1>16, <2>3, <2>4 DEF HandleSdhciHostIrq
<1> QED
  BY <1>1, <1>2, <1>3, <1>4, <1>5, <1>6, <1>7, <1>8, <1>9, <1>10, <1>11, <1>12, <1>13,
     <1>14, <1>15, <1>16 DEF Next, Command, Hardware

-----------------------------------------------------------------------------
(* The theorems *)

IInv == Types /\ LockInv /\ NotifyInv /\ LineInv /\ PathInv /\ EndInv /\ DmaInv

LEMMA InvInit == Init => IInv
<1> SUFFICES ASSUME Init PROVE IInv
  OBVIOUS
<1>1. Types
  BY DEF Init, Types, ThreadType, HwType, FlagType, DmaType, CardType, HistType, PcSet
<1>2. LockInv /\ NotifyInv /\ LineInv /\ PathInv /\ EndInv /\ DmaInv
  BY DEF Init, LockInv, NotifyInv, LineInv, PathInv, EndInv, DmaInv, Quiet, BeforeIssue, DatPhase, CleanUp
<1> QED
  BY <1>1, <1>2 DEF IInv

LEMMA InvStep == IInv /\ [Next]_vars => IInv'
<1> SUFFICES ASSUME IInv, [Next]_vars PROVE IInv'
  OBVIOUS
<1>1. Types /\ LockInv /\ NotifyInv /\ LineInv /\ PathInv /\ EndInv /\ DmaInv
  BY DEF IInv
<1>2. Types'
  BY <1>1, ThreadTypeStep, CardTypeStep, HwTypeStep DEF Types
<1>3. LockInv' /\ NotifyInv' /\ LineInv' /\ PathInv'
  BY <1>1, LockStep, CardStep, LineStep, PathStep
<1>4. EndInv'
  BY <1>1, EndStep
<1>5. DmaInv'
  BY <1>1, DmaStep
<1> QED
  BY <1>2, <1>3, <1>4, <1>5 DEF IInv

LEMMA Inductive == Spec => []IInv
  BY InvInit, InvStep, PTL DEF Spec

(* Every variable of the host keeps its type, whatever the controller and the *)
(* card do.                                                                   *)
THEOREM TypeCorrect == Spec => []TypeOK
<1>1. IInv => TypeOK
  BY TypesOK DEF IInv
<1> QED
  BY <1>1, Inductive, PTL

(* A command that returns Ok was answered, and a block transfer that returns  *)
(* Ok moved its whole buffer, for every boundary, address and size: the       *)
(* handler of handle_sdhci_host_irq and the polling loops take no bit of      *)
(* anything else for the end of the command.                                  *)
THEOREM OkWasDone == Spec => []OkMeansDone
<1>1. IInv => OkMeansDone
  BY DEF IInv, EndInv, Complete, OkMeansDone
<1> QED
  BY <1>1, Inductive, PTL

(* SDMA stays in the buffer of the transfer: INT_DMA_END's new SDMA_SADDR is  *)
(* where the controller stopped, also after the thread timed out.             *)
THEOREM DmaStaysInBuffer == Spec => []DmaInBuffer
<1>1. IInv => DmaInBuffer
  BY DEF IInv, DmaInv, DmaInBuffer
<1> QED
  BY <1>1, Inductive, PTL

(* Every path that releases SDIO_DEVICE leaves the controller idle.           *)
THEOREM LockFreeMeansIdle == Spec => []ControllerReleased
<1>1. IInv => ControllerReleased
  BY DEF IInv, LockInv, LineInv, ControllerReleased
<1> QED
  BY <1>1, Inductive, PTL

(* Once CARD_INT is unmasked no step leaves it masked without sdio_irq_work   *)
(* having been woken for it or serving it, the stale write of                 *)
(* set_transfer_irqs_dma and ack_sdio_irq included, except a notify that came *)
(* while that thread was not in its queue.                                    *)
THEOREM CardIntNotLost == Spec => CardIntAccounted
<1>1. IInv /\ [Next]_vars => [Responsible => Responsible']_vars
  <2> SUFFICES ASSUME IInv, [Next]_vars, Responsible PROVE Responsible'
    OBVIOUS
  <2> QED
    BY CardStep DEF IInv
<1> QED
  BY <1>1, Inductive, PTL DEF Spec, CardIntAccounted
=============================================================================
