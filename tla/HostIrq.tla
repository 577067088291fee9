------------------------------ MODULE HostIrq -------------------------------
(***************************************************************************)
(* The SDHCI host of driver/bsp/src/sdio/backend.rs: the thread that holds *)
(* SDIO_DEVICE runs one command at a time, and completion is noticed in    *)
(* two ways.  cmd53_{read,write}_blocks sleeps until the interrupt handler *)
(* (handle_sdhci_host_irq) stores a result and notifies; CMD52 and the     *)
(* byte-mode CMD53 poll the interrupt status register themselves.  Both    *)
(* work on that one register, whose bits are cleared by writing them.      *)
(*                                                                         *)
(* The CARD_INT side is here too: the handler and the entry of a transfer  *)
(* mask it and wake the sdio_irq_work thread, which reads CCCR 0x05 with a  *)
(* CMD52 and unmasks it.                                                   *)
(*                                                                         *)
(* One core: the handler's loop body runs between two steps of a thread.   *)
(* spin::Mutex leaves interrupts on, so it may run between any two.  An    *)
(* interrupt is taken before the next transfer begins.  The controller and *)
(* the card are external; addresses and sizes are counted in units of the  *)
(* DMA buffer's granularity.  Buffer-ready bits are never enabled          *)
(* (DEFAULT_IER), the FIFO loops see PRESENT_STS.                          *)
(***************************************************************************)
EXTENDS Integers, FiniteSets

CONSTANTS
  Kinds,       \* what the lock holder may run
  Bases,       \* physical addresses of the DMA buffer
  Totals,      \* sizes of a block transfer
  Boundary,    \* SDHCI_DEFAULT_BOUNDARY_SIZE
  CmdErrors,   \* the command error bits the controller may set
  DataErrors   \* the data error bits the controller may set

ASSUME HostIrqAssumption ==
  /\ Kinds \subseteq {"cmd52", "chunk", "blocks"}
  /\ Bases \subseteq Nat
  /\ Totals \subseteq Nat \ {0}
  /\ Boundary \in Nat \ {0}
  /\ CmdErrors \subseteq {"TIMEOUT", "CRC", "END_BIT", "INDEX"}
  /\ DataErrors \subseteq {"DATA_TIMEOUT", "DATA_CRC", "ADMA_ERROR"}

VARIABLES
  owner,        \* who holds SDIO_DEVICE
  pc, kind,     \* where its command is, and what it is
  err,          \* the error the command will return after the cleanup
  res,          \* what the last command returned
  sts,          \* NORM_AND_ERR_INT_STS
  hw,           \* the controller: idle, or which phase of a command
  sdma, left,   \* SDMA_SADDR; units of the transfer not moved yet
  cmd_pending,  \* HOST_TRANSFER_CMD_PENDING
  dma_pending,  \* HOST_TRANSFER_DMA_PENDING
  cmd_result,   \* HOST_CMD_RESULT
  dma_result,   \* HOST_DMA_RESULT
  base, total,  \* HOST_DMA_BASE_PHYS, HOST_DMA_TOTAL
  bytes,        \* HOST_DMA_BYTES_XFERRED
  card,         \* the card asserts its interrupt
  card_en,      \* CARD_INT in INT_STS_EN and INT_SIG_EN
  saved_en,     \* card_en as set_transfer_irqs_dma read it
  irq_pending,  \* SDIO_IRQ_PENDING
  wpc,          \* where sdio_irq_work is
  lost,         \* history: the last notify_sdio_irq_work found it elsewhere
  moved,        \* history: the addresses the last block transfer moved
  responded     \* history: the controller answered the last command

threadVars == <<owner, pc, kind, err, res>>
hwVars == <<sts, hw, sdma, left>>
flagVars == <<cmd_pending, dma_pending, cmd_result, dma_result>>
dmaVars == <<base, total, bytes>>
cardVars == <<card, card_en, saved_en, irq_pending, wpc, lost>>
histVars == <<moved, responded>>
vars == <<threadVars, hwVars, flagVars, dmaVars, cardVars, histVars>>

CmdBits == {"RESPONSE", "TIMEOUT", "CRC", "END_BIT", "INDEX"}
DataBits == {"DATA_END", "DMA_END", "DATA_TIMEOUT", "DATA_CRC", "ADMA_ERROR"}
Errors == {"ETIMEDOUT", "EILSEQ", "EBADMSG", "EIO"}

TypeOK ==
  /\ owner \in {"none", "user", "work"}
  /\ pc \in {"idle", "irqs", "pending", "issue", "poll", "fifo", "xfer",
             "enter cmd", "wait cmd", "woken cmd", "enter dma", "wait dma",
             "woken dma", "r5", "clear cmd", "reset cmd", "clear dat",
             "reset dat", "done"}
  /\ kind \in {"cmd52", "chunk", "blocks"}
  /\ err \in Errors \cup {"OK"}
  /\ res \in Errors \cup {"none", "OK", "EAGAIN"}
  /\ sts \subseteq CmdBits \cup DataBits \cup {"CARD_INT"}
  /\ hw \in {"idle", "cmd", "data", "paused", "last"}
  /\ sdma \in Nat /\ left \in Nat
  /\ cmd_pending \in BOOLEAN /\ dma_pending \in BOOLEAN
  /\ cmd_result \in Errors \cup {"OK"} /\ dma_result \in Errors \cup {"OK"}
  /\ base \in Nat /\ total \in Nat /\ bytes \in Nat
  /\ card \in BOOLEAN /\ card_en \in BOOLEAN /\ saved_en \in BOOLEAN
  /\ irq_pending \in BOOLEAN
  /\ wpc \in {"out", "queue", "woken", "running"}
  /\ lost \in BOOLEAN
  /\ moved \subseteq Nat
  /\ responded \in BOOLEAN

(* After init_host: DEFAULT_IER has no CARD_INT; the threads run. *)
Init ==
  /\ owner = "none" /\ pc = "idle" /\ kind = "cmd52"
  /\ err = "OK" /\ res = "none"
  /\ sts = {} /\ hw = "idle" /\ sdma = 0 /\ left = 0
  /\ cmd_pending = FALSE /\ dma_pending = FALSE
  /\ cmd_result = "OK" /\ dma_result = "OK"
  /\ base = 0 /\ total = 0 /\ bytes = 0
  /\ card = FALSE /\ card_en = FALSE /\ saved_en = FALSE
  /\ irq_pending = FALSE /\ wpc = "out" /\ lost = FALSE
  /\ moved = {} /\ responded = FALSE

-----------------------------------------------------------------------------
(* What the handler makes of the command bits: an error goes before           *)
(* INT_RESPONSE, except INT_INDEX.                                            *)
CmdResult ==
  CASE "TIMEOUT" \in sts -> "ETIMEDOUT"
    [] "CRC" \in sts /\ "TIMEOUT" \notin sts -> "EILSEQ"
    [] "END_BIT" \in sts /\ sts \cap {"TIMEOUT", "CRC"} = {} -> "EBADMSG"
    [] "RESPONSE" \in sts /\ sts \cap {"TIMEOUT", "CRC", "END_BIT"} = {} -> "OK"
    [] OTHER -> "EIO"

(* What wait_cmd_complete makes of them: every error goes first. *)
PollResult == IF "INDEX" \in sts /\ CmdResult = "OK" THEN "EIO" ELSE CmdResult

(* The code of a failed data phase; DATA_CRC stands for DATA_END_BIT too. *)
DataError ==
  CASE "DATA_TIMEOUT" \in sts -> "ETIMEDOUT"
    [] "DATA_CRC" \in sts /\ "DATA_TIMEOUT" \notin sts -> "EILSEQ"
    [] OTHER -> "EIO"

DataFailed == sts \cap {"DATA_TIMEOUT", "DATA_CRC", "ADMA_ERROR"} # {}

(* A slip: the boundary rounded down. *)
RoundDown(a) == (a \div Boundary) * Boundary

(* The end of the buffer's part up to the next SDMA boundary after a. *)
NextBoundary(a) == (a \div Boundary) * Boundary + Boundary

(* notify_sdio_irq_work: it wakes who is in the queue and leaves no trace for *)
(* a thread that is not.                                                      *)
NotifyWork ==
  /\ wpc' = IF wpc = "queue" THEN "woken" ELSE wpc
  /\ lost' = (wpc \notin {"queue", "woken"})

(* The command is over: the thread releases SDIO_DEVICE, except               *)
(* sdio_irq_work, which goes on to ack_sdio_irq.                              *)
Finish(x) ==
  /\ res' = x
  /\ pc' = IF owner = "work" THEN "done" ELSE "idle"
  /\ owner' = IF owner = "work" THEN owner ELSE "none"

(* A failure whose cleanup begins with the command or with the data line. *)
Fails(line, x) == pc' = line /\ err' = x

-----------------------------------------------------------------------------
(* Slips a maintainer could make below. *)

(* The cleanup leaves out the DAT line. *)
ForgetDatLine ==
  /\ pc = "reset dat"
  /\ Finish(err)
  /\ UNCHANGED <<kind, err, hwVars, flagVars, dmaVars, cardVars, histVars>>

(* After a boundary SDMA goes on from the start of the buffer. *)
RestartAtBase ==
  LET next == NextBoundary(base + bytes)
  IN  /\ bytes' = next - base
      /\ IF next - base < total
         THEN /\ sdma' = base
              /\ hw' = IF hw = "paused" THEN "data" ELSE hw
         ELSE UNCHANGED <<sdma, hw>>

(* The wait for the data phase has no time limit. *)
WaitForever == FALSE /\ UNCHANGED vars

(* An error of the CMD52 skips ack_sdio_irq. *)
AckOnSuccess ==
  /\ wpc = "running" /\ pc = "done"
  /\ card_en' = (card_en \/ (~irq_pending /\ res = "OK"))
  /\ wpc' = "out"
  /\ owner' = "none" /\ pc' = "idle"
  /\ UNCHANGED <<kind, err, res, hwVars, flagVars, dmaVars, card, saved_en,
                 irq_pending, lost, histVars>>

-----------------------------------------------------------------------------
(* The lock holder: the entry of a command. *)

(* The lock is free and wait_not_inhibit returns (ControllerReleased: it does *)
(* not have to wait).                                                         *)
Begin(who, k) ==
  /\ owner = "none"
  /\ hw = "idle"
  /\ sts \cap (CmdBits \cup DataBits) = {}
  /\ owner' = who
  /\ kind' = k
  /\ res' = "none" /\ err' = "OK"
  /\ moved' = {} /\ responded' = FALSE

(* CMD52, or a byte-mode CMD53 that found no CARD_INT. *)
Start(k) ==
  /\ k \in Kinds \ {"blocks"}
  /\ k = "chunk" => "CARD_INT" \notin sts
  /\ Begin("user", k)
  /\ pc' = "issue"
  /\ UNCHANGED <<hwVars, flagVars, dmaVars, cardVars>>

(* A slip: SDMA_SADDR is left where the last transfer ended. *)
KeepSdma(b, n) ==
  /\ "blocks" \in Kinds
  /\ "CARD_INT" \notin sts
  /\ Begin("user", "blocks")
  /\ pc' = "irqs"
  /\ base' = b /\ total' = n /\ bytes' = 0
  /\ UNCHANGED <<hwVars, flagVars, cardVars>>

(* cmd53_{read,write}_blocks: the DMA context and SDMA_SADDR. *)
StartBlocks(b, n) ==
  /\ "blocks" \in Kinds
  /\ "CARD_INT" \notin sts
  /\ Begin("user", "blocks")
  /\ pc' = "irqs"
  /\ base' = b /\ total' = n /\ bytes' = 0
  /\ sdma' = b
  /\ UNCHANGED <<sts, hw, left, flagVars, cardVars>>

(* process_sdio_pending_irqs_if_set: CARD_INT is masked and handed to the     *)
(* work thread; the transfer returns -11 and the caller releases the lock.    *)
StartAgain ==
  /\ owner = "none"
  /\ Kinds \ {"cmd52"} # {}
  /\ "CARD_INT" \in sts
  /\ card_en' = FALSE
  /\ irq_pending' = TRUE
  /\ NotifyWork
  /\ res' = "EAGAIN"
  /\ UNCHANGED <<owner, pc, kind, err, hwVars, flagVars, dmaVars, card,
                 saved_en, histVars>>

(* set_transfer_irqs_dma reads INT_STS_EN ... *)
ReadIrqs ==
  /\ pc = "irqs"
  /\ saved_en' = card_en
  /\ pc' = "pending"
  /\ UNCHANGED <<owner, kind, err, res, hwVars, flagVars, dmaVars, card,
                 card_en, irq_pending, wpc, lost, histVars>>

(* ... writes it back with the DMA bits, and the pending flags are set. *)
SetPending ==
  /\ pc = "pending"
  /\ card_en' = saved_en
  /\ saved_en' = FALSE
  /\ cmd_pending' = TRUE /\ dma_pending' = TRUE
  /\ pc' = "issue"
  /\ UNCHANGED <<owner, kind, err, res, hwVars, cmd_result, dma_result, dmaVars,
                 card, irq_pending, wpc, lost, histVars>>

(* The write of COMMAND. *)
Issue ==
  /\ pc = "issue"
  /\ hw' = "cmd"
  /\ left' = IF kind = "blocks" THEN total ELSE 0
  /\ pc' = IF kind = "blocks" THEN "enter cmd" ELSE "poll"
  /\ UNCHANGED <<owner, kind, err, res, sts, sdma, flagVars, dmaVars, cardVars,
                 histVars>>

-----------------------------------------------------------------------------
(* The lock holder: polling. *)

(* wait_cmd_complete sees an error or CMD_CMPL and clears the command bits.   *)
(* A CMD52 returns at once; its R5 may still carry an error.                  *)
Poll ==
  /\ pc = "poll"
  /\ sts \cap CmdBits # {}
  /\ sts' = sts \ CmdBits
  /\ \/ /\ kind = "cmd52"
        /\ \E x \in {"OK", "EIO"} :
             Finish(IF PollResult = "OK" THEN x ELSE PollResult)
        /\ UNCHANGED err
     \/ /\ kind = "chunk" /\ PollResult # "OK"
        /\ Fails("clear dat", PollResult)
        /\ UNCHANGED <<owner, res>>
     \/ /\ kind = "chunk" /\ PollResult = "OK"
        /\ pc' = "fifo"
        /\ UNCHANGED <<owner, err, res>>
  /\ UNCHANGED <<kind, hw, sdma, left, flagVars, dmaVars, cardVars, histVars>>

(* wait_cmd_complete gives up after 100 looks at the register. *)
PollTimeout ==
  /\ pc = "poll"
  /\ sts \cap CmdBits = {}
  /\ Fails("clear cmd", "ETIMEDOUT")
  /\ UNCHANGED <<owner, kind, res, hwVars, flagVars, dmaVars, cardVars,
                 histVars>>

(* The FIFO loop moved all words. *)
Fifo ==
  /\ pc = "fifo"
  /\ hw = "data"
  /\ hw' = "last"
  /\ pc' = "xfer"
  /\ UNCHANGED <<owner, kind, err, res, sts, sdma, left, flagVars, dmaVars,
                 cardVars, histVars>>

(* A data error before the FIFO, or the buffer does not become ready. *)
FifoFails ==
  /\ pc = "fifo"
  /\ \E x \in {"ETIMEDOUT"} \cup (IF "DATA_CRC" \in sts THEN {"EIO"} ELSE {}) :
       Fails("clear dat", x)
  /\ UNCHANGED <<owner, kind, res, hwVars, flagVars, dmaVars, cardVars,
                 histVars>>

(* wait_xfer_complete: DATA_END counts as success also beside DATA_TIMEOUT;   *)
(* every bit it read is cleared.                                              *)
XferPoll ==
  /\ pc = "xfer"
  /\ "DATA_END" \in sts \/ DataFailed
  /\ sts' = {}
  /\ IF "DATA_END" \in sts /\ ("DATA_TIMEOUT" \in sts \/ ~DataFailed)
     THEN pc' = "r5" /\ UNCHANGED err
     ELSE Fails("clear dat", DataError)
  /\ UNCHANGED <<owner, kind, res, hw, sdma, left, flagVars, dmaVars, cardVars,
                 histVars>>

XferTimeout ==
  /\ pc = "xfer"
  /\ "DATA_END" \notin sts /\ ~DataFailed
  /\ Fails("clear dat", "ETIMEDOUT")
  /\ UNCHANGED <<owner, kind, res, hwVars, flagVars, dmaVars, cardVars,
                 histVars>>

-----------------------------------------------------------------------------
(* The lock holder: waiting for the handler. *)

(* HOST_CMD_DONE_QUEUE.wait_timeout or HOST_DMA_DONE_QUEUE.wait_timeout. *)
EnterQueue ==
  /\ pc \in {"enter cmd", "enter dma"}
  /\ pc' = IF pc = "enter cmd" THEN "wait cmd" ELSE "wait dma"
  /\ UNCHANGED <<owner, kind, err, res, hwVars, flagVars, dmaVars, cardVars,
                 histVars>>

(* wait_cmd_complete_irq: timed out, or notified and HOST_CMD_RESULT read.    *)
(* After an error HOST_TRANSFER_DMA_PENDING stays set.                        *)
CmdTimeout ==
  /\ pc = "wait cmd"
  /\ cmd_pending' = FALSE
  /\ Fails("clear cmd", "ETIMEDOUT")
  /\ UNCHANGED <<owner, kind, res, hwVars, dma_pending, cmd_result, dma_result,
                 dmaVars, cardVars, histVars>>

CmdWoken ==
  /\ pc = "woken cmd"
  /\ IF cmd_result = "OK" THEN pc' = "enter dma" /\ UNCHANGED err
     ELSE Fails("clear cmd", cmd_result)
  /\ UNCHANGED <<owner, kind, res, hwVars, flagVars, dmaVars, cardVars,
                 histVars>>

(* wait_dma_complete_irq, likewise. *)
DmaTimeout ==
  /\ pc = "wait dma"
  /\ dma_pending' = FALSE
  /\ Fails("clear cmd", "ETIMEDOUT")
  /\ UNCHANGED <<owner, kind, res, hwVars, cmd_pending, cmd_result, dma_result,
                 dmaVars, cardVars, histVars>>

DmaWoken ==
  /\ pc = "woken dma"
  /\ IF dma_result = "OK" THEN pc' = "r5" /\ UNCHANGED err
     ELSE Fails("clear cmd", dma_result)
  /\ UNCHANGED <<owner, kind, res, hwVars, flagVars, dmaVars, cardVars,
                 histVars>>

-----------------------------------------------------------------------------
(* The lock holder: the end of a CMD53. *)

(* RESP31_0 is good: clear_int_status and wait_not_inhibit. *)
R5Ok ==
  /\ pc = "r5"
  /\ sts' = {}
  /\ Finish(IF hw = "idle" THEN "OK" ELSE "ETIMEDOUT")
  /\ UNCHANGED <<kind, err, hw, sdma, left, flagVars, dmaVars, cardVars,
                 histVars>>

R5Error ==
  /\ pc = "r5"
  /\ Fails(IF kind = "blocks" THEN "clear cmd" ELSE "clear dat", "EIO")
  /\ UNCHANGED <<owner, kind, res, hwVars, flagVars, dmaVars, cardVars,
                 histVars>>

(* clear_int_status *)
ClearIntStatus ==
  /\ pc \in {"clear cmd", "clear dat"}
  /\ sts' = {}
  /\ pc' = IF pc = "clear cmd" THEN "reset cmd" ELSE "reset dat"
  /\ UNCHANGED <<owner, kind, err, res, hw, sdma, left, flagVars, dmaVars,
                 cardVars, histVars>>

(* reset_cmd_line: the controller drops the command it has no answer to.      *)
(* A CMD52 returns, cmd53_*_blocks resets the DAT line next, the byte-mode    *)
(* CMD53 clears the status once more before that.                             *)
ResetCmdLine ==
  /\ pc = "reset cmd"
  /\ hw' = IF hw = "cmd" THEN "idle" ELSE hw
  /\ IF kind = "cmd52" THEN Finish(err)
     ELSE /\ pc' = IF kind = "blocks" THEN "reset dat" ELSE "clear dat"
          /\ UNCHANGED <<owner, res>>
  /\ UNCHANGED <<kind, err, sts, sdma, left, flagVars, dmaVars, cardVars,
                 histVars>>

(* reset_dat_line: the controller drops the data phase; the command returns.  *)
ResetDatLine ==
  /\ pc = "reset dat"
  /\ hw' = IF hw = "cmd" THEN hw ELSE "idle"
  /\ Finish(err)
  /\ UNCHANGED <<kind, err, sts, sdma, left, flagVars, dmaVars, cardVars,
                 histVars>>

-----------------------------------------------------------------------------
(* sdio_irq_work *)

(* wait_sdio_irq_work_or_timeout: into the queue, and out after 10 ms. *)
WorkEnter ==
  /\ wpc \in {"out", "queue"}
  /\ wpc' = IF wpc = "out" THEN "queue" ELSE "out"
  /\ UNCHANGED <<threadVars, hwVars, flagVars, dmaVars, card, card_en, saved_en,
                 irq_pending, lost, histVars>>

(* process_sdio_pending_irqs: with the lock, a CMD52 of CCCR 0x05. *)
WorkRun ==
  /\ wpc = "woken"
  /\ Begin("work", "cmd52")
  /\ pc' = "issue"
  /\ wpc' = "running"
  /\ irq_pending' = FALSE
  /\ lost' = FALSE
  /\ UNCHANGED <<hwVars, flagVars, dmaVars, card, card_en, saved_en>>

(* ack_sdio_irq unless another interrupt was signalled; the lock is released. *)
WorkAck ==
  /\ wpc = "running" /\ pc = "done"
  /\ card_en' = (card_en \/ ~irq_pending)
  /\ wpc' = "out"
  /\ owner' = "none" /\ pc' = "idle"
  /\ UNCHANGED <<kind, err, res, hwVars, flagVars, dmaVars, card, saved_en,
                 irq_pending, lost, histVars>>

-----------------------------------------------------------------------------
(* handle_sdhci_host_irq, one pass of its loop. *)

(* A data bit that ends the transfer. *)
DmaCompletes == dma_pending /\ ("DATA_END" \in sts \/ DataFailed)

(* INT_DMA_END alone: the bytes up to the next boundary after dmastart +      *)
(* bytes_xfered are done; SDMA_SADDR is written if there are more, which      *)
(* makes the controller go on.                                                *)
DmaBoundary ==
  LET next == NextBoundary(base + bytes)
  IN  /\ bytes' = next - base
      /\ IF next - base < total
         THEN /\ sdma' = next
              /\ hw' = IF hw = "paused" THEN "data" ELSE hw
         ELSE UNCHANGED <<sdma, hw>>

(* What becomes of the thread in one of the two queues. *)
NotifyWaiter(cmd, dma) ==
  pc' = CASE pc = "wait cmd" /\ cmd -> "woken cmd"
          [] pc = "wait dma" /\ dma -> "woken dma"
          [] OTHER -> pc

HandleSdhciHostIrq ==
  LET cmd == cmd_pending /\ sts \cap CmdBits # {}
  IN
  /\ sts \ (IF card_en THEN {} ELSE {"CARD_INT"}) # {}
  /\ NotifyWaiter(cmd, DmaCompletes)
  /\ cmd_pending' = (cmd_pending /\ ~cmd)
  /\ cmd_result' = IF cmd THEN CmdResult ELSE cmd_result
  /\ dma_pending' = (dma_pending /\ ~DmaCompletes)
  /\ dma_result' = CASE DmaCompletes /\ "DATA_END" \in sts -> "OK"
                     [] DmaCompletes /\ "DATA_END" \notin sts -> DataError
                     [] OTHER -> dma_result
  /\ IF dma_pending /\ ~DmaCompletes /\ "DMA_END" \in sts THEN DmaBoundary
     ELSE UNCHANGED <<bytes, sdma, hw>>
  /\ IF "CARD_INT" \in sts /\ card_en
     THEN card_en' = FALSE /\ irq_pending' = TRUE /\ NotifyWork
     ELSE UNCHANGED <<card_en, irq_pending, wpc, lost>>
  /\ sts' = {}
  /\ UNCHANGED <<owner, kind, err, res, left, base, total, card, saved_en,
                 histVars>>

-----------------------------------------------------------------------------
(* The controller and the card. *)

(* The card answers; a command without data is over. *)
HwResponse ==
  /\ hw = "cmd"
  /\ sts' = sts \cup {"RESPONSE"}
  /\ hw' = IF kind = "cmd52" THEN "idle" ELSE "data"
  /\ responded' = TRUE
  /\ card' = (card /\ owner # "work")
  /\ UNCHANGED <<threadVars, sdma, left, flagVars, dmaVars, card_en, saved_en,
                 irq_pending, wpc, lost, moved>>

(* The command fails, maybe after a response. *)
HwCmdError ==
  /\ hw = "cmd"
  /\ \E e \in CmdErrors, r \in {{}, {"RESPONSE"}} : sts' = sts \cup {e} \cup r
  /\ hw' = "idle"
  /\ UNCHANGED <<threadVars, sdma, left, flagVars, dmaVars, cardVars, histVars>>

(* SDMA moves up to the next boundary, or to the end. *)
HwDma ==
  /\ hw = "data" /\ kind = "blocks"
  /\ LET limit == (sdma \div Boundary) * Boundary + Boundary
         stop == IF sdma + left < limit THEN sdma + left ELSE limit
     IN  /\ moved' = moved \cup (sdma .. stop - 1)
         /\ left' = left - (stop - sdma)
         /\ sdma' = stop
         /\ sts' = IF stop = limit THEN sts \cup {"DMA_END"} ELSE sts
         /\ hw' = IF sdma + left = stop THEN "last" ELSE "paused"
  /\ UNCHANGED <<threadVars, flagVars, dmaVars, cardVars, responded>>

(* The data phase is over; this controller may set DATA_TIMEOUT as well. *)
HwDataEnd ==
  /\ hw = "last"
  /\ \E quirk \in {{}, {"DATA_TIMEOUT"}} :
       sts' = sts \cup {"DATA_END"} \cup quirk
  /\ hw' = "idle"
  /\ UNCHANGED <<threadVars, sdma, left, flagVars, dmaVars, cardVars, histVars>>

HwDataError ==
  /\ hw \in {"data", "paused", "last"}
  /\ \E e \in DataErrors : sts' = sts \cup {e}
  /\ hw' = "idle"
  /\ UNCHANGED <<threadVars, sdma, left, flagVars, dmaVars, cardVars, histVars>>

(* The card asserts its interrupt until CCCR 0x05 is read; the status bit     *)
(* follows.  The code looks at the bit with and without its enable.           *)
CardInt ==
  /\ card' = TRUE
  /\ sts' = sts \cup {"CARD_INT"}
  /\ UNCHANGED <<threadVars, hw, sdma, left, flagVars, dmaVars, card_en,
                 saved_en, irq_pending, wpc, lost, histVars>>

Command ==
  \/ ReadIrqs \/ SetPending \/ Issue
  \/ Poll \/ PollTimeout \/ Fifo \/ FifoFails \/ XferPoll \/ XferTimeout
  \/ EnterQueue \/ CmdTimeout \/ CmdWoken \/ DmaTimeout \/ DmaWoken
  \/ R5Ok \/ R5Error \/ ClearIntStatus \/ ResetCmdLine \/ ResetDatLine
  \/ WorkAck

Hardware ==
  \/ HwResponse \/ HwCmdError \/ HwDma \/ HwDataEnd \/ HwDataError \/ CardInt

Next ==
  \/ \E k \in Kinds : Start(k)
  \/ \E b \in Bases, n \in Totals : StartBlocks(b, n)
  \/ StartAgain
  \/ Command
  \/ WorkEnter \/ WorkRun
  \/ HandleSdhciHostIrq
  \/ Hardware

Spec == Init /\ [][Next]_vars

(* A thread that holds the lock goes on: its polls and waits are bounded. *)
FairSpec == Spec /\ WF_vars(Command)

-----------------------------------------------------------------------------
Buffer == base .. base + total - 1

(* A command that returns Ok was answered by the card, and a block transfer   *)
(* that returns Ok has moved its whole buffer: the handler's boundary         *)
(* arithmetic leaves nothing out, and no bit of an earlier command or of a    *)
(* boundary is taken for the end of this one.                                 *)
OkMeansDone ==
  res = "OK" => responded /\ (kind = "blocks" => moved = Buffer)

(* SDMA touches no memory but the buffer of the transfer in progress, also    *)
(* when the thread has given up waiting and the handler still moves           *)
(* SDMA_SADDR along.                                                          *)
DmaInBuffer == kind = "blocks" => moved \subseteq Buffer

(* Whoever gets SDIO_DEVICE next finds the controller free: every return path *)
(* has completed or reset the command it issued.                              *)
ControllerReleased == owner = "none" => hw = "idle"

(* Once CARD_INT is unmasked it is not left masked with nobody to serve it:   *)
(* it is unmasked, or sdio_irq_work has been woken for it or is serving it.   *)
(* SDIO_IRQ_PENDING alone does not count, only a woken thread reads it.  The  *)
(* one exception is `lost': the code notifies a queue that nobody is in.      *)
(* Between the handler, the entry of a transfer, the stale write of           *)
(* set_transfer_irqs_dma and ack_sdio_irq nothing else loses the interrupt.   *)
Responsible == card_en \/ wpc \in {"woken", "running"} \/ lost
CardIntAccounted == [][Responsible => Responsible']_vars

(* The lock is released again, whatever controller and card do. *)
LockReleased == owner # "none" ~> owner = "none"
=============================================================================
