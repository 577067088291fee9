------------------------------- MODULE BusTx --------------------------------
(***************************************************************************)
(* The transmit path of driver/bsp/src/sdio/flow.rs: a sender puts its     *)
(* message into PENDING_CMD_TX, wakes the bustx thread and waits for       *)
(* TX_RESULT (submit_cmd_tx_and_wait_tx_done); the thread takes the        *)
(* message, writes it to the chip and reports (bustx_thread_fn).           *)
(*                                                                         *)
(* PENDING_CMD_TX and TX_RESULT are single cells shared by all senders.    *)
(* The wait queues are axtask's (external): notify_one wakes a thread that *)
(* is in the queue, and is forgotten when none is.  A message is its       *)
(* number, given when it is stored in PENDING_CMD_TX.                      *)
(***************************************************************************)
EXTENDS Integers, Sequences, FiniteSets

CONSTANTS
  Clients,     \* threads that send commands
  MaxChunks,   \* TX_DONE_TIMEOUT_MS / chunk_ms, 100
  MaxCmds,     \* bound: messages submitted in a behaviour
  MaxInits,    \* bound: times aicbsp_sdio_init runs
  MaxCardInts  \* bound: times a send meets CARD_INT and returns EAGAIN

ASSUME BusTxAssumption ==
  /\ MaxChunks \in Nat \ {0}
  /\ {MaxCmds, MaxInits, MaxCardInts} \subseteq Nat

VARIABLES
  life,     \* where aicbsp_sdio_init and aicbsp_sdio_exit are
  inits,    \* times aicbsp_sdio_init ran
  dev,      \* SDIO_DEVICE is Some
  running,  \* BUSTX_RUNNING
  tpc,      \* where bustx_thread_fn is; "none" until it is spawned
  cur,      \* the message bustx has taken, or 0
  agains,   \* sends that returned EAGAIN
  pending,  \* PENDING_CMD_TX, 0 for None
  result,   \* TX_RESULT, 0 for None; the number is that of the message
  failed,   \* the code in TX_RESULT is not 0
  serial,   \* messages submitted so far
  pc,       \* where a sender's submit call is
  chunks,   \* elapsed_ms / chunk_ms
  mine,     \* the sender's message
  res,      \* what its last call returned
  got,      \* history: the message its last result was about
  fresh,    \* history: nothing else was under way during its last call
  written   \* history: the messages written to the chip, in order

lifeVars == <<life, inits, dev, running>>
threadVars == <<tpc, cur, agains>>
clientVars == <<serial, pc, chunks, mine, res, got, fresh>>
vars == <<lifeVars, threadVars, pending, result, failed, clientVars, written>>

Alive == tpc \notin {"none", "gone"}

Calling(c) == pc[c] # "idle"

(* The bound on messages, counting those about to be posted. *)
CanSubmit == serial + Cardinality({c \in Clients : pc[c] = "cleared"}) < MaxCmds

(* No message is under way and no sender waits for one. *)
Quiet ==
  /\ pending = 0
  /\ tpc \in {"none", "loop", "enter", "queue", "gone"}
  /\ \A c \in Clients : ~Calling(c)

TypeOK ==
  /\ life \in {"off", "init", "on", "exit"}
  /\ inits \in 0 .. MaxInits
  /\ dev \in BOOLEAN
  /\ running \in BOOLEAN
  /\ tpc \in {"none", "loop", "enter", "queue", "woken", "send", "again",
              "report", "gone"}
  /\ cur \in Nat
  /\ agains \in 0 .. MaxCardInts
  /\ pending \in Nat
  /\ result \in Nat
  /\ failed \in BOOLEAN
  /\ serial \in Nat
  /\ pc \in [Clients -> {"idle", "cleared", "posted", "enter", "queue",
                         "woken", "late"}]
  /\ chunks \in [Clients -> 0 .. MaxChunks - 1]
  /\ mine \in [Clients -> Nat]
  /\ res \in [Clients -> {"none", "OK", "ERR", "ETIMEDOUT"}]
  /\ got \in [Clients -> Nat]
  /\ fresh \in [Clients -> BOOLEAN]
  /\ written \in Seq(Nat)

Init ==
  /\ life = "off" /\ inits = 0
  /\ dev = FALSE /\ running = FALSE
  /\ tpc = "none" /\ cur = 0 /\ agains = 0
  /\ pending = 0 /\ result = 0 /\ failed = FALSE
  /\ serial = 0
  /\ pc = [c \in Clients |-> "idle"]
  /\ chunks = [c \in Clients |-> 0]
  /\ mine = [c \in Clients |-> 0]
  /\ res = [c \in Clients |-> "none"]
  /\ got = [c \in Clients |-> 0]
  /\ fresh = [c \in Clients |-> FALSE]
  /\ written = <<>>

-----------------------------------------------------------------------------
(* notify_bustx: what becomes of the thread. *)
NotifyBustx == tpc' = IF tpc = "queue" THEN "woken" ELSE tpc

(* notify_tx_done: one of the senders in the queue wakes. *)
NotifyTxDone ==
  LET waiting == {c \in Clients : pc[c] = "queue"}
  IN  IF waiting = {} THEN UNCHANGED pc
      ELSE \E c \in waiting : pc' = [pc EXCEPT ![c] = "woken"]

(* The submit call returns; the next one starts with elapsed_ms = 0. *)
Return(c, x) ==
  /\ pc' = [pc EXCEPT ![c] = "idle"]
  /\ res' = [res EXCEPT ![c] = x]
  /\ chunks' = [chunks EXCEPT ![c] = 0]

-----------------------------------------------------------------------------
(* Slips a maintainer could make in the actions below. *)

(* The message is copied out of PENDING_CMD_TX and left there. *)
TakeKeeps ==
  /\ tpc = "woken"
  /\ cur' = pending
  /\ tpc' = IF pending = 0 THEN "loop" ELSE "send"
  /\ UNCHANGED <<lifeVars, agains, pending, result, failed, clientVars,
                 written>>

(* The old TX_RESULT is not cleared. *)
ClearForgets(c) ==
  /\ pc[c] = "idle"
  /\ dev
  /\ CanSubmit
  /\ pc' = [pc EXCEPT ![c] = "cleared"]
  /\ mine' = [mine EXCEPT ![c] = 0]
  /\ res' = [res EXCEPT ![c] = "none"]
  /\ got' = [got EXCEPT ![c] = 0]
  /\ fresh' = [d \in Clients |-> d = c /\ Quiet]
  /\ UNCHANGED <<lifeVars, threadVars, pending, result, failed, serial, chunks,
                 written>>

(* bustx waits for its trigger without a time limit, as the Linux driver does. *)
WaitForever ==
  /\ tpc = "queue" /\ pending > MaxCmds
  /\ tpc' = "loop"
  /\ UNCHANGED <<lifeVars, cur, agains, pending, result, failed, clientVars,
                 written>>

(* The timed-out chunks are not counted. *)
NeverGivesUp(c) ==
  /\ pc[c] \in {"woken", "late"}
  /\ result = 0
  /\ pc' = [pc EXCEPT ![c] = "enter"]
  /\ UNCHANGED <<lifeVars, threadVars, pending, result, failed, serial, chunks,
                 mine, res, got, fresh, written>>

(* elapsed_ms > total_ms for elapsed_ms >= total_ms. *)
OneChunkMore(c) ==
  /\ pc[c] \in {"woken", "late"}
  /\ result = 0
  /\ IF pc[c] = "late" /\ chunks[c] + 1 > MaxChunks
     THEN Return(c, "ETIMEDOUT")
     ELSE /\ pc' = [pc EXCEPT ![c] = "enter"]
          /\ chunks' = [chunks EXCEPT ![c] = IF pc[c] = "late" THEN @ + 1 ELSE @]
          /\ UNCHANGED res
  /\ UNCHANGED <<lifeVars, threadVars, pending, result, failed, serial, mine,
                 got, fresh, written>>

-----------------------------------------------------------------------------
(* submit_cmd_tx_and_wait_tx_done *)

(* *TX_RESULT = None.  The caller has pushed a command, so the manager and    *)
(* the device exist.                                                          *)
Clear(c) ==
  /\ pc[c] = "idle"
  /\ dev
  /\ CanSubmit
  /\ result' = 0 /\ failed' = FALSE
  /\ pc' = [pc EXCEPT ![c] = "cleared"]
  /\ mine' = [mine EXCEPT ![c] = 0]
  /\ res' = [res EXCEPT ![c] = "none"]
  /\ got' = [got EXCEPT ![c] = 0]
  /\ fresh' = [d \in Clients |-> d = c /\ Quiet]
  /\ UNCHANGED <<lifeVars, threadVars, pending, serial, chunks, written>>

(* *PENDING_CMD_TX = Some(..), over whatever is there. *)
Post(c) ==
  /\ pc[c] = "cleared"
  /\ serial' = serial + 1
  /\ pending' = serial + 1
  /\ mine' = [mine EXCEPT ![c] = serial + 1]
  /\ pc' = [pc EXCEPT ![c] = "posted"]
  /\ UNCHANGED <<lifeVars, threadVars, result, failed, chunks, res, got, fresh,
                 written>>

(* notify_bustx() *)
Notify(c) ==
  /\ pc[c] = "posted"
  /\ NotifyBustx
  /\ pc' = [pc EXCEPT ![c] = "enter"]
  /\ UNCHANGED <<lifeVars, cur, agains, pending, result, failed, serial, chunks,
                 mine, res, got, fresh, written>>

(* wait_tx_done_timeout: the sender enters the queue. *)
Enter(c) ==
  /\ pc[c] = "enter"
  /\ pc' = [pc EXCEPT ![c] = "queue"]
  /\ UNCHANGED <<lifeVars, threadVars, pending, result, failed, serial, chunks,
                 mine, res, got, fresh, written>>

(* wait_tx_done_timeout: 50 ms passed. *)
ChunkTimeout(c) ==
  /\ pc[c] = "queue"
  /\ pc' = [pc EXCEPT ![c] = "late"]
  /\ UNCHANGED <<lifeVars, threadVars, pending, result, failed, serial, chunks,
                 mine, res, got, fresh, written>>

(* TX_RESULT.take() is Some, after a wake-up or a timed-out chunk. *)
TakeResult(c) ==
  /\ pc[c] \in {"woken", "late"}
  /\ result # 0
  /\ Return(c, IF failed THEN "ERR" ELSE "OK")
  /\ got' = [got EXCEPT ![c] = result]
  /\ result' = 0 /\ failed' = FALSE
  /\ UNCHANGED <<lifeVars, threadVars, pending, serial, mine, fresh, written>>

(* TX_RESULT is None: wait again, or -110 after the last timed-out chunk.     *)
(* PENDING_CMD_TX stays as it is.                                             *)
NoResult(c) ==
  /\ pc[c] \in {"woken", "late"}
  /\ result = 0
  /\ IF pc[c] = "late" /\ chunks[c] + 1 >= MaxChunks
     THEN Return(c, "ETIMEDOUT")
     ELSE /\ pc' = [pc EXCEPT ![c] = "enter"]
          /\ chunks' = [chunks EXCEPT ![c] = IF pc[c] = "late" THEN @ + 1 ELSE @]
          /\ UNCHANGED res
  /\ UNCHANGED <<lifeVars, threadVars, pending, result, failed, serial, mine,
                 got, fresh, written>>

-----------------------------------------------------------------------------
(* bustx_thread_fn *)

(* while BUSTX_RUNNING *)
BustxLoop ==
  /\ tpc = "loop"
  /\ tpc' = IF running THEN "enter" ELSE "gone"
  /\ UNCHANGED <<lifeVars, cur, agains, pending, result, failed, clientVars,
                 written>>

(* wait_bustx_or_timeout: the thread enters the queue. *)
BustxEnter ==
  /\ tpc = "enter"
  /\ tpc' = "queue"
  /\ UNCHANGED <<lifeVars, cur, agains, pending, result, failed, clientVars,
                 written>>

(* wait_bustx_or_timeout: 60 s passed; PENDING_CMD_TX is not looked at. *)
BustxTimeout ==
  /\ tpc = "queue"
  /\ tpc' = "loop"
  /\ UNCHANGED <<lifeVars, cur, agains, pending, result, failed, clientVars,
                 written>>

(* PENDING_CMD_TX.take() *)
BustxTake ==
  /\ tpc = "woken"
  /\ cur' = pending
  /\ pending' = 0
  /\ tpc' = IF pending = 0 THEN "loop" ELSE "send"
  /\ UNCHANGED <<lifeVars, agains, result, failed, clientVars, written>>

(* The end of a send other than EAGAIN: *TX_RESULT = Some(code). *)
StoreResult(err) ==
  /\ result' = cur
  /\ failed' = err
  /\ tpc' = "report"
  /\ UNCHANGED <<lifeVars, cur, agains, pending, clientVars>>

(* with_sdio(send_msg) wrote the message. *)
SendOk ==
  /\ tpc = "send"
  /\ dev
  /\ written' = Append(written, cur)
  /\ StoreResult(FALSE)

(* An error of flow control (nothing written) or of the transfer (the chip    *)
(* may have the message), or no device, -5.                                   *)
SendFails ==
  /\ tpc = "send"
  /\ \/ UNCHANGED written
     \/ dev /\ written' = Append(written, cur)
  /\ StoreResult(TRUE)

(* EAGAIN: CARD_INT was set at the entry of the transfer, nothing written. *)
SendAgain ==
  /\ tpc = "send"
  /\ dev
  /\ agains < MaxCardInts
  /\ agains' = agains + 1
  /\ tpc' = "again"
  /\ UNCHANGED <<lifeVars, cur, pending, result, failed, clientVars, written>>

(* wait_sdio_irq_work_done_timeout returned; how does not matter. *)
Resend ==
  /\ tpc = "again"
  /\ tpc' = "send"
  /\ UNCHANGED <<lifeVars, cur, agains, pending, result, failed, clientVars,
                 written>>

(* notify_tx_done() *)
BustxReport ==
  /\ tpc = "report"
  /\ NotifyTxDone
  /\ cur' = 0
  /\ tpc' = "loop"
  /\ UNCHANGED <<lifeVars, agains, pending, result, failed, serial, chunks,
                 mine, res, got, fresh, written>>

-----------------------------------------------------------------------------
(* aicbsp_sdio_init and aicbsp_sdio_exit, one at a time here. *)

(* SDIO_DEVICE.replace, also over a device that is already there. *)
StoreDevice ==
  /\ life \in {"off", "on"}
  /\ inits < MaxInits
  /\ inits' = inits + 1
  /\ dev' = TRUE
  /\ life' = "init"
  /\ UNCHANGED <<running, threadVars, pending, result, failed, clientVars,
                 written>>

(* ensure_bustx_thread_started: Once, so only the first call does anything. *)
EnsureBustx ==
  /\ life = "init"
  /\ life' = "on"
  /\ IF tpc = "none" THEN running' = TRUE /\ tpc' = "loop"
     ELSE UNCHANGED <<running, tpc>>
  /\ UNCHANGED <<inits, dev, cur, agains, pending, result, failed, clientVars,
                 written>>

(* BUSTX_RUNNING = false; notify_bustx() *)
StopBustx ==
  /\ life = "on"
  /\ life' = "exit"
  /\ running' = FALSE
  /\ NotifyBustx
  /\ UNCHANGED <<inits, dev, cur, agains, pending, result, failed, clientVars,
                 written>>

(* SDIO_DEVICE.take(), which waits for a send to give up the lock. *)
DropDevice ==
  /\ life = "exit"
  /\ life' = "off"
  /\ dev' = FALSE
  /\ UNCHANGED <<inits, running, threadVars, pending, result, failed,
                 clientVars, written>>

Client(c) ==
  \/ Post(c) \/ Notify(c) \/ Enter(c) \/ ChunkTimeout(c)
  \/ TakeResult(c) \/ NoResult(c)

Bustx ==
  \/ BustxLoop \/ BustxEnter \/ BustxTimeout \/ BustxTake
  \/ SendOk \/ SendFails \/ SendAgain \/ Resend \/ BustxReport

Next ==
  \/ \E c \in Clients : Clear(c)
  \/ \E c \in Clients : Client(c)
  \/ Bustx
  \/ StoreDevice \/ EnsureBustx \/ StopBustx \/ DropDevice

Spec == Init /\ [][Next]_vars

(* Threads that can run do run, and timed waits end. *)
FairSpec == Spec /\ WF_vars(Bustx) /\ \A c \in Clients : WF_vars(Client(c))

-----------------------------------------------------------------------------
(* bustx writes no message twice and none after a later one, whatever EAGAIN, *)
(* timeouts, overwriting senders and restarts do between take() and send.     *)
WrittenOnce ==
  \A i, j \in DOMAIN written : i < j => written[i] < written[j]

(* A sender that had the path to itself (no message was left in               *)
(* PENDING_CMD_TX or in the hands of bustx when it cleared TX_RESULT, and no  *)
(* other submit overlapped) gets the result of its own message, and Ok means  *)
(* that the chip has it.                                                      *)
OwnResult ==
  \A c \in Clients :
    fresh[c] /\ res[c] \in {"OK", "ERR"} =>
      /\ got[c] = mine[c]
      /\ res[c] = "OK" => \E i \in DOMAIN written : written[i] = mine[c]

(* Every submit returns, also when its wake-up was lost or bustx is gone: the *)
(* timed-out chunks add up.                                                   *)
SubmitEnds == \A c \in Clients : Calling(c) ~> ~Calling(c)

(* After aicbsp_sdio_exit cleared BUSTX_RUNNING the thread ends, also when    *)
(* the wake-up of the exit came before it was back in its queue.              *)
BustxStops == (life = "off" /\ inits > 0) ~> ~Alive

-----------------------------------------------------------------------------
(* "make sure the bustx thread is started" (ensure_bustx_thread_started): once *)
(* it returned, and until the next exit, BUSTX_RUNNING is set.                *)
StartedMeansRunning == life = "on" => running
=============================================================================
