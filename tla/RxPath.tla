------------------------------- MODULE RxPath -------------------------------
(***************************************************************************)
(* The receive path of driver/bsp/src/sdio/flow.rs: the busrx thread, and  *)
(* every sender that waits for a CFM (sdio_poll_rx_once), fetch a packet   *)
(* from the chip and cut it into frames (run_poll_rx_one, poll_rx_one,     *)
(* parse_one_cfm_at); the messages go to the command manager and to the    *)
(* callbacks of driver/fdrv/src/e2a_dispatch.rs.                           *)
(*                                                                         *)
(* A frame is its type, its lengths and, for a message, its id; `alt' is   *)
(* what bytes 6 and 7 give when the frame is read as a header without      *)
(* prefix and `at' where the chip put it in its packet, which need not be  *)
(* where the parser looks for it.  "junk" stands for bytes that are no     *)
(* frame.  Lengths are bytes.                                              *)
(*                                                                         *)
(* The chip is external: packets leave its FIFO in order, filled up with   *)
(* zeros, and what recv_pkt does not read of one stays there.  The FIFO is *)
(* the sequence of their frames; the last one of a packet is marked.       *)
(* recv_pkt is that of the Aic8801: for the other products it reads 512    *)
(* bytes without asking whether there is a packet, and what a FIFO without *)
(* one returns is not in the code.                                         *)
(***************************************************************************)
EXTENDS Integers, Sequences

CONSTANTS
  Pollers,     \* threads that call sdio_poll_rx_once
  Packets,     \* what the chip may send
  BufSize,     \* IPC_RX_BUF_SIZE, 512
  StraySizes,  \* the lengths that bytes which are no frame may be read as
  MaxFrames,   \* bound: frames sent
  MaxStray,    \* bound: frames made of stray bytes
  MaxPolls,    \* bound: calls of sdio_poll_rx_once
  MaxAgains,   \* bound: transfers that return EAGAIN
  MaxFaults,   \* bound: transfers that fail
  MaxInits     \* bound: times aicbsp_sdio_init runs

Busrx == "busrx"
Threads == Pollers \cup {Busrx}
Block == 512     \* BLOCKSIZE
HwHeader == 60   \* RX_HWHRD_LEN_DATA
ResultInd == "SCANU_RESULT_IND"
StartCfm == "SCANU_START_CFM"

RoundUp(k, m) == ((k + m - 1) \div m) * m

(* The bytes poll_rx_one and parse_one_cfm_at take a frame to have; of        *)
(* another CFG type the chip's own length counts.                             *)
Size(f) ==
  CASE f.type = "data" -> 3 + RoundUp(f.plen + HwHeader, 4)
    [] f.type = "rsp" -> 16 + f.plen
    [] OTHER -> f.plen

(* The ids of the messages. *)
Ids == UNION {{p.frames[i].id : i \in DOMAIN p.frames} : p \in Packets}

ASSUME RxPathAssumption ==
  /\ {Busrx, "none"} \cap Pollers = {}
  /\ BufSize \in Nat \ {0} /\ BufSize % Block = 0
  /\ {MaxFrames, MaxStray, MaxPolls, MaxAgains, MaxFaults, MaxInits} \subseteq Nat
  /\ StraySizes \subseteq Nat
  /\ \A p \in Packets :
       /\ p.frames \in Seq([type: {"data", "rsp", "cfg", "junk"}, id: Ids,
                            plen: Nat, alt: Nat, at: Nat])
       /\ p.frames # <<>> /\ p.frames[1].at = 0
       /\ \A i, j \in 1 .. Len(p.frames) : i < j => p.frames[i].at < p.frames[j].at

(* recv_pkt's data_len: BLOCK_CNT blocks, or BYTEMODE_LEN words. *)
DataLen(p) ==
  LET end == p.frames[Len(p.frames)] IN
  RoundUp(end.at + Size(end), IF p.bytemode THEN 4 ELSE Block)

VARIABLES
  life,      \* where aicbsp_sdio_init and aicbsp_sdio_exit are
  inits,     \* times aicbsp_sdio_init ran
  dev, mgr,  \* SDIO_DEVICE and CMD_MGR are Some
  started,   \* STARTED of ensure_busrx_thread_started
  running,   \* BUSRX_RUNNING
  cmdLock,   \* who holds CMD_MGR
  sdioLock,  \* who holds SDIO_DEVICE
  pc,        \* where a thread is
  buf,       \* the frames of the packet being parsed
  n, off,    \* bytes received, offset in poll_rx_one
  astray,    \* offset is not at the start of a frame
  polls, agains, stray,
  fifo,      \* external: the frames of the packets in the chip
  sent,      \* history: the frames the chip has sent
  bornAt,    \* history: Len(sent) at the last power cycle
  hookedAt,  \* history: Len(sent) when the callback was set, -1 before
  given,     \* history: the frames handed over; 0 for a data frame and -1
             \* for a message that nobody sent
  seen,      \* history: the messages the callbacks of the FDRV saw; 0 for
             \* one that nobody sent
  faults     \* history: transfers that failed

lifeVars == <<life, inits, dev, mgr, started, running>>
parseVars == <<buf, n, off, astray>>
boundVars == <<polls, agains, stray>>
chipVars == <<fifo, sent, bornAt>>
outVars == <<hookedAt, given, seen>>
vars == <<lifeVars, cmdLock, sdioLock, pc, parseVars, boundVars, chipVars,
          outVars, faults>>

(* The frames that must arrive: known, read in full, and with nothing before  *)
(* them in their packet but such frames, each where poll_rx_one leaves the    *)
(* one before.                                                                *)
Known(f) == f.type = "data" \/ (f.type = "rsp" /\ f.plen <= 256)

Whole(p, i) ==
  /\ \A j \in 1 .. i :
       /\ Known(p.frames[j])
       /\ p.frames[j].at + Size(p.frames[j]) <= BufSize
       /\ p.frames[j].at + Size(p.frames[j]) <= DataLen(p)
  /\ \A j \in 1 .. i - 1 :
       p.frames[j + 1].at = p.frames[j].at + Size(p.frames[j])

Hooked == hookedAt >= 0

(* parse_scanu_result_ind asks for the start of the management frame too. *)
MinLenBeacon(id) == IF id = ResultInd THEN 10 + 36 ELSE 1

(* e2a_indication_handler: the shortest parameters it passes on, and whether  *)
(* a callback sees the message.                                               *)
MinLen(id) == IF id = ResultInd THEN 10 ELSE 1
Handled(f) == Hooked /\ f.plen >= MinLen(f.id)

(* What is left in the chip of a packet that was not read in full. *)
Rest(k) ==
  [type |-> "junk", id |-> "none", plen |-> k, alt |-> 0, at |-> 0,
   n |-> 0, whole |-> FALSE, dlen |-> RoundUp(k, Block), last |-> TRUE]

(* The first packet in the chip has k frames. *)
FirstPacket(k) == fifo[k].last /\ \A i \in 1 .. k - 1 : ~fifo[i].last

TypeOK ==
  /\ life \in {"off", "device", "mgr", "on", "stop", "exit"}
  /\ inits \in 0 .. MaxInits
  /\ {dev, mgr, started, running, astray} \subseteq BOOLEAN
  /\ {cmdLock, sdioLock} \subseteq Threads \cup {"none"}
  /\ pc \in [Threads -> {"none", "idle", "loop", "cmd", "sdio", "recv",
                         "parse", "again", "gone"}]
  /\ n \in 0 .. BufSize /\ off \in 0 .. n
  /\ polls \in 0 .. MaxPolls /\ agains \in 0 .. MaxAgains
  /\ stray \in 0 .. MaxStray /\ faults \in 0 .. MaxFaults
  /\ bornAt \in 0 .. Len(sent) /\ hookedAt \in -1 .. Len(sent)
  /\ \A i \in DOMAIN given : given[i] \in -1 .. Len(sent)
  /\ \A i \in DOMAIN seen : seen[i] \in 0 .. Len(sent)

Init ==
  /\ life = "off" /\ inits = 0
  /\ dev = FALSE /\ mgr = FALSE /\ started = FALSE /\ running = FALSE
  /\ cmdLock = "none" /\ sdioLock = "none"
  /\ pc = [t \in Threads |-> IF t = Busrx THEN "none" ELSE "idle"]
  /\ buf = <<>> /\ n = 0 /\ off = 0 /\ astray = FALSE
  /\ polls = 0 /\ agains = 0 /\ stray = 0
  /\ fifo = <<>> /\ sent = <<>> /\ bornAt = 0
  /\ hookedAt = -1 /\ given = <<>> /\ seen = <<>> /\ faults = 0

-----------------------------------------------------------------------------
(* run_poll_rx_one gives back the locks it has. *)
Leave(t, next) ==
  /\ pc' = [pc EXCEPT ![t] = next]
  /\ cmdLock' = IF cmdLock = t THEN "none" ELSE cmdLock
  /\ sdioLock' = IF sdioLock = t THEN "none" ELSE sdioLock

(* It returns: busrx to its loop, a sender to its wait. *)
Return(t) == Leave(t, IF t = Busrx THEN "loop" ELSE "idle")

(* poll_rx_one is through with the packet. *)
Done(t) ==
  /\ Return(t)
  /\ buf' = <<>> /\ n' = 0 /\ off' = 0 /\ astray' = FALSE

f0 == Head(buf)

(* A data frame is passed on whatever its length. *)
DataAlwaysFits == f0.type = "data"

DataFits == f0.type = "data" /\ off + Size(f0) <= n

RspFits ==
  /\ f0.type = "rsp"
  /\ f0.plen <= 256
  /\ off + Size(f0) <= n

(* The frame passes for a header without prefix, with parameters. *)
AltFits == off + 16 <= n /\ f0.alt \in 1 .. 256 /\ off + 8 + f0.alt <= n

(* The offset is where a frame begins. *)
Parsing(t) == pc[t] = "parse" /\ ~astray /\ buf # <<>> /\ f0.type # "junk"

(* It moves on: to the frame of `frames' that begins there, or astray. *)
Land(frames, to) ==
  /\ off' = to
  /\ IF \E k \in DOMAIN frames : frames[k].at = to
     THEN /\ \E k \in DOMAIN frames :
               /\ frames[k].at = to
               /\ buf' = SubSeq(frames, k, Len(frames))
          /\ astray' = FALSE
     ELSE buf' = frames /\ astray' = (frames # <<>>)

(* The frame is handed over and the next one looked at. *)
Take(size) ==
  /\ given' = Append(given, f0.n)
  /\ Land(Tail(buf), off + size)

(* A message nobody sent: on_cfm, then E2A_INDICATION_CB, whose handler may   *)
(* know the id, as that of the end of a scan for instance.                    *)
MakeUp ==
  /\ given' = Append(given, -1)
  /\ \/ UNCHANGED seen
     \/ Hooked /\ seen' = Append(seen, 0)

(* The length of an empty data frame, which is how poll_rx_one reads zeros. *)
EmptySize == 3 + RoundUp(HwHeader, 4)

-----------------------------------------------------------------------------
(* Slips a maintainer could make in the actions below. *)

(* A transfer that is to be tried again ends the thread. *)
AgainEndsThread(t) ==
  /\ pc[t] = "again"
  /\ pc' = [pc EXCEPT ![t] = IF t = Busrx THEN "gone" ELSE "idle"]
  /\ UNCHANGED <<lifeVars, cmdLock, sdioLock, parseVars, boundVars, chipVars,
                 outVars, faults>>

(* The pattern word is left out of a message's length. *)
RspWithoutPattern(t) ==
  /\ Parsing(t) /\ RspFits
  /\ Take(Size(f0) - 4)
  /\ seen' = IF Handled(f0) THEN Append(seen, f0.n) ELSE seen
  /\ UNCHANGED <<lifeVars, cmdLock, sdioLock, pc, n, boundVars, chipVars,
                 hookedAt, faults>>

(* Messages without parameters are taken too, as zeros would be. *)
PaddingAsMessage(t) ==
  /\ pc[t] = "parse" /\ buf = <<>> /\ ~astray
  /\ IF off + 16 <= n THEN MakeUp ELSE UNCHANGED <<given, seen>>
  /\ Done(t)
  /\ UNCHANGED <<lifeVars, boundVars, chipVars, hookedAt, faults>>

(* busrx does not look at BUSRX_RUNNING. *)
LoopForever ==
  /\ pc[Busrx] = "loop"
  /\ pc' = [pc EXCEPT ![Busrx] = "cmd"]
  /\ UNCHANGED <<lifeVars, cmdLock, sdioLock, parseVars, boundVars, chipVars,
                 outVars, faults>>

-----------------------------------------------------------------------------
(* aicbsp_sdio_init and aicbsp_sdio_exit, as far as they matter here. *)

(* The power cycle empties the chip; SDIO_DEVICE.lock().replace. *)
StoreDevice ==
  /\ life = "off" /\ inits < MaxInits /\ sdioLock = "none"
  /\ life' = "device" /\ inits' = inits + 1
  /\ dev' = TRUE
  /\ fifo' = <<>> /\ bornAt' = Len(sent)
  /\ UNCHANGED <<mgr, started, running, cmdLock, sdioLock, pc, parseVars,
                 boundVars, sent, outVars, faults>>

(* CMD_MGR.lock().replace *)
StoreMgr ==
  /\ life = "device" /\ cmdLock = "none"
  /\ life' = "mgr"
  /\ mgr' = TRUE
  /\ UNCHANGED <<inits, dev, started, running, cmdLock, sdioLock, pc, parseVars,
                 boundVars, chipVars, outVars, faults>>

(* ensure_busrx_thread_started, called by the bring-up: only once. *)
StartBusrx ==
  /\ life = "mgr"
  /\ life' = "on"
  /\ started' = TRUE
  /\ running' = (running \/ ~started)
  /\ pc' = IF started THEN pc ELSE [pc EXCEPT ![Busrx] = "loop"]
  /\ UNCHANGED <<inits, dev, mgr, cmdLock, sdioLock, parseVars, boundVars,
                 chipVars, outVars, faults>>

(* BUSRX_RUNNING.store(false) *)
ExitStop ==
  /\ life = "on"
  /\ life' = "stop"
  /\ running' = FALSE
  /\ UNCHANGED <<inits, dev, mgr, started, cmdLock, sdioLock, pc, parseVars,
                 boundVars, chipVars, outVars, faults>>

(* SDIO_DEVICE.lock().take() *)
ExitDevice ==
  /\ life = "stop" /\ sdioLock = "none"
  /\ life' = "exit"
  /\ dev' = FALSE
  /\ UNCHANGED <<inits, mgr, started, running, cmdLock, sdioLock, pc, parseVars,
                 boundVars, chipVars, outVars, faults>>

(* CMD_MGR.lock().take() *)
ExitMgr ==
  /\ life = "exit" /\ cmdLock = "none"
  /\ life' = "off"
  /\ mgr' = FALSE
  /\ UNCHANGED <<inits, dev, started, running, cmdLock, sdioLock, pc, parseVars,
                 boundVars, chipVars, outVars, faults>>

(* platform_init, once the bring-up is over: set_e2a_indication_cb, and the   *)
(* setters of e2a_dispatch.                                                   *)
Register ==
  /\ ~Hooked /\ life = "on"
  /\ hookedAt' = Len(sent)
  /\ UNCHANGED <<lifeVars, cmdLock, sdioLock, pc, parseVars, boundVars,
                 chipVars, given, seen, faults>>

-----------------------------------------------------------------------------
(* The threads. *)

(* busrx_thread_fn: after at most 1 ms it looks for a packet. *)
BusrxLoop ==
  /\ pc[Busrx] = "loop"
  /\ pc' = [pc EXCEPT ![Busrx] = IF running THEN "cmd" ELSE "gone"]
  /\ UNCHANGED <<lifeVars, cmdLock, sdioLock, parseVars, boundVars, chipVars,
                 outVars, faults>>

(* sdio_poll_rx_once, from the wait of a sender. *)
PollOnce(t) ==
  /\ pc[t] = "idle" /\ polls < MaxPolls
  /\ polls' = polls + 1
  /\ pc' = [pc EXCEPT ![t] = "cmd"]
  /\ UNCHANGED <<lifeVars, cmdLock, sdioLock, parseVars, agains, stray,
                 chipVars, outVars, faults>>

(* run_poll_rx_one: CMD_MGR first. *)
LockCmd(t) ==
  /\ pc[t] = "cmd" /\ cmdLock = "none"
  /\ IF mgr THEN /\ cmdLock' = t
                 /\ pc' = [pc EXCEPT ![t] = "sdio"]
                 /\ UNCHANGED sdioLock
     ELSE Return(t)
  /\ UNCHANGED <<lifeVars, parseVars, boundVars, chipVars, outVars, faults>>

LockSdio(t) ==
  /\ pc[t] = "sdio" /\ sdioLock = "none"
  /\ IF dev THEN /\ sdioLock' = t
                 /\ pc' = [pc EXCEPT ![t] = "recv"]
                 /\ UNCHANGED cmdLock
     ELSE Return(t)
  /\ UNCHANGED <<lifeVars, parseVars, boundVars, chipVars, outVars, faults>>

-----------------------------------------------------------------------------
(* recv_pkt *)

(* BLOCK_CNT is 0. *)
RecvNothing(t) ==
  /\ pc[t] = "recv" /\ fifo = <<>>
  /\ Done(t)
  /\ UNCHANGED <<lifeVars, boundVars, chipVars, outVars, faults>>

(* min(size, data_len) bytes are read. *)
RecvPkt(t) ==
  LET over == Head(fifo).dlen - BufSize IN
  /\ pc[t] = "recv" /\ fifo # <<>>
  /\ n' = IF over > 0 THEN BufSize ELSE Head(fifo).dlen
  /\ off' = 0 /\ astray' = FALSE
  /\ \E k \in 1 .. Len(fifo) :
       /\ FirstPacket(k)
       /\ buf' = SubSeq(fifo, 1, k)
       /\ fifo' = (IF over > 0 THEN <<Rest(over)>> ELSE <<>>)
                    \o SubSeq(fifo, k + 1, Len(fifo))
  /\ pc' = [pc EXCEPT ![t] = "parse"]
  /\ UNCHANGED <<lifeVars, cmdLock, sdioLock, boundVars, sent, bornAt, outVars,
                 faults>>

(* The CMD53 finds CARD_INT: EAGAIN.  The locks are released for the wait. *)
RecvAgain(t) ==
  /\ pc[t] = "recv" /\ fifo # <<>> /\ agains < MaxAgains
  /\ agains' = agains + 1
  /\ Leave(t, "again")
  /\ UNCHANGED <<lifeVars, parseVars, polls, stray, chipVars, outVars, faults>>

(* sdio_irq_work has run, or 2 s are over; the packet is fetched next time. *)
AgainOver(t) ==
  /\ pc[t] = "again"
  /\ Return(t)
  /\ UNCHANGED <<lifeVars, parseVars, boundVars, chipVars, outVars, faults>>

(* A CMD52 or the CMD53 fails; the chip may think the packet fetched. *)
RecvFails(t) ==
  /\ pc[t] = "recv" /\ faults < MaxFaults
  /\ faults' = faults + 1
  /\ \/ UNCHANGED fifo
     \/ \E k \in 1 .. Len(fifo) :
          FirstPacket(k) /\ fifo' = SubSeq(fifo, k + 1, Len(fifo))
  /\ Done(t)
  /\ UNCHANGED <<lifeVars, boundVars, sent, bornAt, outVars>>

-----------------------------------------------------------------------------
(* poll_rx_one: one pass of its loop. *)

(* RX_DATA_INDICATION_CB *)
ParseData(t) ==
  /\ Parsing(t) /\ DataFits
  /\ Take(Size(f0))
  /\ UNCHANGED <<lifeVars, cmdLock, sdioLock, pc, n, boundVars, chipVars,
                 hookedAt, seen, faults>>

(* A message with prefix: on_cfm, then E2A_INDICATION_CB. *)
ParseRsp(t) ==
  /\ Parsing(t) /\ RspFits
  /\ Take(Size(f0))
  /\ seen' = IF Handled(f0) THEN Append(seen, f0.n) ELSE seen
  /\ UNCHANGED <<lifeVars, cmdLock, sdioLock, pc, n, boundVars, chipVars,
                 hookedAt, faults>>

(* Something else that passes for a message without prefix. *)
ParseAlt(t) ==
  /\ Parsing(t) /\ ~DataFits /\ ~RspFits /\ AltFits
  /\ MakeUp
  /\ Land(buf, off + 8 + f0.alt)
  /\ UNCHANGED <<lifeVars, cmdLock, sdioLock, pc, n, boundVars, chipVars,
                 hookedAt, faults>>

(* Nothing fits: what is left of the packet is dropped. *)
ParseStop(t) ==
  /\ Parsing(t) /\ ~DataFits /\ ~RspFits /\ ~AltFits
  /\ Done(t)
  /\ UNCHANGED <<lifeVars, boundVars, chipVars, outVars, faults>>

(* Bytes that are no frame, or from the middle of one: they may pass for a    *)
(* data frame or a message, and at some point they do not.                    *)
ParseAstray(t) ==
  /\ pc[t] = "parse"
  /\ \/ astray
     \/ buf # <<>> /\ f0.type = "junk"
  /\ \/ \E size \in StraySizes :
          /\ off + 16 <= n /\ off + size <= n /\ stray < MaxStray
          /\ stray' = stray + 1
          /\ \/ MakeUp
             \/ /\ size >= EmptySize
                /\ given' = Append(given, 0)
                /\ UNCHANGED seen
          /\ Land(buf, off + size)
          /\ UNCHANGED <<cmdLock, sdioLock, pc, n>>
     \/ Done(t) /\ UNCHANGED <<stray, given, seen>>
  /\ UNCHANGED <<lifeVars, polls, agains, chipVars, hookedAt, faults>>

(* Behind the last frame there are zeros.  They read as empty data frames,    *)
(* which RX_DATA_INDICATION_CB gets, and too few of them as the end.          *)
ParsePadding(t) ==
  /\ pc[t] = "parse" /\ buf = <<>> /\ ~astray
  /\ given' = given \o [i \in 1 .. (n - off) \div EmptySize |-> 0]
  /\ Done(t)
  /\ UNCHANGED <<lifeVars, boundVars, chipVars, hookedAt, seen, faults>>

-----------------------------------------------------------------------------
(* The frames of a packet, numbered on from those sent before. *)
Numbered(p) ==
  [i \in 1 .. Len(p.frames) |->
     [type |-> p.frames[i].type, id |-> p.frames[i].id,
      plen |-> p.frames[i].plen, alt |-> p.frames[i].alt,
      at |-> p.frames[i].at, n |-> Len(sent) + i, whole |-> Whole(p, i),
      dlen |-> DataLen(p), last |-> i = Len(p.frames)]]

(* The chip sends a packet. *)
ChipSends(p) ==
  /\ life = "on"
  /\ Len(sent) + Len(p.frames) <= MaxFrames
  /\ sent' = sent \o Numbered(p)
  /\ fifo' = fifo \o Numbered(p)
  /\ UNCHANGED <<lifeVars, cmdLock, sdioLock, pc, parseVars, boundVars, bornAt,
                 outVars, faults>>

Step(t) ==
  \/ LockCmd(t) \/ LockSdio(t)
  \/ RecvNothing(t) \/ RecvPkt(t) \/ RecvAgain(t) \/ AgainOver(t) \/ RecvFails(t)
  \/ ParseData(t) \/ ParseRsp(t) \/ ParseAlt(t) \/ ParseStop(t)
  \/ ParseAstray(t) \/ ParsePadding(t)
  \/ t = Busrx /\ BusrxLoop

Life ==
  StoreDevice \/ StoreMgr \/ StartBusrx \/ ExitStop \/ ExitDevice \/ ExitMgr

Next ==
  \/ Life \/ Register
  \/ \E t \in Pollers : PollOnce(t)
  \/ \E t \in Threads : Step(t)
  \/ \E p \in Packets : ChipSends(p)

Spec == Init /\ [][Next]_vars

(* A thread goes on: its waits are bounded, transfers end, and a spin lock    *)
(* that is free again and again is taken some time.                           *)
FairSpec == Spec /\ \A t \in Threads : SF_vars(Step(t))

-----------------------------------------------------------------------------
(* What the abstract channel knows of a frame. *)
Pick(frames) ==
  [i \in 1 .. Len(frames) |-> [n |-> frames[i].n, whole |-> frames[i].whole]]

Service == INSTANCE RxService WITH chan <- Pick(buf \o fifo)

(* The receive path is the channel of RxService: whoever of the threads       *)
(* fetches a packet, every whole frame is handed over once and in order, only *)
(* frames that are not whole give rise to messages nobody sent, and only      *)
(* failed transfers and power cycles lose a whole one.  What a whole packet   *)
(* may leave behind is empty data frames, from its padding.                   *)
ServiceSpec == Service!Spec

(* As long as every frame of the chip is whole, no message that nobody sent   *)
(* reaches CMD_MGR or the callbacks of the FDRV: neither a later pass of      *)
(* poll_rx_one, nor the header without prefix of parse_one_cfm_at, makes one  *)
(* of the padding or of the middle of a frame.                                *)
OnlyRealMessages ==
  (\A m \in DOMAIN sent : sent[m].whole) =>
    /\ \A i \in DOMAIN given : given[i] # -1
    /\ \A i \in DOMAIN seen : seen[i] # 0

(* When the FDRV gets an end of a scan the chip sent (SCANU_START_CFM), it    *)
(* has seen the results of the scan: those the chip sent before, since the    *)
(* callback was set and the chip was powered, that are whole and long enough  *)
(* for e2a_indication_handler; whichever thread fetched them, and as long as  *)
(* no transfer failed.                                                        *)
ScanDoneComplete ==
  \A i \in DOMAIN seen :
    seen[i] # 0 /\ sent[seen[i]].id = StartCfm /\ faults = 0 =>
      \A m \in bornAt + 1 .. seen[i] - 1 :
          /\ hookedAt \in 0 .. m - 1
          /\ sent[m].type = "rsp" /\ sent[m].whole
          /\ sent[m].id = ResultInd /\ sent[m].plen >= 10
          => \E j \in 1 .. i - 1 : seen[j] = m

(* While busrx is to run, packets do not stay in the chip. *)
Drained ==
  running /\ dev /\ mgr /\ fifo # <<>> ~> fifo = <<>> \/ ~running

(* Once BUSRX_RUNNING is cleared busrx ends, wherever it was: in a wait, at a *)
(* lock, or in the middle of a packet.                                        *)
BusrxStops == ~running /\ pc[Busrx] # "none" ~> pc[Busrx] = "gone"
=============================================================================
