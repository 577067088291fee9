# A TLA+ model of the AIC8800 wireless driver

The repository is a Rust driver for the AIC8800 family of SDIO Wi-Fi chips on an SG2002 board
(ArceOS / StarryOS), ported from the vendor's Linux driver. This directory models the part of it
that decides whether it works at all: how commands travel from the threads that issue them through
the SDIO bus to the chip's firmware, and how the answers find their way back, while threads
interleave, wake-ups get lost, waits time out and the device is powered off and on; and what the Wi-Fi
operations above keep in step with the firmware through it.

`PROJECT.json` lists components, runs, mutants, the map from definitions to source lines, findings,
hazards and theorems. A run is `tlc -config <cfg> <module>`, the proofs are checked by
`tlapm <module>.tla` on each of the eight `*Proofs` modules.

## Inventory

| Component | Source | State | Operations | Hard because | Correct means |
|---|---|---|---|---|---|
| Command manager | `bsp/cmd.rs` | 8 slots `Option<PendingCmd>`, `queue_sz`, `next_tkn` | `push`, `on_cfm`, `is_done`, `take_cfm`, `wait_done`, `wait_done_until` | a token is a bare index used after the lock was released; a CFM carries only an id | a call ends with the answer to its own request; slots and counter agree |
| Command senders | `bsp/sdio/flow.rs`, `fdrv/wiphy_impl.rs` | one call in progress per thread | push, send, wait, take; errors -12, -5, -62, -110 | every step can fail after the previous ones took effect | every call ends; what it leaves behind does no harm |
| Firmware bring-up | `bsp/sdio/flow.rs`, `bsp/fw_load.rs` | position in several dozen requests, the CMD_MGR lock | read, write, masked write, block write, START_APP | one request of many fails; the lock is held across waits; exit runs concurrently | START_APP only after everything else was executed |
| Transmit path | `bsp/sdio/flow.rs`, `bsp/sdio/irq.rs` | `PENDING_CMD_TX`, `TX_RESULT`, `BUSTX_RUNNING`, `WaitQueue`s | `submit_cmd_tx_and_wait_tx_done`, `bustx_thread_fn`, `ensure_bustx_thread_started` | single cells shared by all senders, notifications without memory, late results | nothing written twice, results go to their owner, threads stop and start |
| Receive path | `bsp/sdio/flow.rs`, `bsp/sdio/ops.rs` | the chip's FIFO, a 512-byte buffer, `BUSRX_RUNNING` | `busrx_thread_fn`, `poll_rx_one`, `parse_one_cfm_at`, `recv_pkt` | several frames per packet, truncation, two fetching threads, callbacks under two locks | every whole frame is handed over once and in order |
| CARD_INT work | `bsp/sdio/flow.rs`, `bsp/sdio/backend.rs` | `SDIO_IRQ_PENDING`, the CARD_INT enable bit | `sdio_irq_work` thread, `process_sdio_pending_irqs_if_set`, `enable_sdio_irq` | lost notifications, enable/disable across threads | CARD_INT is enabled again after each interrupt |
| SDHCI host | `bsp/sdio/backend.rs` | command/data completion atomics, SDMA address, clock and bus width | CMD0/3/5/7, CMD52, CMD53, interrupt handler | handler and pollers clear the same status bits; every phase can fail | Ok means done; the controller is left usable |
| SDIO device | `bsp/sdio/ops.rs` | none of its own | `send_msg` with flow control, `recv_pkt` | the chip's buffer count changes under the reader; EAGAIN restarts a message | no overrun, no frame twice or cut |
| Power sequence | `bsp/lib.rs`, `bsp/sync.rs`, `bsp/sdio/flow.rs` | `power_lock`, `SDIO_DEVICE`, `CMD_MGR`, the product, the registered driver | `aicbsp_set_subsys`, `aicbsp_minimal_ipc_verify`, `aicbsp_init_gpio_test`, `aicbsp_exit` | Off takes no lock; some twenty commands can fail | on means up, off means down, every call returns |
| Enumeration | `bsp/sdio/cis.rs`, `mmc_impl.rs`, `chip_ident.rs`, `kernel/mmc` | registered driver, product | register, probe, remove | the card may fail in each step | one enumeration at a time |
| cfg80211 operations | `fdrv/wiphy_impl.rs`, `wiphy.rs`, `platform.rs` | station table, key table, one wiphy lock | keys, stations, scan, connect, AP, power | lost and late CFMs, a full table, indices reused by the firmware | tables and firmware agree; Ok was said by the firmware |
| Event dispatch | `fdrv/e2a_dispatch.rs` | registered callbacks | by message id | called under the SDIO and CMD_MGR locks | no callback locks again; results before the end of a scan |
| Transmit ring, TCP ACK filter | `fdrv/sdio_bus.rs`, `tcp_ack.rs` | ring indices | push, confirm | no test for full or empty | a confirmation names the frame it is for |
| LMAC messages | `fdrv/lmac_cmd.rs`, `bsp/fw_load.rs`, `bsp/cmd.rs` | none | layout, `serialize`, two paddings | lengths at block boundaries, fixed buffers | the chip gets the whole message |
| Tables, GPIO, stubs | `bsp/firmware*.rs`, `bsp/gpio.rs`, `fdrv/{manager,vendor,priv_cmd,...}.rs`, `kernel/*` | none, or constants | register I/O, setters | - | - |

Interactions. A sender pushes a command into the manager (lock `CMD_MGR`), hands the bytes to bustx
through `PENDING_CMD_TX`, and waits on a `WaitQueue` for `TX_RESULT`; bustx locks `SDIO_DEVICE`
and writes to the chip; the chip answers into its FIFO; busrx (or the waiting sender itself) locks
`CMD_MGR` and then `SDIO_DEVICE`, reads, parses and calls `on_cfm`; the sender polls `is_done` and copies
the answer out with `take_cfm`. `aicbsp_sdio_init` and `aicbsp_sdio_exit` replace and remove
device and manager beside all of this.


## Modules

| Module | Models | Uses |
|---|---|---|
| `CmdMgr` | the table of `RwnxCmdMgr` and its operations, each one step under the lock | - |
| `CmdClients` | any number of calls on the table, the receive path as deliverer of CFMs, init and exit | `CmdMgr` |
| `FwInit` | `aicbsp_driver_fw_init`, request by request, on the same table | `CmdMgr` |
| `BusTx` | submit, the bustx thread, wait queues, init and exit | - |
| `HostIrq` | the SDHCI host: commands, interrupt handler, SDMA, CARD_INT and its work thread | - |
| `RxService` | what the receive path promises: a channel | - |
| `RxPath` | the chip's FIFO, busrx and polling senders, the parser, callbacks | `RxService` (refinement) |
| `Lifecycle` | power on and off, card initialisation, the globals they fill and empty | - |
| `Wiphy` | the cfg80211 operations, their tables, the firmware's keys and stations | `CmdMgr` |
| `Frames` | a request's bytes: layout, header, padding, flow control, CMD53s | - |
| `CmdClientsProofs`, `FwInitProofs`, `BusTxProofs`, `HostIrqProofs`, `RxPathProofs`, `LifecycleProofs`, `WiphyProofs`, `FramesProofs` | theorems for every value of the constants | the module each is named after |
| `MCCmdClients`, `MCFwInit`, `MCBusTx`, `MCHostIrq`, `MCRxPath`, `MCLifecycle`, `MCWiphy`, `MCFrames` | instances for TLC | the above |

**CmdMgr.** `slots`, `queue_sz` and `up` (the `Option` around the manager) are the code's fields.
A slot is `Free` or a record; `flags` stands for `flags` and `done`, which `on_cfm` changes together.
The bytes of a CFM are abstracted to the number of the request that the firmware answered with it, so
that "the right answer" can be said. `push` takes the first free slot and `on_cfm` the first waiting
one with the id, as the code's index-order scans do. `take_cfm` frees the slot *before* it looks at
`done` and leaves `queue_sz` alone; so does `TakeSlot`. `complete_timeout` is left out: nothing
calls it.

**CmdClients.** One action per step of `send_lmac_cmd_and_wait_cfm_with_buf` and its BSP relatives, with
the lock released in between: `Push`/`PushFails`, `TxOk`/`TxFail`, `WaitOk`/`WaitOkKeep`/`WaitTimeout`,
`Take`. A failed send or a timeout leaves the slot as it is, because no caller cleans up.
`WaitOkKeep` is for senders that never call `take_cfm`. The firmware (external) answers requests of one
kind in order, late or never. `SdioInit` stores a new manager over an old one, `SdioExit` removes it, neither
waits for calls. `ambig`, `got`, `mine` are history variables for the properties.

**FwInit.** The function is a straight line, so its requests are a sequence (`Plan`) built from the tables
of the source, with their real lengths; each says which CFM it waits for, whether its sender takes it,
and whether the CMD_MGR lock is held (steps 4 and 5). While the lock is held only the function's own
`wait_done` can deliver a CFM, and exit waits for the lock. The chip executes what it gets in order; a CFM
may be lost; exit may come at any step.

**BusTx.** The two cells hold message numbers. `submit_cmd_tx_and_wait_tx_done` is six steps (clear, post,
notify, enter the queue, wake or time out, look at the result), `bustx_thread_fn` is its loop. Entering a queue
is a step of its own: a `notify_one` that finds nobody in the queue is forgotten, which is what axtask's
`WaitQueue` (external) does. `elapsed_ms` counts timed-out chunks only. `EnsureBustx` acts once
(`Once`), `StopBustx` clears the flag and notifies.

**HostIrq.** The thread that holds `SDIO_DEVICE` runs one command: a CMD52 or byte-mode CMD53 (`chunk`) that polls the
status register, or `cmd53_{read,write}_blocks` (`blocks`) that sleeps until `handle_sdhci_host_irq` stores a result and
notifies. `pc` is its position, the `HOST_*` statics are variables of their own, `sts` is the status register as a set of bits.
One pass of the handler's loop is one step, which may come between any two steps of a thread (`spin::Mutex` leaves
interrupts on; the SG2002 runs the driver on one core). Every return path has its own cleanup: `clear cmd`/`reset cmd`
and `clear dat`/`reset dat` are the calls of `clear_int_status`, `reset_cmd_line` and `reset_dat_line`. The read-modify-write of
the interrupt enables in `set_transfer_irqs_dma` is two steps. `lost` remembers that `notify_sdio_irq_work` found the work thread outside its queue. The controller (external) answers, fails in any phase, moves
data up to the next SDMA boundary and waits there for a write of `SDMA_SADDR`; the card (external) raises CARD_INT
at any time. Addresses and sizes are in units of which four make a boundary. Left out: buffer-ready, retune and bus-power bits
(no state depends on them), the failure of `alloc_dma_buffer` (the pool is larger than any transfer and the lock is held), the
polling `wait_dma_complete` (nothing calls it), the end of the work thread at an exit.

**RxService and RxPath.** `RxService` is a channel. A frame is `whole` when the parser knows its kind (data, or a message of at most 256 bytes of parameters), it is read in
full, and before it in its packet come only such frames, each where `poll_rx_one` looks for it. Whole frames are handed over once and in order; only a failed
transfer or a power cycle loses one. A frame that is not whole may be lost or give rise to a message nobody sent, and empty data frames may come in between.
`RxPath` implements it with `chan` mapped to the frames still in the buffer followed by those in the chip (`ServiceSpec`). A thread (busrx, or a sender in `sdio_poll_rx_once`) locks `CMD_MGR`, then
`SDIO_DEVICE`, reads the packet's length and at most 512 bytes of it, and parses one frame per step: a data frame, a response with its prefix,
or, when the pattern is not there, the header without prefix (`ParseAlt`). The chip may put frames anywhere in a packet (`at`) and bytes that are no frame between them: after each step the parser lands on the
frame that begins at its offset, or goes astray (`Land`). Astray it may take what it finds for a data frame or a message of any length in `StraySizes`, find back to a frame, or stop (`ParseAstray`).
A message made of such bytes goes where the code sends it, to `on_cfm` and then to the E2A callback (`MakeUp`: -1 in `given`, and 0 in `seen` if the handler knows the id). The zeros behind the last frame are
read as empty data frames and reach the data callback (`ParsePadding`: 0 in `given`). A packet that was not read in full leaves its `Rest`
in the FIFO, which is one sequence of frames in which the last of each packet is marked; a packet's length is where its last frame ends, rounded up.
EAGAIN sends busrx to wait for the CARD_INT work with the locks given back. A frame is its type, its lengths, its id and the
length that bytes 6 and 7 would give without prefix; byte values are data. `Register` sets the FDRV's callback, `Handled` are the
messages long enough for its parsers. `sent`, `given`, `seen`, `bornAt`, `hookedAt` are history. `recv_pkt` is the branch for the 8801 (see *Not modelled*).

**Lifecycle.** Each of the four entry points is a row of steps, one per command to the card or per access to a global. Power on
holds `power_lock` from the power cycle to the end of the firmware bring-up (one step here, `FwInit` in detail) and gives it
back on every return; power off takes it not at all. The card (external) is the state of its SDIO machine, the functions enabled,
the bus settings and the registers the driver writes, addressed as a CMD52 addresses them, by function and register. `gen`
counts power cycles, so that the device of an old one can be told apart. `Use`/`UseEnds` stand for any thread inside `with_sdio`.

**Wiphy.** An operation holds `PLATFORM_WIPHY` throughout: `Begin` checks its arguments and pushes, `Send`, then `Finish` or `TimeOut`; meanwhile
any thread may poll (`Poll`, `Dispatch`) and run `on_cfm` and the callbacks. Commands of calls that gave up stay in the table, as in the code.
The firmware (external) keeps keys by its own indices, executes requests, may refuse them, and may lose a CFM; message ids
are the numbers of `cmd.rs`, so two messages with one number are one here too. Stations are registered and unregistered
by the application on connect events, `start_ap` enters the broadcast station itself. Every operation is in the module; the instance takes
those that change a table and one that does not, since the others (scan, connect, disconnect, interfaces, station queries)
differ only in the number they wait for.

**Frames.** Bytes are counted, not carried. Each builder is its array and the sizes of its fields; `Serialize` adds the header of the product,
`IpcSendLen` and `TxMsgPad` are the two paddings, `BlockMode` and `ArgCount` cut the result into CMD53s whose 9-bit count the card
reads back (`CardBytes`). bustx and the senders that write directly share the device; each CMD53 may return EAGAIN, after which bustx starts
the message again and the direct senders give up.

## Runs

| Run | Instance | Shows |
|---|---|---|
| `cmd_clients` | 2 threads, 2 slots, 2 ids, 3 commands, 2 inits | slots, tokens and `queue_sz` stay consistent; a successful call has the answer to its own request unless two commands waited for one id; every call ends |
| `fw_init` | the source's table sizes, 9 firmware blocks, 1 patch block, two products | requests executed in order and once; only senders without `take_cfm` occupy slots; other products fail only for a cause; the function returns |
| `fw_init_8801` | the same, 8801 | *violation*: eight kept writes fill eight slots, the next push fails with -12 with nothing wrong |
| `bus_tx` | 2 threads, 2 chunks, 2 messages, 2 inits, 1 EAGAIN | no message twice, own results, every submit returns, the thread stops |
| `bus_tx_restart` | 1 thread, 2 inits | *violation*: after exit and init no bustx thread runs |
| `host_irq` | all three kinds of command, buffers that end on and cross a boundary, errors in every phase | Ok means answered and completely moved; DMA stays in its buffer; the controller is free when the lock is; CARD_INT is not left masked without the work thread woken for it, except by a notify that found the thread outside its queue; the lock is released |
| `rx_path` | busrx and one poller; four packets (a scan result with the end of the scan, a result alone in byte mode, a message followed by 700 bytes of data, a data frame with a message of too many parameters 63 bytes behind it); 3 frames, 2 inits, one each of poll, EAGAIN, fault and stray frame | the receive path implements `RxService`; whole frames give rise to no message nobody sent; the end of a scan comes after its whole results; packets do not stay in the chip while busrx is to run; busrx ends after an exit |
| `lifecycle` | 2 callers, 8801 and 8800DC, 2 tries of CMD5, 3 calls, 1 failing command | a power on that succeeded leaves device, manager, product and card of this power cycle; an undisturbed power off leaves nothing; every call returns |
| `sdio_regs` | 1 caller, 8801, no failure | *violation*: registers 0x0B and 0x11 of function 1 are not 1 after init |
| `wiphy` | 1 interface, 2 key indices, 2 hardware keys, 2 stations, table of 2, 3 calls, 1 loss, 1 indication | Ok was said by the operation's own CFM; remembered keys are the firmware's; the station table answers as told; every operation returns |
| `wiphy_ids` | the same ids, `del_key` | *violation*: an indication completes `del_key` |
| `frames` | every request, two products, image pieces around 512 and 1024 bytes, 2 receive buffers, 2 frames, 2 EAGAIN | a frame that counts as sent was taken whole and once; none is sent without room |

Every property of a passing run has a mutant in `PROJECT.json`: a slip in the code's place that TLC shows the
property to notice. The slips stand in the modules before the definitions they replace.

**Bounds.** Table of 2 for 8: a table that fills, a slot reused, and a waiting slot before and after another one
need two slots. Three commands: one dead, one waiting, one new. Two inits: the first and one that replaces a
manager under calls in progress; the properties said to hold in the first life (`FirstLife`) hold until then.
Two messages and two senders let one submit overwrite, overlap and outlive another; two
chunks separate "wait again" from "give up" (100 in the code). Firmware of 9 blocks is one more than the
table has slots, so an upload that kept its slots would be caught. The proofs have none of these bounds.
`HostIrq` has no counters, so its runs are unbounded sequences of commands; two buffers (2 units at 2, ending on the boundary at 4,
and at 3, crossing it) are enough because the DMA pool is half a boundary, so a transfer meets at most one. INT_TIMEOUT
and INT_INDEX stand for the command errors (the second is the one handler and poller judge differently), DATA_CRC for the data errors; DATA_TIMEOUT
comes beside DATA_END, as the code says of this controller.
`RxPath`: three frames are a result, another message and the end of the scan, or a truncated packet followed by a whole one; one poller beside busrx
makes two fetchers; one stray frame of 63 bytes (an empty data frame, or a message of that size) is enough to go astray and to find back. `Lifecycle`: three calls are on, off and on again, or two at once beside a third; a failure can
hit any command. `Wiphy`: one call whose CFM is lost, one that meets the leftovers, one after both; table sizes of two
fill. `Frames`: `DataLens` are the lengths at which the padded or the unpadded message crosses a block, and the largest the code sends; the other
requests have one length each.

**Deadlock** is not checked where the system may stop: `FwInit` ends when the function returns, the others when the
bounded messages, calls, frames and inits are used up and nothing is left to do.

**Fairness.** `CmdClients`: a call in progress takes its next step, since the send and the waits have time limits (5 s
for the send, 2 to 10 s for the CFM); nothing is assumed of chip or receive path. `FwInit`: the function takes
its next step, for the same reason. `BusTx`: bustx and a sender inside `submit` run when they can, timed waits
(60 s and 50 ms) end; EAGAIN happens finitely often, as CARD_INT does in a finite bring-up.
`HostIrq`: the thread that holds the lock takes its next step, since its polls (100 ms) and waits (1 s) are bounded;
nothing is assumed of controller, card, handler or work thread.
`RxPath`: strong fairness of each thread's next step, since a spin lock that becomes free again and again is taken some time, and all waits are
bounded (1 ms for a packet, 2 s for the CARD_INT work). `Lifecycle`: the same of each call, and a thread inside `with_sdio` leaves
it. `Wiphy`: the waiting call ends its wait (6 s), a poll that holds a message hands it over. New calls, init, exit, the chip and the application
are never forced.

## Proofs

Every theorem is of the form `Spec => []Inv` (or an action property of `Spec`, or for `RxPath` a refinement) and holds for every value of the constants. It rests
on an inductive invariant `IInv`: `Init => IInv`, `IInv /\ [Next]_vars => IInv'`, one lemma per action, and `IInv => Inv`. The runs check only the
properties; the other conjuncts of `IInv` say what the code relies on between its steps.

**CmdClientsProofs** (at least one slot and one id, bounds natural): `TypeCorrect`, `QueueSzBounded`, `QueueSzCountsFirstLife`,
`TokenOwned`, `AnswerIsMine`, `CommandsAreKept`. `QueueSzBound` is inductive with the types, through cardinality lemmas for push
and CFM. `OwnSlot` needs `CallInv`: before the first init nothing runs, calls in progress have distinct numbers between 1 and
`serial`, and only pushed requests are on their way. `QueueSzExact` follows from it, since `take` then meets only completed
commands. `CfmIsMine` needs `MatchInv`: outside `ambig` at most one command waits for an id, every outstanding request of that id is
awaited by it, a pushed request waits until it is answered, and a completed slot holds its own answer. `CommandsAreKept` is an action
property proved from the same invariants.

**BusTxProofs** (any number of senders and messages): `TypeCorrect`; `NoMessageTwice` from `Order` (what is written is older than what bustx
holds, which is older than what is pending: messages only move forward); `UndisturbedGetsOwn` from `OnlyMine` (while a sender that
had the path to itself waits, the only message in either cell or in bustx's hands is its own).

**FwInitProofs** (any table of at least one slot, tables and images of any length; `SizesAssumption`): `TypeCorrect`, `ExecutedInOrder`, `KeptAndNoOther`,
`OthersHaveCause`. The plan is known only by its shape (`PlanShape`: requests of the known kinds; `OthersTake`: for a product
other than the 8801 every sender but the last takes its CFM). `OrderInv` says at each step of the sender how many requests the chip has
executed and where the current one is: on the wire, executed, or its CFM on the way. `TableInv` says which slots are occupied: those of the kept requests so
far and the one behind `token`; so for the other products the table is empty at every push, and a push fails only when the manager is gone. `CauseInv` carries that
a missing device or manager, and every failure of these products, has had its cause.

**HostIrqProofs** (any boundary, buffers and error bits; `HostIrqAssumption`): `TypeCorrect`, `OkWasDone`, `DmaStaysInBuffer`, `LockFreeMeansIdle`,
`CardIntNotLost`. `LineInv` relates the thread's position to the controller's: idle before a command is issued and after it is cleaned up, and no command or data bit left over in the
status register when the next one is issued. On it rests `EndInv`, the reason why neither the handler nor a poller takes a bit of something else for the end of the command: RESPONSE means that the card answered, or an error bit is beside it, and
DATA_END that the whole buffer was moved. `DmaInv` relates how far SDMA is to what the handler knows, `bytes`, which lags
by one boundary while the controller is paused. The run meets one boundary per transfer; the theorem has any number of them.
`CardIntNotLost` is an action property: once CARD_INT is unmasked no step leaves it masked without the work thread woken for it or running, unless its notify was `lost`. It uses the types, `LockInv` (if CARD_INT is unmasked when `set_transfer_irqs_dma` is about to write
back the enables it read, the value it read has it unmasked too) and `NotifyInv` (SDIO_IRQ_PENDING set behind the back of a running work thread means that its notify was lost). `SDIO_IRQ_PENDING` alone does not count: nobody but a woken work thread reads it.

**LifecycleProofs** (any callers, products, calls and failures; at least one try of CMD5): `TypeCorrect`, `PowerLockExcludes`,
`OnLeavesUp`, `OffLeavesDown`. `LockInv`: whoever is between power cycle and end of the bring-up holds `power_lock`, and no
one else does. `CardInv`: in each step after CMD5 the card is in the state the next command needs, because only the holder changes the state of the card. `AloneInv` is what an undisturbed power on has achieved so far, step by step, `OffInv` the same of a power off; `UpInv` ties
`dev` to the last successful enumeration. Nothing is claimed of a power on that resets the controller while threads use the device of the last one: the code does not prevent it.

**WiphyProofs** (any operations, table sizes and indices; `WiphyAssumption`: the operations are those of `WiphyOpsImpl`, no
station has the broadcast address): `TypeCorrect`, `OkIsOwnCfm`, `KeysStayInStep`, `LookupsTold`. Operations exclude each other, so
slots are occupied from the bottom in the order of their numbers and the current command has the last (`SlotInv`). Requests and CFMs
stay in order (`OrderInv`). `MatchInv`: the command of every request and CFM on its way still waits, so a CFM completes its own command or an
older one whose CFM was lost, never a younger one, and the current command completes by its own CFM only. The exception is `del_key`, whose id is
that of an indication (finding 4). `KeyInv`: outside `undeleted` a remembered index is the firmware's, and a delete on its way
names the index it was read from; `AnswerInv`: what the firmware answered to the current request is still true of it.
`StaInv`: outside `holed` a told station has exactly one entry.

**FramesProofs** (every request, any piece of 1 to 1024 bytes, any number of frames and EAGAINs, a chip with up to 127 buffers, as the code masks
the register): `SentOnceAndWhole`, `WritesHaveRoom`. The lengths are arithmetic (`FdrvParams`, `BspParams`: every builder fits its
array; `IpcPads`, `TxPads`, `PaddedAgain`: the two paddings agree with the header; `OneCommand`: the
card reads back from the 9-bit count what the host meant). `SendInv` says how much of a message the chip has at each step of `send_msg`, `TurnInv` that the
device lock separates the two senders.

**RxPathProofs** (any pollers, receive buffer, packets, stray lengths and bounds; `RxPathAssumption`: a packet has at least one frame, the first at offset 0, the others behind one another; the buffer is a number of blocks):
`TypeCorrect`, `ResultsBeforeEnd`, `NothingMadeUp`, `ImplementsService`, `NeverTwice`. What they say of frames is of those that are whole; the others have no promise from the code. `LockInv`: the holder of `SDIO_DEVICE` is the thread that fetches or parses, and the buffer is empty unless
it parses; so two threads never have a packet each, which is what keeps the order. `FifoInv` (`Packed`): the FIFO is a sequence of packets; the frames of one ascend, share its length, and are whole up to some frame and not after it; a whole frame is known and lies inside what is read (`Sound`), and the last one of
a packet only if the packet fits the buffer. `BufInv` says
where the parser is: as long as the first frame in the buffer is whole, it is at its start and not astray; hence a whole frame is always taken as what it is (`WholeFits`), and the parser goes
astray only behind one that is not. `Moving` then sorts every step by what it does to the frames on their way, buffer and then FIFO (`Moves`): nothing, more at the end, the
first handed over, a rest put behind a packet that was too long, padding handed over, a frame that is not whole mistaken or dropped, or some lost, which are not whole unless a transfer failed or the chip was power cycled. From these few moves follow `OrderInv` (what is on its
way was sent, is in order, and comes after all that was seen), `ResultInv` (a result that must be seen was seen or is on its way, and was seen
before anything later), `CleanInv` (while all that was sent is whole, so is all on its way, and nothing was made up) and `GivenInv` (the order of what was handed over); and each move is an action of `RxService` or leaves its variables alone. `HandedOverOnce`, which `NeverTwice` states, is what
the channel does not say by itself: that the chip's numbers go through it at most once.

Only model-checked: liveness (`CommandEnds`, `InitEnds`, `SubmitEnds`, `BustxStops`, `LockReleased`, `Drained`, `BusrxStops`, `CallsReturn`,
`OpsReturn`), which is out of the prover's reach. Every invariant, every action property and the refinement that a passing run checks is a theorem.

## Findings

Each is a run that TLC ends with a counterexample.

1. `fw_init_8801`: bring-up of the 8801 fails with -12, because `send_dbg_mem_write_direct` never takes its CFM.
2. `bus_tx_restart`: after power off and on no bustx thread exists (`Once`).
3. `sdio_regs`: `write_byte(0x10B)` and `write_byte(0x111)` reach function 0, so registers 0x0B and 0x11 of function 1 are never
   set; they change FBR1's CIS pointer and the high byte of its block size. `set_block_size` in turn writes 0x10 and 0x11 of the function itself.
4. `wiphy_ids`: `MM_KEY_DEL_CFM` and `MM_PS_CHANGE_IND` are both 75, so an indication completes `del_key`.

Seen while modelling, and kept as behaviour of the models (no property claims otherwise):

* Nothing calls `complete_timeout`: a timed-out command stays in the table, counts in `queue_sz`, and takes the next CFM with its id. That
  protects later callers of late answers (`ReportsTruth`), but a lost CFM makes the next call with the same id time out.
* A token kept across a second init takes a foreign slot; `queue_sz` then drifts.
* `notify_bustx` is forgotten when bustx is outside its queue; after -110 the next submit can take the late result of the one before.
* The interrupt handler clears the completion bit of polled commands.
* `notify_sdio_irq_work` is forgotten when the work thread is outside its queue; CARD_INT then stays masked and `SDIO_IRQ_PENDING` unread until a later notify finds it there (`lost`).
* A power on resets and initialises the controller while `SDIO_DEVICE` still holds the device of the last one and threads use it; only other power ons are kept out, by `power_lock`.
* Of bytes that are no frame the header without prefix makes messages, which `on_cfm` and the E2A callbacks get under whatever id the bytes give: a stray "scan done" is possible once a packet is not whole.
* `recv_pkt` reads at most 512 bytes; the rest of a longer packet stays in the chip and is parsed as the next one. Zero padding
  behind the last frame reaches the data callback as empty data frames.
* The senders that write directly do not retry EAGAIN. The two paddings differ at 508 modulo 512 (512 and 1024), both valid.
* A callback that calls `with_wiphy_mut` while an operation waits would wait for itself; `e2a_indication_handler` does not, and the repository installs no other callback.
* `register_sta_from_connect_ind` can enter a station twice, `unregister_sta_by_mac` frees the first entry only, `start_ap` may overwrite
  another's entry (`StationsTold` excepts these). A delete whose CFM does not come leaves the remembered key index in place, whether or not the firmware deleted the key (`undeleted`), and a power cycle does not clear the key table. `add_interface` and `start_ap` read an empty CFM as success. `set_tx_power` wraps at an i8.
* When `add_interface` fails in `platform_init`, `PLATFORM_WIPHY` is already set, and a second call returns Ok without a default interface.
* `enable_4bit_bus` switches the host even when the card was not told.

## Not modelled

* `recv_pkt` for products other than the 8801: it reads 512 bytes without asking for a block count, and what a chip without a packet returns then is not in the repository.
* What a reset of the controller does to a transfer in progress; power cycles under the cfg80211 operations.
* Values of message fields (`lmac_cmd.rs`, `fw_load.rs`), firmware and identification tables, logging: data.
* GPIO, pin multiplexing and PHY set-up, the delays: register I/O in one order with no state of the driver's own.
* The CIS tuple walk: a bounded loop over the card's bytes whose result only selects a product.
* The transmit ring of `SdioHostEnv`, the TCP ACK filter, `ipc.rs`, the skb queue, `manager.rs`, `net_device.rs`, `cfgfile.rs`, `priv_cmd.rs`, `vendor.rs`:
  nothing calls them, or they are stubs and setters.
* `platform_init` and the getters of `WiphyOpsImpl`; `default_key` and `default_mgmt_key`, which are written and never read.
* The end of the CARD_INT work thread at an exit.

## Plan

`HostIrq`'s work thread composed with `BusTx` and `RxPath` in place of their bounded EAGAIN.
