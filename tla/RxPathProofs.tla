---------------------------- MODULE RxPathProofs ----------------------------
(***************************************************************************)
(* Proofs about RxPath, for every buffer, every set of packets and every   *)
(* number of threads.                                                      *)
(***************************************************************************)
EXTENDS RxPath, TLAPS, SequenceTheorems

-----------------------------------------------------------------------------
(* Lengths *)

LEMMA Constants ==
  /\ BufSize \in Nat \ {0} /\ BufSize % Block = 0 /\ StraySizes \subseteq Nat
  /\ MaxFrames \in Nat /\ MaxStray \in Nat /\ MaxPolls \in Nat
  /\ MaxAgains \in Nat /\ MaxFaults \in Nat /\ MaxInits \in Nat
  /\ Busrx \in Threads /\ "none" \notin Threads /\ Pollers \subseteq Threads
  /\ Busrx \notin Pollers
  BY RxPathAssumption DEF Threads, Busrx

LEMMA RoundsUp ==
  ASSUME NEW k \in Nat
  PROVE  /\ RoundUp(k, 4) \in Nat /\ RoundUp(k, 4) >= k
         /\ RoundUp(k, Block) \in Nat /\ RoundUp(k, Block) >= k
  BY DEF RoundUp, Block

LEMMA Sizes ==
  ASSUME NEW f, f.plen \in Nat
  PROVE  Size(f) \in Nat
<1>1. RoundUp(f.plen + HwHeader, 4) \in Nat
  BY RoundsUp DEF HwHeader
<1> QED
  BY <1>1 DEF Size

(* What fits the buffer does so as whole words and as whole blocks too. *)
LEMMA RoundsInside ==
  ASSUME NEW k \in Nat, k <= BufSize
  PROVE  RoundUp(k, 4) <= BufSize /\ RoundUp(k, Block) <= BufSize
<1>1. BufSize \in Nat /\ BufSize % 512 = 0
  BY Constants DEF Block
<1>2. PICK q \in Nat : BufSize = 512 * q
  <2>1. BufSize = 512 * (BufSize \div 512) /\ BufSize \div 512 \in Nat
    BY <1>1
  <2> QED
    BY <2>1
<1>3. (k + 511) \div 512 <= q /\ (k + 3) \div 4 <= 128 * q
  BY <1>2
<1> QED
  BY <1>2, <1>3 DEF RoundUp, Block

PFrames ==
  [type: {"data", "rsp", "cfg", "junk"}, id: Ids, plen: Nat, alt: Nat, at: Nat]

LEMMA PacketType ==
  ASSUME NEW p \in Packets
  PROVE  /\ p.frames \in Seq(PFrames) /\ Len(p.frames) \in Nat /\ Len(p.frames) > 0
         /\ p.frames[1].at = 0
         /\ \A i, j \in 1 .. Len(p.frames) : i < j => p.frames[i].at < p.frames[j].at
         /\ \A i \in 1 .. Len(p.frames) : p.frames[i] \in PFrames
<1>1. /\ p.frames \in Seq(PFrames) /\ p.frames # <<>> /\ p.frames[1].at = 0
      /\ \A i, j \in 1 .. Len(p.frames) : i < j => p.frames[i].at < p.frames[j].at
  BY RxPathAssumption DEF PFrames
<1> QED
  BY <1>1, LenProperties, ElementOfSeq, EmptySeq

(* A packet whose last frame fits the buffer is read in full. *)
LEMMA PacketLen ==
  ASSUME NEW p \in Packets
  PROVE  LET end == p.frames[Len(p.frames)] IN
         /\ DataLen(p) \in Nat
         /\ end.at + Size(end) <= BufSize => DataLen(p) <= BufSize
<1> DEFINE end == p.frames[Len(p.frames)]
           e == end.at + Size(end)
<1>1. end \in PFrames
  BY PacketType
<1>2. end.at \in Nat /\ end.plen \in Nat
  BY <1>1 DEF PFrames
<1>3. e \in Nat
  BY <1>2, Sizes
<1> HIDE DEF e, end
<1>4. /\ RoundUp(e, 4) \in Nat /\ RoundUp(e, Block) \in Nat
      /\ e <= BufSize => RoundUp(e, 4) <= BufSize /\ RoundUp(e, Block) <= BufSize
  BY <1>3, RoundsUp, RoundsInside
<1>5. DataLen(p) = RoundUp(e, 4) \/ DataLen(p) = RoundUp(e, Block)
  BY DEF DataLen, e, end
<1> QED
  BY <1>4, <1>5 DEF e, end
-----------------------------------------------------------------------------
(* The inductive invariant *)

Frames == [type: {"data", "rsp", "cfg", "junk"}, id: Ids \cup {"none"}, plen: Nat,
           alt: Nat, at: Nat, n: Nat, whole: BOOLEAN, dlen: Nat, last: BOOLEAN]

SeqType ==
  /\ buf \in Seq(Frames) /\ fifo \in Seq(Frames) /\ sent \in Seq(Frames)
  /\ given \in Seq(Int) /\ seen \in Seq(Nat)

(* The locks say who fetches and parses; a packet is in the buffer only while *)
(* its fetcher parses it.                                                     *)
LockInv ==
  /\ \A t \in Threads : pc[t] \in {"sdio", "recv", "parse"} <=> cmdLock = t
  /\ \A t \in Threads : pc[t] \in {"recv", "parse"} <=> sdioLock = t
  /\ ~started => pc[Busrx] = "none"
  /\ buf # <<>> => sdioLock \in Threads /\ pc[sdioLock] = "parse"

(* A whole frame is one the parser knows and lies in what is read, and with   *)
(* it the packet that it ends.                                                *)
Sound(f) ==
  /\ f.n = 0 => f.type = "junk"
  /\ f.whole =>
       /\ Known(f)
       /\ f.at + Size(f) <= f.dlen /\ f.at + Size(f) <= BufSize
       /\ f.last => f.dlen <= BufSize

(* f and g are frames of one packet, f before g. *)
Before(f, g) == f.at < g.at /\ f.dlen = g.dlen /\ (g.whole => f.whole)

(* Packets in the chip. *)
Packed(s) ==
  /\ \A i \in 1 .. Len(s) : Sound(s[i])
  /\ Len(s) > 0 => s[1].at = 0 /\ s[Len(s)].last
  /\ \A i \in 1 .. Len(s) - 1 :
       IF s[i].last THEN s[i + 1].at = 0
       ELSE s[i + 1].whole => s[i + 1].at = s[i].at + Size(s[i])
  /\ \A i, j \in 1 .. Len(s) :
       i < j /\ (\A m \in i .. j - 1 : ~s[m].last) => Before(s[i], s[j])

FifoInv == Packed(fifo)

(* The packet in the buffer: where the parser is. *)
BufInv ==
  /\ \A i \in 1 .. Len(buf) : Sound(buf[i])
  /\ \A i, j \in 1 .. Len(buf) : i < j => Before(buf[i], buf[j])
  /\ \A i \in 1 .. Len(buf) - 1 :
       buf[i + 1].whole => buf[i + 1].at = buf[i].at + Size(buf[i])
  /\ \A i \in 1 .. Len(buf) : buf[i].whole => buf[i].at + Size(buf[i]) <= n
  /\ buf # <<>> /\ buf[1].whole => ~astray /\ off = buf[1].at
  /\ astray => buf # <<>>

(* What is on its way, from the parser's position to the chip's last frame. *)
Chan == buf \o fifo

(* It is what the chip sent, in that order, and behind all that was seen. *)
OrderInv ==
  /\ \A j \in 1 .. Len(Chan) : Chan[j].n # 0 =>
       Chan[j].n \in 1 .. Len(sent) /\ sent[Chan[j].n] = Chan[j]
  /\ \A i, j \in 1 .. Len(Chan) :
       i < j /\ Chan[i].n # 0 /\ Chan[j].n # 0 => Chan[i].n < Chan[j].n
  /\ \A i \in 1 .. Len(seen), j \in 1 .. Len(Chan) :
       Chan[j].n # 0 => seen[i] < Chan[j].n

(* Frame m is a scan result that the callback has to see. *)
Wanted(m) ==
  /\ hookedAt \in 0 .. m - 1
  /\ sent[m].type = "rsp" /\ sent[m].whole
  /\ sent[m].id = ResultInd /\ sent[m].plen >= 10

(* It was seen or is on its way, and was seen before anything sent later. *)
ResultInv ==
  faults = 0 =>
    \A m \in bornAt + 1 .. Len(sent) : Wanted(m) =>
      /\ \/ \E i \in 1 .. Len(seen) : seen[i] = m
         \/ \E j \in 1 .. Len(Chan) : Chan[j].n = m
      /\ \A i \in 1 .. Len(seen) :
           m < seen[i] => \E j \in 1 .. i - 1 : seen[j] = m

(* As long as every frame is whole, so is what is on its way. *)
CleanInv ==
  (\A m \in 1 .. Len(sent) : sent[m].whole) =>
    /\ \A j \in 1 .. Len(Chan) : Chan[j].whole
    /\ \A i \in 1 .. Len(given) : given[i] # -1
    /\ \A i \in 1 .. Len(seen) : seen[i] # 0

IInv ==
  /\ TypeOK /\ SeqType /\ LockInv /\ FifoInv /\ BufInv /\ OrderInv
  /\ ResultInv /\ CleanInv

-----------------------------------------------------------------------------
(* Types and locks *)

LEMMA FrameFacts ==
  ASSUME NEW f \in Frames
  PROVE  /\ f.plen \in Nat /\ f.alt \in Nat /\ f.at \in Nat /\ f.n \in Nat
         /\ f.dlen \in Nat /\ f.whole \in BOOLEAN /\ f.last \in BOOLEAN
         /\ f.type \in {"data", "rsp", "cfg", "junk"} /\ Size(f) \in Nat
<1>1. /\ f.plen \in Nat /\ f.alt \in Nat /\ f.at \in Nat /\ f.n \in Nat
      /\ f.dlen \in Nat /\ f.whole \in BOOLEAN /\ f.last \in BOOLEAN
      /\ f.type \in {"data", "rsp", "cfg", "junk"}
  BY DEF Frames
<1> QED
  BY <1>1, Sizes

LEMMA SeqFacts ==
  ASSUME SeqType
  PROVE  /\ Len(buf) \in Nat /\ Len(fifo) \in Nat /\ Len(sent) \in Nat
         /\ Len(given) \in Nat /\ Len(seen) \in Nat
         /\ DOMAIN given = 1 .. Len(given) /\ DOMAIN seen = 1 .. Len(seen)
         /\ \A i \in 1 .. Len(buf) : buf[i] \in Frames
         /\ \A i \in 1 .. Len(fifo) : fifo[i] \in Frames
         /\ \A i \in 1 .. Len(sent) : sent[i] \in Frames
         /\ Chan \in Seq(Frames) /\ Len(Chan) = Len(buf) + Len(fifo)
         /\ \A i \in 1 .. Len(Chan) : Chan[i] \in Frames
         /\ \A i \in 1 .. Len(Chan) :
              Chan[i] = IF i <= Len(buf) THEN buf[i] ELSE fifo[i - Len(buf)]
         /\ buf = <<>> <=> Len(buf) = 0
         /\ fifo = <<>> <=> Len(fifo) = 0
<1>1. /\ Len(buf) \in Nat /\ Len(fifo) \in Nat /\ Len(sent) \in Nat
      /\ Len(given) \in Nat /\ Len(seen) \in Nat
      /\ DOMAIN given = 1 .. Len(given) /\ DOMAIN seen = 1 .. Len(seen)
  BY LenProperties DEF SeqType
<1>2. /\ \A i \in 1 .. Len(buf) : buf[i] \in Frames
      /\ \A i \in 1 .. Len(fifo) : fifo[i] \in Frames
      /\ \A i \in 1 .. Len(sent) : sent[i] \in Frames
  BY ElementOfSeq DEF SeqType
<1>3. /\ Chan \in Seq(Frames) /\ Len(Chan) = Len(buf) + Len(fifo)
      /\ \A i \in 1 .. Len(Chan) :
           Chan[i] = IF i <= Len(buf) THEN buf[i] ELSE fifo[i - Len(buf)]
  BY ConcatProperties DEF SeqType, Chan
<1>4. \A i \in 1 .. Len(Chan) : Chan[i] \in Frames
  BY <1>3, ElementOfSeq
<1>5. /\ buf = <<>> <=> Len(buf) = 0
      /\ fifo = <<>> <=> Len(fifo) = 0
  BY EmptySeq DEF SeqType
<1> QED
  BY <1>1, <1>2, <1>3, <1>4, <1>5

(* The frame the parser looks at is the first on its way. *)
LEMMA HeadFacts ==
  ASSUME SeqType, buf # <<>>
  PROVE  /\ Len(buf) > 0 /\ f0 = buf[1] /\ f0 = Chan[1] /\ f0 \in Frames
         /\ Len(Chan) > 0
         /\ Tail(buf) \in Seq(Frames) /\ Len(Tail(buf)) = Len(buf) - 1
         /\ \A i \in 1 .. Len(Tail(buf)) : Tail(buf)[i] = buf[i + 1]
<1>1. Len(buf) \in Nat /\ Len(buf) > 0
  BY SeqFacts
<1>2. f0 = buf[1]
  BY HeadTailProperties DEF SeqType, f0
<1>3. /\ Tail(buf) \in Seq(Frames) /\ Len(Tail(buf)) = Len(buf) - 1
      /\ \A i \in 1 .. Len(Tail(buf)) : Tail(buf)[i] = buf[i + 1]
  BY HeadTailProperties DEF SeqType
<1>4. Len(Chan) > 0 /\ Chan[1] = buf[1] /\ buf[1] \in Frames
  BY <1>1, SeqFacts
<1> QED
  BY <1>1, <1>2, <1>3, <1>4

(* What the chip sends. *)
LEMMA NewFrames ==
  ASSUME SeqType, NEW p \in Packets
  PROVE  /\ Numbered(p) \in Seq(Frames) /\ Len(Numbered(p)) = Len(p.frames)
         /\ Len(p.frames) \in Nat /\ Len(p.frames) > 0
         /\ Numbered(p)[1].at = 0
         /\ \A i \in 1 .. Len(p.frames) :
              LET f == Numbered(p)[i] IN
              /\ f \in Frames /\ Sound(f) /\ f.n = Len(sent) + i
              /\ f.last <=> i = Len(p.frames)
         /\ \A i, j \in 1 .. Len(p.frames) :
              i < j => Before(Numbered(p)[i], Numbered(p)[j])
         /\ \A i \in 1 .. Len(p.frames) - 1 :
              Numbered(p)[i + 1].whole =>
                Numbered(p)[i + 1].at = Numbered(p)[i].at + Size(Numbered(p)[i])
<1> DEFINE l == Len(p.frames)
           fr == Numbered(p)
<1>1. /\ l \in Nat /\ l > 0 /\ p.frames[1].at = 0
      /\ \A i, j \in 1 .. l : i < j => p.frames[i].at < p.frames[j].at
      /\ \A i \in 1 .. l : p.frames[i] \in PFrames
  BY PacketType
<1>2. DataLen(p) \in Nat /\ Len(sent) \in Nat
  BY PacketLen, SeqFacts
<1>3. \A i \in 1 .. l : Whole(p, i) \in BOOLEAN
  BY DEF Whole
<1>4. fr = [i \in 1 .. l |->
     [type |-> p.frames[i].type, id |-> p.frames[i].id,
      plen |-> p.frames[i].plen, alt |-> p.frames[i].alt,
      at |-> p.frames[i].at, n |-> Len(sent) + i, whole |-> Whole(p, i),
      dlen |-> DataLen(p), last |-> i = l]]
  BY DEF Numbered
<1>5. ASSUME NEW i \in 1 .. l
      PROVE  /\ fr[i] \in Frames /\ fr[i].n = Len(sent) + i
             /\ fr[i].type = p.frames[i].type /\ fr[i].plen = p.frames[i].plen
             /\ fr[i].at = p.frames[i].at
             /\ fr[i].whole = Whole(p, i) /\ fr[i].dlen = DataLen(p)
             /\ fr[i].last = (i = l)
             /\ Size(fr[i]) = Size(p.frames[i])
  <2> HIDE DEF fr
  <2>1. p.frames[i] \in PFrames
    BY <1>1
  <2>2. /\ p.frames[i].type \in {"data", "rsp", "cfg", "junk"} /\ p.frames[i].id \in Ids
        /\ p.frames[i].plen \in Nat /\ p.frames[i].alt \in Nat /\ p.frames[i].at \in Nat
    BY <2>1 DEF PFrames
  <2>3. fr[i] = [type |-> p.frames[i].type, id |-> p.frames[i].id,
                 plen |-> p.frames[i].plen, alt |-> p.frames[i].alt,
                 at |-> p.frames[i].at, n |-> Len(sent) + i, whole |-> Whole(p, i),
                 dlen |-> DataLen(p), last |-> i = l]
    BY <1>4
  <2>4. Len(sent) + i \in Nat /\ (i = l) \in BOOLEAN
    BY <1>2
  <2>5. fr[i] \in Frames
    BY <1>2, <1>3, <2>2, <2>3, <2>4 DEF Frames
  <2>6. Size(fr[i]) = Size(p.frames[i])
    BY <2>3 DEF Size
  <2> QED
    BY <2>2, <2>3, <2>5, <2>6
<1>6. fr \in Seq(Frames) /\ Len(fr) = l
  <2>1. fr \in [1 .. l -> Frames]
    BY <1>4, <1>5
  <2> QED
    BY <1>1, <2>1, IsASeq, LenProperties
<1> HIDE DEF fr
<1>7. ASSUME NEW i \in 1 .. l  PROVE Sound(fr[i])
  <2>1. fr[i].n # 0
    BY <1>2, <1>5
  <2>2. ASSUME fr[i].whole
        PROVE  /\ Known(fr[i])
               /\ fr[i].at + Size(fr[i]) <= fr[i].dlen
               /\ fr[i].at + Size(fr[i]) <= BufSize
    <3>1. Whole(p, i) /\ i \in 1 .. i
      BY <1>1, <1>5, <2>2
    <3>2. /\ Known(p.frames[i])
          /\ p.frames[i].at + Size(p.frames[i]) <= BufSize
          /\ p.frames[i].at + Size(p.frames[i]) <= DataLen(p)
      BY <3>1 DEF Whole
    <3>3. Known(fr[i])
      BY <1>5, <3>2 DEF Known
    <3> QED
      BY <1>5, <3>2, <3>3
  <2>3. ASSUME fr[i].whole, fr[i].last  PROVE fr[i].dlen <= BufSize
    <3>1. i = l /\ fr[i].dlen = DataLen(p)
      BY <1>5, <2>3
    <3>2. p.frames[l].at + Size(p.frames[l]) <= BufSize
      BY <1>5, <2>2, <2>3, <3>1
    <3>3. DataLen(p) <= BufSize
      BY <3>2, PacketLen
    <3> QED
      BY <3>1, <3>3
  <2> QED
    BY <2>1, <2>2, <2>3 DEF Sound
<1>8. fr[1].at = 0
  BY <1>1, <1>5
<1>9. ASSUME NEW i \in 1 .. l, NEW j \in 1 .. l, i < j  PROVE Before(fr[i], fr[j])
  <2>1. fr[i].at < fr[j].at /\ fr[i].dlen = fr[j].dlen
    BY <1>1, <1>5, <1>9
  <2>2. ASSUME Whole(p, j)  PROVE Whole(p, i)
    <3>1. (\A k \in 1 .. i : k \in 1 .. j) /\ (\A k \in 1 .. i - 1 : k \in 1 .. j - 1)
      BY <1>1, <1>9
    <3> QED
      BY <2>2, <3>1 DEF Whole
  <2>3. fr[j].whole => fr[i].whole
    BY <1>5, <2>2
  <2> QED
    BY <2>1, <2>3 DEF Before
<1>10. ASSUME NEW i \in 1 .. l - 1, fr[i + 1].whole
       PROVE  fr[i + 1].at = fr[i].at + Size(fr[i])
  <2>1. i \in 1 .. l /\ i + 1 \in 1 .. l /\ i \in 1 .. (i + 1) - 1
    BY <1>1
  <2>2. Whole(p, i + 1)
    BY <1>5, <1>10, <2>1
  <2>3. p.frames[i + 1].at = p.frames[i].at + Size(p.frames[i])
    BY <2>1, <2>2 DEF Whole
  <2> QED
    BY <1>5, <2>1, <2>3
<1> QED
  BY <1>1, <1>5, <1>6, <1>7, <1>8, <1>9, <1>10 DEF fr


States == {"none", "idle", "loop", "cmd", "sdio", "recv", "parse", "again", "gone"}

LifeType ==
  /\ life \in {"off", "device", "mgr", "on", "stop", "exit"}
  /\ inits \in 0 .. MaxInits
  /\ dev \in BOOLEAN /\ mgr \in BOOLEAN /\ started \in BOOLEAN /\ running \in BOOLEAN

ThreadType ==
  /\ cmdLock \in Threads \cup {"none"} /\ sdioLock \in Threads \cup {"none"}
  /\ pc \in [Threads -> States]

ParseType ==
  /\ n \in 0 .. BufSize /\ off \in 0 .. n /\ astray \in BOOLEAN

CountType ==
  /\ polls \in 0 .. MaxPolls /\ agains \in 0 .. MaxAgains
  /\ stray \in 0 .. MaxStray /\ faults \in 0 .. MaxFaults

HistType ==
  /\ bornAt \in 0 .. Len(sent) /\ hookedAt \in -1 .. Len(sent)
  /\ \A i \in DOMAIN given : given[i] \in -1 .. Len(sent)
  /\ \A i \in DOMAIN seen : seen[i] \in 0 .. Len(sent)

LEMMA TypeParts ==
  TypeOK <=> LifeType /\ ThreadType /\ ParseType /\ CountType /\ HistType
<1>1. LifeType /\ astray \in BOOLEAN <=>
        /\ life \in {"off", "device", "mgr", "on", "stop", "exit"}
        /\ inits \in 0 .. MaxInits
        /\ {dev, mgr, started, running, astray} \subseteq BOOLEAN
  BY DEF LifeType
<1>2. ThreadType <=>
        /\ {cmdLock, sdioLock} \subseteq Threads \cup {"none"}
        /\ pc \in [Threads -> States]
  BY DEF ThreadType
<1> QED
  BY <1>1, <1>2, Zenon DEF TypeOK, ParseType, CountType, HistType, States

LEMMA LifeStep ==
  ASSUME LifeType, [Next]_vars  PROVE LifeType'
<1>1. ASSUME UNCHANGED lifeVars  PROVE LifeType'
  BY <1>1 DEF lifeVars, LifeType
<1>2. CASE Life
  <2>1. CASE StoreDevice
    BY <2>1, Constants DEF StoreDevice, LifeType
  <2>2. CASE StoreMgr \/ ExitStop \/ ExitDevice \/ ExitMgr
    BY <2>2 DEF StoreMgr, ExitStop, ExitDevice, ExitMgr, LifeType
  <2>3. CASE StartBusrx
    <3>1. (running \/ ~started) \in BOOLEAN
      BY DEF LifeType
    <3> QED
      BY <2>3, <3>1 DEF StartBusrx, LifeType
  <2> QED
    BY <1>2, <2>1, <2>2, <2>3 DEF Life
<1>3. CASE Register \/ (\E t \in Pollers : PollOnce(t)) \/ (\E p \in Packets : ChipSends(p))
  BY <1>1, <1>3 DEF Register, PollOnce, ChipSends
<1>4. ASSUME NEW t \in Threads, Step(t)  PROVE UNCHANGED lifeVars
  BY <1>4 DEF Step, LockCmd, LockSdio, RecvNothing, RecvPkt, RecvAgain, AgainOver, RecvFails,
    ParseData, ParseRsp, ParseAlt, ParseStop, ParseAstray, ParsePadding, BusrxLoop
<1>5. CASE UNCHANGED vars
  BY <1>1, <1>5 DEF vars
<1> QED
  BY <1>1, <1>2, <1>3, <1>4, <1>5 DEF Next

(* A thread that leaves gives back what it holds. *)
LEMMA LeaveDoes ==
  ASSUME ThreadType, LockInv, NEW t \in Threads, NEW next \in States,
         next \notin {"sdio", "recv", "parse"}, Leave(t, next)
  PROVE  /\ ThreadType'
         /\ \A u \in Threads : pc'[u] \in {"sdio", "recv", "parse"} <=> cmdLock' = u
         /\ \A u \in Threads : pc'[u] \in {"recv", "parse"} <=> sdioLock' = u
         /\ \A u \in Threads : u # t => pc'[u] = pc[u]
         /\ pc'[t] = next
         /\ sdioLock' # sdioLock => sdioLock = t /\ sdioLock' = "none"
<1>1. pc' = [pc EXCEPT ![t] = next] /\ pc' \in [Threads -> States]
  BY DEF Leave, ThreadType
<1>2. pc'[t] = next /\ \A u \in Threads : u # t => pc'[u] = pc[u]
  BY <1>1 DEF ThreadType
<1>3. /\ cmdLock' = IF cmdLock = t THEN "none" ELSE cmdLock
      /\ sdioLock' = IF sdioLock = t THEN "none" ELSE sdioLock
  BY DEF Leave
<1>4. ThreadType'
  BY <1>1, <1>3 DEF ThreadType
<1>5. ASSUME NEW u \in Threads
      PROVE  /\ pc'[u] \in {"sdio", "recv", "parse"} <=> cmdLock' = u
             /\ pc'[u] \in {"recv", "parse"} <=> sdioLock' = u
  <2>1. "none" \notin Threads
    BY Constants
  <2> QED
    BY <1>2, <1>3, <2>1 DEF LockInv
<1> QED
  BY <1>2, <1>3, <1>4, <1>5

(* The steps of a thread that is in a packet it has fetched. *)
Parsed(t) ==
  \/ ParseData(t) \/ ParseRsp(t) \/ ParseAlt(t) \/ ParseStop(t)
  \/ ParseAstray(t) \/ ParsePadding(t)

(* Either the packet is given up, or thread and locks stay as they are. *)
LEMMA ParsedDoes ==
  ASSUME NEW t \in Threads, Parsed(t)
  PROVE  /\ pc[t] = "parse"
         /\ UNCHANGED <<lifeVars, polls, agains, chipVars, hookedAt, faults>>
         /\ Done(t) \/ UNCHANGED <<cmdLock, sdioLock, pc, n>>
<1>1. CASE ParseData(t) \/ ParseRsp(t) \/ ParseAlt(t)
  BY <1>1 DEF ParseData, ParseRsp, ParseAlt, Parsing, boundVars
<1>2. CASE ParseStop(t) \/ ParsePadding(t)
  BY <1>2 DEF ParseStop, ParsePadding, Parsing, boundVars, outVars
<1>3. CASE ParseAstray(t)
  BY <1>3 DEF ParseAstray
<1> QED
  BY <1>1, <1>2, <1>3 DEF Parsed

LEMMA LockStep ==
  ASSUME TypeOK, SeqType, LockInv, [Next]_vars
  PROVE  ThreadType' /\ LockInv'
<1> USE Constants
<1>1. ThreadType /\ LifeType
  BY TypeParts
<1>2. ASSUME UNCHANGED <<cmdLock, sdioLock, pc, started>>, buf' = buf \/ buf' = <<>>
      PROVE  ThreadType' /\ LockInv'
  BY <1>1, <1>2 DEF ThreadType, LockInv
<1>3. ASSUME NEW t \in Threads, NEW next \in {"loop", "idle", "again"}, Leave(t, next),
             pc[t] # "none", UNCHANGED started,
             buf' = <<>> \/ (buf' = buf /\ pc[t] # "parse")
      PROVE  ThreadType' /\ LockInv'
  <2>1. next \in States /\ next \notin {"sdio", "recv", "parse"}
    BY DEF States
  <2>2. /\ ThreadType'
        /\ \A u \in Threads : pc'[u] \in {"sdio", "recv", "parse"} <=> cmdLock' = u
        /\ \A u \in Threads : pc'[u] \in {"recv", "parse"} <=> sdioLock' = u
        /\ \A u \in Threads : u # t => pc'[u] = pc[u]
        /\ pc'[t] = next
        /\ sdioLock' # sdioLock => sdioLock = t /\ sdioLock' = "none"
    BY <1>1, <1>3, <2>1, LeaveDoes
  <2>3. buf' # <<>> => sdioLock' \in Threads /\ pc'[sdioLock'] = "parse"
    BY <1>3, <2>2 DEF LockInv
  <2>4. ~started' => pc'[Busrx] = "none"
    BY <1>3, <2>2 DEF LockInv
  <2> QED
    BY <2>2, <2>3, <2>4 DEF LockInv
<1>4. ASSUME NEW t \in Threads, Return(t), pc[t] # "none", UNCHANGED started,
             buf' = <<>> \/ (buf' = buf /\ pc[t] # "parse")
      PROVE  ThreadType' /\ LockInv'
  BY <1>3, <1>4 DEF Return
<1>5. ASSUME NEW t \in Threads, NEW s \in {"cmd", "gone"}, pc' = [pc EXCEPT ![t] = s],
             pc[t] \in {"loop", "idle"}, UNCHANGED <<cmdLock, sdioLock, started, buf>>
      PROVE  ThreadType' /\ LockInv'
  <2>1. pc' \in [Threads -> States] /\ pc'[t] = s /\ \A u \in Threads : u # t => pc'[u] = pc[u]
    BY <1>1, <1>5 DEF ThreadType, States
  <2> QED
    BY <1>1, <1>5, <2>1 DEF ThreadType, LockInv
<1>6. CASE Life
  <2>1. CASE StartBusrx
    <3>1. CASE started
      BY <1>1, <2>1, <3>1 DEF StartBusrx, parseVars, ThreadType, LockInv
    <3>2. CASE ~started
      <4>1. /\ pc' \in [Threads -> States] /\ pc'[Busrx] = "loop"
            /\ \A u \in Threads : u # Busrx => pc'[u] = pc[u]
        BY <1>1, <2>1, <3>2 DEF StartBusrx, ThreadType, States
      <4>2. UNCHANGED <<cmdLock, sdioLock, buf>> /\ started'
        BY <2>1 DEF StartBusrx, parseVars
      <4> QED
        BY <1>1, <3>2, <4>1, <4>2 DEF ThreadType, LockInv
    <3> QED
      BY <3>1, <3>2
  <2>2. CASE StoreDevice \/ StoreMgr \/ ExitStop \/ ExitDevice \/ ExitMgr
    BY <1>2, <2>2 DEF StoreDevice, StoreMgr, ExitStop, ExitDevice, ExitMgr, parseVars
  <2> QED
    BY <1>6, <2>1, <2>2 DEF Life
<1>7. CASE Register \/ \E p \in Packets : ChipSends(p)
  BY <1>2, <1>7 DEF Register, ChipSends, lifeVars, parseVars
<1>8. ASSUME NEW t \in Pollers, PollOnce(t)  PROVE ThreadType' /\ LockInv'
  BY <1>5, <1>8 DEF PollOnce, lifeVars, parseVars
<1>9. ASSUME NEW t \in Threads, Step(t)  PROVE ThreadType' /\ LockInv'
  <2>1. CASE LockCmd(t)
    <3>1. CASE mgr
      <4>1. /\ pc' \in [Threads -> States] /\ pc'[t] = "sdio"
            /\ \A u \in Threads : u # t => pc'[u] = pc[u]
        BY <1>1, <2>1, <3>1 DEF LockCmd, ThreadType, States
      <4>2. /\ pc[t] = "cmd" /\ cmdLock = "none" /\ cmdLock' = t
            /\ UNCHANGED <<sdioLock, started, buf>>
        BY <2>1, <3>1 DEF LockCmd, lifeVars, parseVars
      <4> QED
        BY <1>1, <4>1, <4>2 DEF ThreadType, LockInv
    <3>2. CASE ~mgr
      BY <1>4, <2>1, <3>2 DEF LockCmd, lifeVars, parseVars
    <3> QED
      BY <3>1, <3>2
  <2>2. CASE LockSdio(t)
    <3>1. CASE dev
      <4>1. /\ pc' \in [Threads -> States] /\ pc'[t] = "recv"
            /\ \A u \in Threads : u # t => pc'[u] = pc[u]
        BY <1>1, <2>2, <3>1 DEF LockSdio, ThreadType, States
      <4>2. /\ pc[t] = "sdio" /\ sdioLock = "none" /\ sdioLock' = t
            /\ UNCHANGED <<cmdLock, started, buf>>
        BY <2>2, <3>1 DEF LockSdio, lifeVars, parseVars
      <4> QED
        BY <1>1, <4>1, <4>2 DEF ThreadType, LockInv
    <3>2. CASE ~dev
      BY <1>4, <2>2, <3>2 DEF LockSdio, lifeVars, parseVars
    <3> QED
      BY <3>1, <3>2
  <2>3. CASE RecvNothing(t) \/ RecvFails(t)
    BY <1>4, <2>3 DEF RecvNothing, RecvFails, Done, lifeVars
  <2>4. CASE RecvPkt(t)
    <3>1. /\ pc' \in [Threads -> States] /\ pc'[t] = "parse"
          /\ \A u \in Threads : u # t => pc'[u] = pc[u]
      BY <1>1, <2>4 DEF RecvPkt, ThreadType, States
    <3>2. pc[t] = "recv" /\ UNCHANGED <<cmdLock, sdioLock, started>>
      BY <2>4 DEF RecvPkt, lifeVars
    <3> QED
      BY <1>1, <3>1, <3>2 DEF ThreadType, LockInv
  <2>5. CASE RecvAgain(t)
    BY <1>3, <2>5 DEF RecvAgain, lifeVars, parseVars
  <2>6. CASE AgainOver(t)
    BY <1>4, <2>6 DEF AgainOver, lifeVars, parseVars
  <2>7. CASE Parsed(t)
    <3>1. CASE Done(t)
      BY <1>4, <2>7, <3>1, ParsedDoes DEF Done, lifeVars
    <3>2. CASE UNCHANGED <<cmdLock, sdioLock, pc>>
      <4>1. pc[t] = "parse" /\ UNCHANGED started
        BY <2>7, ParsedDoes DEF lifeVars
      <4> QED
        BY <1>1, <3>2, <4>1 DEF ThreadType, LockInv
    <3> QED
      BY <2>7, <3>1, <3>2, ParsedDoes
  <2>8. CASE t = Busrx /\ BusrxLoop
    BY <1>5, <2>8 DEF BusrxLoop, lifeVars, parseVars
  <2> QED
    BY <1>9, <2>1, <2>2, <2>3, <2>4, <2>5, <2>6, <2>7, <2>8 DEF Step, Parsed
<1>10. CASE UNCHANGED vars
  BY <1>2, <1>10 DEF vars, lifeVars, parseVars
<1> QED
  BY <1>6, <1>7, <1>8, <1>9, <1>10 DEF Next

-----------------------------------------------------------------------------
(* What a step does to the frames on their way *)

(* The first packet in the chip, cut off from the others. *)
LEMMA CutOff ==
  ASSUME SeqType, NEW k \in 1 .. Len(fifo)
  PROVE  /\ SubSeq(fifo, 1, k) \in Seq(Frames) /\ Len(SubSeq(fifo, 1, k)) = k
         /\ \A i \in 1 .. k : SubSeq(fifo, 1, k)[i] = fifo[i]
         /\ SubSeq(fifo, k + 1, Len(fifo)) \in Seq(Frames)
         /\ Len(SubSeq(fifo, k + 1, Len(fifo))) = Len(fifo) - k
         /\ \A i \in 1 .. Len(fifo) - k :
              SubSeq(fifo, k + 1, Len(fifo))[i] = fifo[k + i]
<1>1. Len(fifo) \in Nat /\ fifo \in Seq(Frames)
  BY SeqFacts DEF SeqType
<1>2. /\ SubSeq(fifo, 1, k) \in Seq(Frames) /\ Len(SubSeq(fifo, 1, k)) = k
      /\ \A i \in 1 .. k : SubSeq(fifo, 1, k)[i] = fifo[i]
  BY <1>1, SubSeqProperties
<1>3. /\ SubSeq(fifo, k + 1, Len(fifo)) \in Seq(Frames)
      /\ Len(SubSeq(fifo, k + 1, Len(fifo))) = Len(fifo) - k
      /\ \A i \in 1 .. Len(fifo) - k :
           SubSeq(fifo, k + 1, Len(fifo))[i] = fifo[k + i]
  BY <1>1, SubSeqProperties
<1> QED
  BY <1>2, <1>3

IsRest(r) == Sound(r) /\ r.n = 0 /\ ~r.whole /\ r.last /\ r.at = 0

LEMMA RestFacts ==
  ASSUME NEW k \in Nat, k > 0
  PROVE  Rest(k) \in Frames /\ IsRest(Rest(k))
<1>1. RoundUp(k, Block) \in Nat
  BY RoundsUp
<1>2. /\ Rest(k).n = 0 /\ ~Rest(k).whole /\ Rest(k).last /\ Rest(k).at = 0
      /\ Rest(k).type = "junk"
  BY DEF Rest
<1>3. Rest(k) \in Frames
  <2>1. "none" \in Ids \cup {"none"}
    OBVIOUS
  <2> DEFINE d == RoundUp(k, Block)
  <2>2. d \in Nat
    BY <1>1
  <2> HIDE DEF d
  <2>3. [type |-> "junk", id |-> "none", plen |-> k, alt |-> 0, at |-> 0, n |-> 0,
         whole |-> FALSE, dlen |-> d, last |-> TRUE] \in Frames
    BY <2>1, <2>2 DEF Frames
  <2> QED
    BY <2>3 DEF Rest, d
<1> QED
  BY <1>2, <1>3 DEF Sound, IsRest

(* recv_pkt takes the first packet; of one that is too long a rest stays. *)
Fetches(k) ==
  /\ FirstPacket(k)
  /\ buf' = SubSeq(fifo, 1, k)
  /\ off' = 0 /\ astray' = FALSE /\ n' \in Nat /\ n' <= BufSize
  /\ \/ /\ fifo[1].dlen <= BufSize /\ n' = fifo[1].dlen
        /\ fifo' = SubSeq(fifo, k + 1, Len(fifo))
     \/ /\ fifo[1].dlen > BufSize
        /\ \E r \in Frames :
             IsRest(r) /\ fifo' = <<r>> \o SubSeq(fifo, k + 1, Len(fifo))

LEMMA RecvDoes ==
  ASSUME TypeOK, SeqType, NEW t \in Threads, RecvPkt(t)
  PROVE  \E k \in 1 .. Len(fifo) : Fetches(k)
<1>1. PICK k \in 1 .. Len(fifo) :
        /\ FirstPacket(k)
        /\ buf' = SubSeq(fifo, 1, k)
        /\ fifo' = (IF Head(fifo).dlen - BufSize > 0 THEN <<Rest(Head(fifo).dlen - BufSize)>>
                    ELSE <<>>) \o SubSeq(fifo, k + 1, Len(fifo))
  BY DEF RecvPkt
<1>2. Len(fifo) \in Nat /\ Len(fifo) > 0 /\ fifo[1] \in Frames /\ fifo # <<>>
  BY SeqFacts
<1>3. Head(fifo) = fifo[1] /\ fifo[1].dlen \in Nat /\ BufSize \in Nat
  BY <1>2, HeadTailProperties, FrameFacts, Constants DEF SeqType
<1>4. /\ off' = 0 /\ astray' = FALSE
      /\ n' = IF fifo[1].dlen - BufSize > 0 THEN BufSize ELSE fifo[1].dlen
  BY <1>3 DEF RecvPkt
<1>5. SubSeq(fifo, k + 1, Len(fifo)) \in Seq(Frames)
  BY CutOff
<1>6. CASE fifo[1].dlen <= BufSize
  <2>1. ~(fifo[1].dlen - BufSize > 0)
    BY <1>3, <1>6
  <2>2. fifo' = <<>> \o SubSeq(fifo, k + 1, Len(fifo))
    BY <1>1, <1>3, <2>1
  <2>3. fifo' = SubSeq(fifo, k + 1, Len(fifo))
    BY <1>5, <2>2, ConcatEmptySeq
  <2> QED
    BY <1>1, <1>3, <1>4, <1>6, <2>1, <2>3 DEF Fetches
<1>7. CASE fifo[1].dlen > BufSize
  <2> DEFINE over == fifo[1].dlen - BufSize
  <2>1. over \in Nat /\ over > 0
    BY <1>3, <1>7
  <2>2. fifo' = <<Rest(over)>> \o SubSeq(fifo, k + 1, Len(fifo))
    BY <1>1, <1>3, <2>1
  <2>3. Rest(over) \in Frames /\ IsRest(Rest(over))
    BY <2>1, RestFacts
  <2>4. n' \in Nat /\ n' <= BufSize
    BY <1>3, <1>4
  <2> QED
    BY <1>1, <1>4, <1>7, <2>2, <2>3, <2>4 DEF Fetches
<1> QED
  BY <1>3, <1>6, <1>7

-----------------------------------------------------------------------------
(* The packets in the chip *)

LEMMA PackedSuffix ==
  ASSUME NEW s \in Seq(Frames), Packed(s), NEW k \in 1 .. Len(s), s[k].last
  PROVE  Packed(SubSeq(s, k + 1, Len(s)))
<1> DEFINE u == SubSeq(s, k + 1, Len(s))
           l == Len(s)
<1>1. l \in Nat
  BY LenProperties
<1>2. Len(u) = l - k /\ \A i \in 1 .. l - k : u[i] = s[k + i]
  BY <1>1, SubSeqProperties
<1> HIDE DEF u
<1>3. \A i \in 1 .. Len(u) : Sound(u[i])
  BY <1>1, <1>2 DEF Packed
<1>4. Len(u) > 0 => u[1].at = 0 /\ u[Len(u)].last
  <2> SUFFICES ASSUME Len(u) > 0 PROVE u[1].at = 0 /\ u[Len(u)].last
    OBVIOUS
  <2>1. u[1] = s[k + 1] /\ u[Len(u)] = s[l] /\ k \in 1 .. l - 1
    BY <1>1, <1>2
  <2> QED
    BY <1>1, <2>1 DEF Packed
<1>5. ASSUME NEW i \in 1 .. Len(u) - 1
      PROVE  IF u[i].last THEN u[i + 1].at = 0
             ELSE u[i + 1].whole => u[i + 1].at = u[i].at + Size(u[i])
  <2>1. u[i] = s[k + i] /\ u[i + 1] = s[k + i + 1] /\ k + i \in 1 .. l - 1
    BY <1>1, <1>2
  <2> QED
    BY <2>1 DEF Packed
<1>6. ASSUME NEW i \in 1 .. Len(u), NEW j \in 1 .. Len(u), i < j,
             \A m \in i .. j - 1 : ~u[m].last
      PROVE  Before(u[i], u[j])
  <2>1. /\ u[i] = s[k + i] /\ u[j] = s[k + j]
        /\ k + i \in 1 .. l /\ k + j \in 1 .. l /\ k + i < k + j
    BY <1>1, <1>2, <1>6
  <2> DEFINE a == k + i
             b == k + j
  <2>2. ASSUME NEW m \in a .. b - 1  PROVE ~s[m].last
    <3>1. m - k \in i .. j - 1 /\ m - k \in 1 .. l - k /\ k + (m - k) = m
      BY <1>1, <1>2
    <3>2. u[m - k] = s[m]
      BY <1>2, <3>1
    <3> QED
      BY <1>6, <3>1, <3>2
  <2>3. a \in 1 .. l /\ b \in 1 .. l /\ a < b /\ \A m \in a .. b - 1 : ~s[m].last
    BY <2>1, <2>2
  <2>4. u[i] = s[a] /\ u[j] = s[b]
    BY <2>1
  <2> HIDE DEF a, b
  <2> QED
    BY <2>3, <2>4 DEF Packed
<1> QED
  BY <1>3, <1>4, <1>5, <1>6 DEF Packed, u

LEMMA PackedConcat ==
  ASSUME NEW s \in Seq(Frames), NEW t \in Seq(Frames), Packed(s), Packed(t)
  PROVE  Packed(s \o t)
<1> DEFINE u == s \o t
           l == Len(s)
<1>1. l \in Nat /\ Len(t) \in Nat
  BY LenProperties
<1>2. /\ Len(u) = l + Len(t)
      /\ \A i \in 1 .. Len(u) : u[i] = IF i <= l THEN s[i] ELSE t[i - l]
  BY ConcatProperties
<1> HIDE DEF u
<1>3. ASSUME NEW i \in 1 .. Len(u)  PROVE Sound(u[i])
  <2>1. CASE i <= l
    BY <1>1, <1>2, <2>1 DEF Packed
  <2>2. CASE i > l
    <3>1. u[i] = t[i - l] /\ i - l \in 1 .. Len(t)
      BY <1>1, <1>2, <2>2
    <3> QED
      BY <3>1 DEF Packed
  <2> QED
    BY <1>1, <2>1, <2>2
<1>4. Len(u) > 0 => u[1].at = 0 /\ u[Len(u)].last
  <2> SUFFICES ASSUME Len(u) > 0 PROVE u[1].at = 0 /\ u[Len(u)].last
    OBVIOUS
  <2>1. u[1].at = 0
    <3>1. CASE l > 0
      BY <1>1, <1>2, <3>1 DEF Packed
    <3>2. CASE l = 0
      BY <1>1, <1>2, <3>2 DEF Packed
    <3> QED
      BY <1>1, <3>1, <3>2
  <2>2. u[Len(u)].last
    <3>1. CASE Len(t) > 0
      <4>1. u[Len(u)] = t[Len(t)]
        BY <1>1, <1>2, <3>1
      <4> QED
        BY <3>1, <4>1 DEF Packed
    <3>2. CASE Len(t) = 0
      <4>1. u[Len(u)] = s[l] /\ l > 0
        BY <1>1, <1>2, <3>2
      <4> QED
        BY <4>1 DEF Packed
    <3> QED
      BY <1>1, <3>1, <3>2
  <2> QED
    BY <2>1, <2>2
<1>5. ASSUME NEW i \in 1 .. Len(u) - 1
      PROVE  IF u[i].last THEN u[i + 1].at = 0
             ELSE u[i + 1].whole => u[i + 1].at = u[i].at + Size(u[i])
  <2>1. CASE i < l
    <3>1. u[i] = s[i] /\ u[i + 1] = s[i + 1] /\ i \in 1 .. l - 1
      BY <1>1, <1>2, <2>1
    <3> QED
      BY <3>1 DEF Packed
  <2>2. CASE i = l
    <3>1. u[i] = s[l] /\ u[i + 1] = t[1] /\ Len(t) > 0 /\ l > 0
      BY <1>1, <1>2, <2>2
    <3> QED
      BY <3>1 DEF Packed
  <2>3. CASE i > l
    <3>1. /\ u[i] = t[i - l] /\ u[i + 1] = t[(i - l) + 1]
          /\ i - l \in 1 .. Len(t) - 1
      BY <1>1, <1>2, <2>3
    <3> QED
      BY <3>1 DEF Packed
  <2> QED
    BY <1>1, <2>1, <2>2, <2>3
<1>6. ASSUME NEW i \in 1 .. Len(u), NEW j \in 1 .. Len(u), i < j,
             \A m \in i .. j - 1 : ~u[m].last
      PROVE  Before(u[i], u[j])
  <2>1. CASE j <= l
    <3>1. u[i] = s[i] /\ u[j] = s[j] /\ i \in 1 .. l /\ j \in 1 .. l
      BY <1>1, <1>2, <1>6, <2>1
    <3>2. \A m \in i .. j - 1 : ~s[m].last
      BY <1>1, <1>2, <1>6, <2>1
    <3>3. \A a, b \in 1 .. l : a < b /\ (\A m \in a .. b - 1 : ~s[m].last) =>
            Before(s[a], s[b])
      BY DEF Packed
    <3>4. Before(s[i], s[j])
      BY <1>6, <3>1, <3>2, <3>3
    <3> QED
      BY <3>1, <3>4
  <2>2. CASE i > l
    <3>1. /\ u[i] = t[i - l] /\ u[j] = t[j - l] /\ i - l < j - l
          /\ i - l \in 1 .. Len(t) /\ j - l \in 1 .. Len(t)
      BY <1>1, <1>2, <1>6, <2>2
    <3>2. ASSUME NEW m \in i - l .. j - l - 1  PROVE ~t[m].last
      <4>1. m + l \in i .. j - 1 /\ m + l \in 1 .. Len(u) /\ m + l > l /\ (m + l) - l = m
        BY <1>1, <1>2, <2>2
      <4>2. u[m + l] = t[m]
        BY <1>1, <1>2, <4>1
      <4> QED
        BY <1>6, <4>1, <4>2
    <3> DEFINE a == i - l
               b == j - l
    <3>3. a \in 1 .. Len(t) /\ b \in 1 .. Len(t) /\ a < b /\ \A m \in a .. b - 1 : ~t[m].last
      BY <3>1, <3>2
    <3>4. u[i] = t[a] /\ u[j] = t[b]
      BY <3>1
    <3> HIDE DEF a, b
    <3> QED
      BY <3>3, <3>4 DEF Packed
  <2>3. CASE i <= l /\ j > l
    <3>1. l \in i .. j - 1 /\ l \in 1 .. Len(u) /\ l > 0
      BY <1>1, <1>2, <2>3
    <3>2. u[l] = s[l] /\ s[l].last
      BY <1>1, <1>2, <3>1 DEF Packed
    <3> QED
      BY <1>6, <3>1, <3>2
  <2> QED
    BY <1>1, <2>1, <2>2, <2>3
<1> QED
  BY <1>3, <1>4, <1>5, <1>6 DEF Packed, u

LEMMA PackedNumbered ==
  ASSUME SeqType, NEW p \in Packets
  PROVE  Packed(Numbered(p))
<1> DEFINE u == Numbered(p)
           l == Len(p.frames)
<1>1. /\ Len(u) = l /\ l \in Nat /\ l > 0 /\ u[1].at = 0
      /\ \A i \in 1 .. l :
           Sound(u[i]) /\ (u[i].last <=> i = l)
      /\ \A i, j \in 1 .. l : i < j => Before(u[i], u[j])
      /\ \A i \in 1 .. l - 1 : u[i + 1].whole => u[i + 1].at = u[i].at + Size(u[i])
  BY NewFrames
<1> HIDE DEF u, l
<1>2. Len(u) > 0 => u[1].at = 0 /\ u[Len(u)].last
  BY <1>1
<1>3. ASSUME NEW i \in 1 .. Len(u) - 1
      PROVE  IF u[i].last THEN u[i + 1].at = 0
             ELSE u[i + 1].whole => u[i + 1].at = u[i].at + Size(u[i])
  BY <1>1
<1> QED
  BY <1>1, <1>2, <1>3 DEF Packed, u

LEMMA PackedRest ==
  ASSUME NEW r \in Frames, IsRest(r)
  PROVE  Packed(<<r>>) /\ <<r>> \in Seq(Frames)
<1>1. Len(<<r>>) = 1 /\ <<r>>[1] = r /\ <<r>> \in Seq(Frames)
  OBVIOUS
<1> QED
  BY <1>1 DEF Packed, IsRest

(* The FIFO holds packets, whatever is sent, fetched, left over or lost. *)
LEMMA FifoStep ==
  ASSUME TypeOK, SeqType, FifoInv, [Next]_vars
  PROVE  fifo' \in Seq(Frames) /\ FifoInv'
<1> SUFFICES fifo' \in Seq(Frames) /\ Packed(fifo')
  BY DEF FifoInv
<1>1. fifo \in Seq(Frames) /\ Packed(fifo)
  BY DEF SeqType, FifoInv
<1>2. ASSUME UNCHANGED fifo  PROVE fifo' \in Seq(Frames) /\ Packed(fifo')
  BY <1>1, <1>2
<1>3. CASE StoreDevice
  <2>1. fifo' = <<>> /\ Len(<<>>) = 0 /\ <<>> \in Seq(Frames)
    BY <1>3 DEF StoreDevice
  <2> QED
    BY <2>1 DEF Packed
<1>4. ASSUME NEW p \in Packets, ChipSends(p)  PROVE fifo' \in Seq(Frames) /\ Packed(fifo')
  <2>1. fifo' = fifo \o Numbered(p)
    BY <1>4 DEF ChipSends
  <2>2. Numbered(p) \in Seq(Frames)
    BY NewFrames
  <2> QED
    BY <1>1, <2>1, <2>2, PackedNumbered, PackedConcat, ConcatProperties
<1>5. ASSUME NEW t \in Threads, RecvFails(t)  PROVE fifo' \in Seq(Frames) /\ Packed(fifo')
  <2>1. CASE UNCHANGED fifo
    BY <1>2, <2>1
  <2>2. ASSUME NEW k \in 1 .. Len(fifo), FirstPacket(k), fifo' = SubSeq(fifo, k + 1, Len(fifo))
        PROVE  fifo' \in Seq(Frames) /\ Packed(fifo')
    BY <1>1, <2>2, PackedSuffix, CutOff DEF FirstPacket
  <2> QED
    BY <1>5, <2>1, <2>2 DEF RecvFails
<1>6. ASSUME NEW t \in Threads, RecvPkt(t)  PROVE fifo' \in Seq(Frames) /\ Packed(fifo')
  <2>1. PICK k \in 1 .. Len(fifo) : Fetches(k)
    BY <1>6, RecvDoes
  <2> DEFINE u == SubSeq(fifo, k + 1, Len(fifo))
  <2>2. u \in Seq(Frames) /\ Packed(u)
    BY <1>1, <2>1, PackedSuffix, CutOff DEF Fetches, FirstPacket
  <2>3. fifo' = u \/ \E r \in Frames : IsRest(r) /\ fifo' = <<r>> \o u
    BY <2>1 DEF Fetches
  <2> HIDE DEF u
  <2>4. ASSUME NEW r \in Frames, IsRest(r), fifo' = <<r>> \o u
        PROVE  fifo' \in Seq(Frames) /\ Packed(fifo')
    BY <2>2, <2>4, PackedRest, PackedConcat, ConcatProperties
  <2> QED
    BY <2>2, <2>3, <2>4
<1>7. CASE Register \/ (\E t \in Pollers : PollOnce(t)) \/ StoreMgr \/ StartBusrx
           \/ ExitStop \/ ExitDevice \/ ExitMgr
  BY <1>2, <1>7 DEF Register, PollOnce, StoreMgr, StartBusrx, ExitStop, ExitDevice,
    ExitMgr, chipVars
<1>8. ASSUME NEW t \in Threads,
             \/ LockCmd(t) \/ LockSdio(t) \/ RecvNothing(t) \/ RecvAgain(t)
             \/ AgainOver(t) \/ BusrxLoop
      PROVE  UNCHANGED fifo
  BY <1>8 DEF LockCmd, LockSdio, RecvNothing, RecvAgain, AgainOver, BusrxLoop, chipVars
<1>9. ASSUME NEW t \in Threads, Parsed(t)  PROVE UNCHANGED fifo
  BY <1>9, ParsedDoes DEF chipVars
<1>10. CASE UNCHANGED vars
  BY <1>2, <1>10 DEF vars, chipVars
<1>11. ASSUME NEW t \in Threads, Step(t)  PROVE fifo' \in Seq(Frames) /\ Packed(fifo')
  BY <1>2, <1>5, <1>6, <1>8, <1>9, <1>11 DEF Step, Parsed
<1> QED
  BY <1>3, <1>4, <1>7, <1>10, <1>11 DEF Next, Life

-----------------------------------------------------------------------------
(* The packet in the buffer *)

(* A whole frame is parsed as what it is. *)
LEMMA WholeFits ==
  ASSUME SeqType, BufInv, buf # <<>>, f0.whole
  PROVE  ~astray /\ f0.type # "junk" /\ (DataFits \/ RspFits)
<1>1. f0 = buf[1] /\ f0 \in Frames /\ 1 \in 1 .. Len(buf)
  BY HeadFacts, SeqFacts
<1>2. Sound(f0) /\ f0.at + Size(f0) <= n /\ ~astray /\ off = f0.at
  BY <1>1 DEF BufInv
<1>3. /\ f0.type = "data" \/ (f0.type = "rsp" /\ f0.plen <= 256)
      /\ off + Size(f0) <= n
  BY <1>2 DEF Sound, Known
<1> QED
  BY <1>2, <1>3 DEF DataFits, RspFits

(* Behind a frame that is not whole none is. *)
LEMMA NoneWhole ==
  ASSUME SeqType, BufInv, NEW i \in 1 .. Len(buf), NEW j \in 1 .. Len(buf),
         i <= j, ~buf[i].whole
  PROVE  ~buf[j].whole
<1>1. i = j \/ i < j
  BY SeqFacts
<1> QED
  BY <1>1 DEF BufInv, Before

(* Of s the first k frames are passed over. *)
Passes(s, k) ==
  /\ buf' \in Seq(Frames) /\ Len(buf') = Len(s) - k
  /\ \A i \in 1 .. Len(buf') : buf'[i] = s[i + k]
  /\ astray' \in BOOLEAN /\ (astray' => buf' # <<>>)

(* None of them where a frame begins at the new offset. *)
LEMMA LandDoes ==
  ASSUME NEW s \in Seq(Frames), NEW to \in Nat, Land(s, to),
         \A i, j \in 1 .. Len(s) : i < j => s[i].at < s[j].at
  PROVE  \E k \in 0 .. Len(s) :
           Passes(s, k) /\ (Len(s) > 0 /\ s[1].at = to => k = 0 /\ ~astray')
<1>1. Len(s) \in Nat /\ DOMAIN s = 1 .. Len(s) /\ \A i \in 1 .. Len(s) : s[i] \in Frames
  BY LenProperties, ElementOfSeq
<1>2. CASE \E j \in DOMAIN s : s[j].at = to
  <2>1. PICK j \in 1 .. Len(s) : s[j].at = to /\ buf' = SubSeq(s, j, Len(s))
    BY <1>1, <1>2 DEF Land
  <2>2. astray' = FALSE
    BY <1>2 DEF Land
  <2>3. /\ buf' \in Seq(Frames) /\ Len(buf') = Len(s) - j + 1
        /\ \A i \in 1 .. Len(buf') : buf'[i] = s[j + i - 1]
    <3>1. \A i \in j .. Len(s) : s[i] \in Frames
      BY <1>1
    <3>2. /\ buf' \in Seq(Frames)
          /\ Len(buf') = IF j <= Len(s) THEN Len(s) - j + 1 ELSE 0
          /\ \A i \in 1 .. Len(s) - j + 1 : buf'[i] = s[j + i - 1]
      BY <1>1, <2>1, <3>1, SubSeqProperties
    <3>3. j <= Len(s)
      BY <1>1
    <3> QED
      BY <3>2, <3>3
  <2> DEFINE k == j - 1
  <2>4. k \in 0 .. Len(s) /\ Len(buf') = Len(s) - k
    BY <1>1, <2>3
  <2>5. ASSUME NEW i \in 1 .. Len(buf')  PROVE buf'[i] = s[i + k]
    <3>1. i + k = j + i - 1
      BY <1>1, <2>3
    <3> QED
      BY <2>3, <3>1
  <2>6. ASSUME Len(s) > 0, s[1].at = to  PROVE k = 0
    <3>1. 1 \in 1 .. Len(s) /\ s[1].at \in Nat /\ ~(s[1].at < s[j].at)
      BY <1>1, <2>1, <2>6, FrameFacts
    <3>2. ~(1 < j)
      BY <3>1
    <3> QED
      BY <1>1, <3>2
  <2>7. Passes(s, k)
    BY <2>2, <2>3, <2>4, <2>5 DEF Passes
  <2> HIDE DEF k
  <2> QED
    BY <2>2, <2>4, <2>6, <2>7
<1>3. CASE ~(\E j \in DOMAIN s : s[j].at = to)
  <2>1. buf' = s /\ astray' = (s # <<>>)
    BY <1>3 DEF Land
  <2>2. Passes(s, 0)
    <3>1. Len(s) = Len(s) - 0 /\ \A i \in 1 .. Len(s) : i + 0 = i
      BY <1>1
    <3>2. astray' \in BOOLEAN
      BY <2>1
    <3> QED
      BY <2>1, <3>1, <3>2 DEF Passes
  <2>3. ~(Len(s) > 0 /\ s[1].at = to)
    BY <1>1, <1>3
  <2>4. 0 \in 0 .. Len(s)
    BY <1>1
  <2> QED
    BY <2>2, <2>3, <2>4
<1> QED
  BY <1>2, <1>3

(* Something nobody sent is made of a frame that is not whole. *)
Strays(t) ==
  /\ buf # <<>> /\ ~f0.whole
  /\ given' = Append(given, 0) \/ given' = Append(given, -1)
  /\ seen' = seen \/ seen' = Append(seen, 0)
  /\ \E to \in Nat : to <= n /\ Land(buf, to)
  /\ UNCHANGED n

(* The frame at the parser's position is handed over. *)
HandsOver(t) ==
  /\ buf # <<>> /\ f0.type # "junk" /\ off + Size(f0) <= n
  /\ Take(Size(f0))
  /\ \/ f0.type = "data" /\ UNCHANGED seen
     \/ f0.type = "rsp" /\ seen' = IF Handled(f0) THEN Append(seen, f0.n) ELSE seen
  /\ UNCHANGED n

(* What is left of the packet is not whole, or nothing is left. *)
GivesUp(t) ==
  /\ Done(t)
  /\ buf # <<>> => ~f0.whole
  /\ UNCHANGED <<given, seen>>

(* Behind the last frame the padding is handed over. *)
Zeros(k) == [i \in 1 .. k |-> 0]

HandsPadding(t) ==
  /\ Done(t) /\ buf = <<>>
  /\ \E k \in Nat : given' = given \o Zeros(k)
  /\ UNCHANGED seen

LEMMA ParseDoes ==
  ASSUME TypeOK, SeqType, BufInv, NEW t \in Threads, Parsed(t)
  PROVE  HandsOver(t) \/ Strays(t) \/ GivesUp(t) \/ HandsPadding(t)
<1>1. n \in Nat /\ off \in Nat /\ off <= n
  BY TypeParts, Constants DEF ParseType
<1>2. buf # <<>> => f0 \in Frames
  BY HeadFacts
<1>3. CASE ParseData(t) \/ ParseRsp(t)
  BY <1>3 DEF ParseData, ParseRsp, Parsing, DataFits, RspFits, HandsOver
<1>4. CASE ParseAlt(t)
  <2>1. buf # <<>> /\ ~f0.whole
    BY <1>2, <1>4, WholeFits, FrameFacts DEF ParseAlt, Parsing
  <2>2. Land(buf, off + 8 + f0.alt) /\ f0.alt \in Nat /\ off + 8 + f0.alt <= n
    BY <1>2, <1>4, <2>1, FrameFacts DEF ParseAlt, AltFits
  <2>3. off + 8 + f0.alt \in Nat
    BY <1>1, <2>2
  <2>4. MakeUp /\ UNCHANGED n
    BY <1>4 DEF ParseAlt
  <2> QED
    BY <2>1, <2>2, <2>3, <2>4 DEF MakeUp, Strays
<1>5. CASE ParseStop(t)
  <2>1. buf # <<>> /\ ~f0.whole
    BY <1>2, <1>5, WholeFits, FrameFacts DEF ParseStop, Parsing
  <2> QED
    BY <1>5, <2>1 DEF ParseStop, GivesUp, outVars
<1>6. CASE ParseAstray(t)
  <2>1. buf # <<>> /\ ~f0.whole
    BY <1>2, <1>6, WholeFits, FrameFacts DEF ParseAstray, BufInv
  <2>2. ASSUME NEW size \in StraySizes,
               /\ off + 16 <= n /\ off + size <= n /\ stray < MaxStray
               /\ stray' = stray + 1
               /\ \/ MakeUp
                  \/ /\ size >= EmptySize
                     /\ given' = Append(given, 0)
                     /\ UNCHANGED seen
               /\ Land(buf, off + size)
               /\ UNCHANGED <<cmdLock, sdioLock, pc, n>>
        PROVE  Strays(t)
    <3>1. off + size \in Nat
      BY <1>1, Constants
    <3>2. /\ given' = Append(given, 0) \/ given' = Append(given, -1)
          /\ seen' = seen \/ seen' = Append(seen, 0)
      BY <2>2 DEF MakeUp
    <3> QED
      BY <2>1, <2>2, <3>1, <3>2 DEF Strays
  <2>3. CASE Done(t) /\ UNCHANGED <<stray, given, seen>>
    BY <2>1, <2>3 DEF GivesUp
  <2> QED
    BY <1>6, <2>2, <2>3 DEF ParseAstray
<1>7. CASE ParsePadding(t)
  <2> DEFINE k == (n - off) \div EmptySize
  <2>1. EmptySize = 63
    BY DEF EmptySize, RoundUp, HwHeader
  <2>2. k \in Nat
    BY <1>1, <2>1
  <2>3. given' = given \o Zeros(k)
    BY <1>7 DEF ParsePadding, Zeros
  <2> HIDE DEF k
  <2> QED
    BY <1>7, <2>2, <2>3 DEF ParsePadding, HandsPadding
<1> QED
  BY <1>3, <1>4, <1>5, <1>6, <1>7 DEF Parsed

(* What is said of the frames in the buffer holds of those that stay. *)
LEMMA Shifted ==
  ASSUME SeqType, BufInv, NEW m \in 0 .. Len(buf), Len(buf') \in Nat,
         Len(buf') = Len(buf) - m, \A i \in 1 .. Len(buf') : buf'[i] = buf[i + m],
         UNCHANGED n
  PROVE  /\ \A i \in 1 .. Len(buf') : Sound(buf'[i])
         /\ \A i, j \in 1 .. Len(buf') : i < j => Before(buf'[i], buf'[j])
         /\ \A i \in 1 .. Len(buf') - 1 :
              buf'[i + 1].whole => buf'[i + 1].at = buf'[i].at + Size(buf'[i])
         /\ \A i \in 1 .. Len(buf') : buf'[i].whole => buf'[i].at + Size(buf'[i]) <= n'
<1>1. \A i \in 1 .. Len(buf') : i + m \in 1 .. Len(buf) /\ buf'[i] = buf[i + m]
  BY SeqFacts
<1>2. /\ \A i \in 1 .. Len(buf') : Sound(buf'[i])
      /\ \A i \in 1 .. Len(buf') : buf'[i].whole => buf'[i].at + Size(buf'[i]) <= n'
  BY <1>1 DEF BufInv
<1>3. ASSUME NEW i \in 1 .. Len(buf'), NEW j \in 1 .. Len(buf'), i < j
      PROVE  Before(buf'[i], buf'[j])
  <2>1. i + m < j + m
    BY <1>3
  <2> QED
    BY <1>1, <2>1 DEF BufInv
<1>4. ASSUME NEW i \in 1 .. Len(buf') - 1, buf'[i + 1].whole
      PROVE  buf'[i + 1].at = buf'[i].at + Size(buf'[i])
  <2>1. /\ i + m \in 1 .. Len(buf) - 1
        /\ buf'[i] = buf[i + m] /\ buf'[i + 1] = buf[(i + m) + 1]
    <3>1. i \in 1 .. Len(buf') /\ i + 1 \in 1 .. Len(buf') /\ (i + 1) + m = (i + m) + 1
      OBVIOUS
    <3>2. i + m \in 1 .. Len(buf) - 1
      BY SeqFacts
    <3>3. buf'[i] = buf[i + m]
      BY <1>1, <3>1
    <3>4. buf'[i + 1] = buf[(i + 1) + m]
      BY <1>1, <3>1
    <3>5. buf'[i + 1] = buf[(i + m) + 1]
      BY <3>1, <3>4, Zenon
    <3> QED
      BY <3>2, <3>3, <3>5, Zenon
  <2> QED
    BY <1>4, <2>1 DEF BufInv
<1> QED
  BY <1>2, <1>3, <1>4

LEMMA BufStep ==
  ASSUME TypeOK, SeqType, LockInv, FifoInv, BufInv, [Next]_vars
  PROVE  buf' \in Seq(Frames) /\ ParseType' /\ BufInv'
<1> DEFINE Goal == buf' \in Seq(Frames) /\ ParseType' /\ BufInv'
<1>1. buf \in Seq(Frames) /\ ParseType /\ n \in Nat /\ off \in Nat
  BY TypeParts, Constants DEF SeqType, ParseType
<1>2. ASSUME UNCHANGED parseVars  PROVE Goal
  BY <1>1, <1>2 DEF parseVars, ParseType, BufInv
<1>3. ASSUME NEW t \in Threads, Done(t)  PROVE Goal
  <2>1. buf' = <<>> /\ n' = 0 /\ off' = 0 /\ astray' = FALSE
    BY <1>3 DEF Done
  <2>2. <<>> \in Seq(Frames) /\ Len(<<>>) = 0
    OBVIOUS
  <2>3. BufInv'
    BY <2>1, <2>2 DEF BufInv
  <2>4. 0 \in 0 .. BufSize /\ 0 \in 0 .. 0
    BY Constants
  <2>5. ParseType'
    BY <2>1, <2>4 DEF ParseType
  <2> QED
    BY <2>1, <2>2, <2>3, <2>5
<1>4. ASSUME NEW t \in Threads, RecvPkt(t)  PROVE Goal
  <2>1. PICK k \in 1 .. Len(fifo) : Fetches(k)
    BY <1>4, RecvDoes
  <2>2. /\ buf' \in Seq(Frames) /\ Len(buf') = k /\ k \in Nat
        /\ \A i \in 1 .. k : buf'[i] = fifo[i]
    BY <2>1, CutOff, SeqFacts DEF Fetches
  <2>3. ParseType'
    <3>1. n' \in Nat /\ n' <= BufSize /\ off' = 0 /\ astray' = FALSE
      BY <2>1 DEF Fetches
    <3>2. n' \in 0 .. BufSize /\ off' \in 0 .. n'
      BY <3>1, Constants
    <3>3. astray' \in BOOLEAN
      BY <3>1
    <3> QED
      BY <3>2, <3>3 DEF ParseType
  <2>4. \A i \in 1 .. k : fifo[i] \in Frames /\ Sound(fifo[i])
    BY SeqFacts DEF FifoInv, Packed
  <2>5. ASSUME NEW i \in 1 .. k, NEW j \in 1 .. k, i < j
        PROVE  Before(fifo[i], fifo[j])
    <3>1. i \in 1 .. Len(fifo) /\ j \in 1 .. Len(fifo)
      BY SeqFacts
    <3>2. \A m \in i .. j - 1 : ~fifo[m].last
      BY <2>1 DEF Fetches, FirstPacket
    <3> QED
      BY <2>5, <3>1, <3>2 DEF FifoInv, Packed
  <2>6. ASSUME NEW i \in 1 .. k - 1, fifo[i + 1].whole
        PROVE  fifo[i + 1].at = fifo[i].at + Size(fifo[i])
    <3>1. i \in 1 .. Len(fifo) - 1
      BY SeqFacts
    <3>2. ~fifo[i].last
      BY <2>1 DEF Fetches, FirstPacket
    <3> QED
      BY <2>6, <3>1, <3>2 DEF FifoInv, Packed
  <2>7. ASSUME NEW i \in 1 .. k, fifo[i].whole  PROVE fifo[i].at + Size(fifo[i]) <= n'
    <3>1. fifo[i].dlen = fifo[1].dlen
      <4>1. i = 1 \/ (1 < i /\ 1 \in 1 .. k)
        OBVIOUS
      <4> QED
        BY <2>5, <4>1 DEF Before
    <3>2. fifo[i].at + Size(fifo[i]) <= fifo[i].dlen /\ fifo[i].at + Size(fifo[i]) <= BufSize
      BY <2>4, <2>7 DEF Sound
    <3>3. n' = fifo[1].dlen \/ n' = BufSize
      BY <1>4, SeqFacts, HeadTailProperties DEF RecvPkt, SeqType
    <3> QED
      BY <3>1, <3>2, <3>3
  <2>8. ~astray' /\ off' = 0 /\ fifo[1].at = 0
    BY <2>1, SeqFacts DEF Fetches, FifoInv, Packed
  <2>9. /\ \A i \in 1 .. Len(buf') : Sound(buf'[i])
        /\ \A i, j \in 1 .. Len(buf') : i < j => Before(buf'[i], buf'[j])
        /\ \A i \in 1 .. Len(buf') : buf'[i].whole => buf'[i].at + Size(buf'[i]) <= n'
    BY <2>2, <2>4, <2>5, <2>7
  <2>10. \A i \in 1 .. Len(buf') - 1 :
           buf'[i + 1].whole => buf'[i + 1].at = buf'[i].at + Size(buf'[i])
    BY <2>2, <2>6
  <2>11. ~astray' /\ off' = buf'[1].at
    BY <2>2, <2>8
  <2>12. BufInv'
    BY <2>9, <2>10, <2>11 DEF BufInv
  <2> QED
    BY <2>2, <2>3, <2>12
<1>5. ASSUME NEW t \in Threads, HandsOver(t)  PROVE Goal
  <2>1. /\ Len(buf) > 0 /\ f0 = buf[1] /\ f0 \in Frames /\ Len(buf) \in Nat
        /\ Tail(buf) \in Seq(Frames) /\ Len(Tail(buf)) = Len(buf) - 1
        /\ \A i \in 1 .. Len(Tail(buf)) : Tail(buf)[i] = buf[i + 1]
    BY <1>5, HeadFacts, SeqFacts DEF HandsOver
  <2> DEFINE to == off + Size(f0)
             s == Tail(buf)
  <2>2. Land(s, to) /\ UNCHANGED n /\ to <= n /\ to \in Nat
    BY <1>1, <1>5, <2>1, FrameFacts DEF HandsOver, Take
  <2>3. \A i, j \in 1 .. Len(s) : i < j => s[i].at < s[j].at
    <3> SUFFICES ASSUME NEW i \in 1 .. Len(s), NEW j \in 1 .. Len(s), i < j
                 PROVE  s[i].at < s[j].at
      OBVIOUS
    <3>1. /\ i + 1 \in 1 .. Len(buf) /\ j + 1 \in 1 .. Len(buf) /\ i + 1 < j + 1
          /\ s[i] = buf[i + 1] /\ s[j] = buf[j + 1]
      BY <2>1
    <3> QED
      BY <3>1 DEF BufInv, Before
  <2>4. PICK k \in 0 .. Len(s) :
          Passes(s, k) /\ (Len(s) > 0 /\ s[1].at = to => k = 0 /\ ~astray')
    <3> HIDE DEF s, to
    <3>1. s \in Seq(Frames)
      BY <2>1 DEF s
    <3> QED
      BY <2>2, <2>3, <3>1, LandDoes
  <2>5. /\ buf' \in Seq(Frames) /\ Len(buf') \in Nat /\ Len(buf') = Len(buf) - (k + 1)
        /\ k + 1 \in 0 .. Len(buf)
        /\ \A i \in 1 .. Len(buf') : i + k \in 1 .. Len(s) /\ buf'[i] = s[i + k]
    BY <2>1, <2>4 DEF Passes
  <2>6. ASSUME NEW i \in 1 .. Len(buf')  PROVE buf'[i] = buf[i + (k + 1)]
    <3>1. s[i + k] = buf[(i + k) + 1] /\ (i + k) + 1 = i + (k + 1)
      BY <2>1, <2>5
    <3> QED
      BY <2>5, <3>1
  <2>7. off' = to /\ astray' \in BOOLEAN /\ (astray' => buf' # <<>>)
    BY <2>2, <2>4 DEF Land, Passes
  <2>8. ParseType'
    <3> HIDE DEF to
    <3> QED
      BY <1>1, <2>2, <2>7 DEF ParseType
  <2>9. /\ \A i \in 1 .. Len(buf') : Sound(buf'[i])
        /\ \A i, j \in 1 .. Len(buf') : i < j => Before(buf'[i], buf'[j])
        /\ \A i \in 1 .. Len(buf') - 1 :
             buf'[i + 1].whole => buf'[i + 1].at = buf'[i].at + Size(buf'[i])
        /\ \A i \in 1 .. Len(buf') : buf'[i].whole => buf'[i].at + Size(buf'[i]) <= n'
    <3> DEFINE m == k + 1
    <3>1. m \in 0 .. Len(buf) /\ Len(buf') = Len(buf) - m
          /\ \A i \in 1 .. Len(buf') : buf'[i] = buf[i + m]
      BY <2>5, <2>6
    <3> HIDE DEF m
    <3> QED
      BY <2>2, <2>5, <3>1, Shifted
  <2>10. ASSUME buf' # <<>>, buf'[1].whole  PROVE ~astray' /\ off' = buf'[1].at
    <3>1. Len(buf') > 0
      BY <2>5, <2>10, EmptySeq
    <3>2. /\ buf'[1] = buf[k + 2] /\ k + 2 \in 1 .. Len(buf) /\ 2 \in 1 .. Len(buf)
          /\ 1 \in 1 .. Len(buf) - 1 /\ 1 \in 1 .. Len(buf) /\ 1 + 1 = 2 /\ Len(s) > 0
          /\ s[1] = buf[2]
      BY <2>1, <2>5, <2>6, <3>1
    <3>3. buf[2].whole /\ buf[1].whole
      <4>1. 2 <= k + 2 /\ 1 <= 2
        OBVIOUS
      <4> QED
        BY <2>10, <3>2, <4>1, NoneWhole
    <3>4. ~astray /\ off = buf[1].at /\ buf[2].at = buf[1].at + Size(buf[1])
      BY <1>5, <3>2, <3>3 DEF BufInv, HandsOver
    <3>5. s[1].at = to
      BY <2>1, <3>2, <3>4
    <3>6. k = 0 /\ ~astray'
      BY <2>4, <3>2, <3>5
    <3> QED
      BY <2>7, <3>2, <3>5, <3>6
  <2>11. BufInv'
    BY <2>7, <2>9, <2>10 DEF BufInv
  <2> QED
    BY <2>5, <2>8, <2>11
<1>6. ASSUME NEW t \in Threads, Strays(t)  PROVE Goal
  <2>1. PICK to \in Nat : to <= n /\ Land(buf, to)
    BY <1>6 DEF Strays
  <2>2. UNCHANGED n /\ ~buf[1].whole /\ Len(buf) > 0 /\ Len(buf) \in Nat
    BY <1>6, HeadFacts, SeqFacts DEF Strays
  <2>3. \A i, j \in 1 .. Len(buf) : i < j => buf[i].at < buf[j].at
    BY DEF BufInv, Before
  <2>4. PICK k \in 0 .. Len(buf) : Passes(buf, k)
    BY <1>1, <2>1, <2>3, LandDoes
  <2>5. /\ buf' \in Seq(Frames) /\ Len(buf') = Len(buf) - k /\ Len(buf') \in Nat
        /\ \A i \in 1 .. Len(buf') : buf'[i] = buf[i + k]
        /\ off' = to /\ astray' \in BOOLEAN /\ (astray' => buf' # <<>>)
    BY <2>1, <2>2, <2>4 DEF Passes, Land
  <2>6. ParseType'
    BY <1>1, <2>1, <2>2, <2>5 DEF ParseType
  <2>7. /\ \A i \in 1 .. Len(buf') : Sound(buf'[i])
        /\ \A i, j \in 1 .. Len(buf') : i < j => Before(buf'[i], buf'[j])
        /\ \A i \in 1 .. Len(buf') - 1 :
             buf'[i + 1].whole => buf'[i + 1].at = buf'[i].at + Size(buf'[i])
        /\ \A i \in 1 .. Len(buf') : buf'[i].whole => buf'[i].at + Size(buf'[i]) <= n'
    BY <2>2, <2>5, Shifted
  <2>8. ASSUME buf' # <<>>  PROVE ~buf'[1].whole
    <3>1. Len(buf') > 0
      BY <2>5, <2>8, EmptySeq
    <3>2. buf'[1] = buf[1 + k] /\ 1 + k \in 1 .. Len(buf) /\ 1 \in 1 .. Len(buf) /\ 1 <= 1 + k
      BY <2>2, <2>5, <3>1
    <3> QED
      BY <2>2, <3>2, NoneWhole
  <2>9. BufInv'
    BY <2>5, <2>7, <2>8 DEF BufInv
  <2> QED
    BY <2>5, <2>6, <2>9
<1>7. ASSUME NEW t \in Threads, Parsed(t)  PROVE Goal
  BY <1>3, <1>5, <1>6, <1>7, ParseDoes DEF GivesUp, HandsPadding
<1>8. CASE Register \/ (\E t \in Pollers : PollOnce(t)) \/ (\E p \in Packets : ChipSends(p))
           \/ Life
  BY <1>2, <1>8 DEF Register, PollOnce, ChipSends, Life, StoreDevice, StoreMgr, StartBusrx,
    ExitStop, ExitDevice, ExitMgr
<1>9. ASSUME NEW t \in Threads,
             LockCmd(t) \/ LockSdio(t) \/ RecvAgain(t) \/ AgainOver(t) \/ BusrxLoop
      PROVE  UNCHANGED parseVars
  BY <1>9 DEF LockCmd, LockSdio, RecvAgain, AgainOver, BusrxLoop
<1>10. ASSUME NEW t \in Threads, RecvNothing(t) \/ RecvFails(t)  PROVE Done(t)
  BY <1>10 DEF RecvNothing, RecvFails
<1>11. CASE UNCHANGED vars
  BY <1>2, <1>11 DEF vars
<1>12. ASSUME NEW t \in Threads, Step(t)  PROVE Goal
  <2> HIDE DEF Goal
  <2> QED
    BY <1>2, <1>3, <1>4, <1>7, <1>9, <1>10, <1>12 DEF Step, Parsed
<1> QED
  BY <1>8, <1>11, <1>12 DEF Next

-----------------------------------------------------------------------------
(* Every step, seen from the frames on their way *)

(* The first k frames are gone. *)
Drops(k) ==
  /\ Len(Chan') = Len(Chan) - k
  /\ \A j \in 1 .. Len(Chan') : Chan'[j] = Chan[j + k]

(* Behind the first k frames there is a rest. *)
Leaves(k) ==
  /\ Len(Chan') = Len(Chan) + 1
  /\ \A j \in 1 .. k : Chan'[j] = Chan[j]
  /\ Chan'[k + 1].n = 0 /\ Chan'[k + 1].whole = FALSE
  /\ \A j \in k + 2 .. Len(Chan') : Chan'[j] = Chan[j - 1]

Stays == Chan' = Chan /\ UNCHANGED <<sent, bornAt, outVars, faults>>

Hooks ==
  /\ Chan' = Chan /\ hookedAt' = Len(sent)
  /\ UNCHANGED <<sent, bornAt, given, seen, faults>>

Empties == Chan' = <<>> /\ bornAt' = Len(sent) /\ UNCHANGED <<sent, outVars, faults>>

Adds(p) ==
  /\ Chan' = Chan \o Numbered(p) /\ sent' = sent \o Numbered(p)
  /\ UNCHANGED <<bornAt, outVars, faults>>

Delivers ==
  /\ Len(Chan) > 0 /\ Chan[1].n # 0
  /\ \E k \in 1 .. Len(Chan) : (\A i \in 2 .. k : ~Chan[i].whole) /\ Drops(k)
  /\ given' = Append(given, Chan[1].n)
  /\ \/ Chan[1].type = "data" /\ UNCHANGED seen
     \/ /\ Chan[1].type = "rsp"
        /\ seen' = IF Handled(Chan[1]) THEN Append(seen, Chan[1].n) ELSE seen
  /\ UNCHANGED <<sent, bornAt, hookedAt, faults>>

Loses ==
  /\ \E k \in 0 .. Len(Chan) : Drops(k)
  /\ faults' = faults + 1
  /\ UNCHANGED <<sent, bornAt, outVars>>

Mangles ==
  /\ Len(Chan) > 0 /\ ~Chan[1].whole
  /\ \E k \in 0 .. Len(Chan) : (\A i \in 1 .. k : ~Chan[i].whole) /\ Drops(k)
  /\ given' = given \/ given' = Append(given, 0) \/ given' = Append(given, -1)
  /\ seen' = seen \/ seen' = Append(seen, 0)
  /\ UNCHANGED <<sent, bornAt, hookedAt, faults>>

Splits ==
  /\ \E k \in 1 .. Len(Chan) : ~Chan[k].whole /\ Leaves(k)
  /\ UNCHANGED <<sent, bornAt, outVars, faults>>

Pads ==
  /\ Chan' = Chan
  /\ \E k \in Nat : given' = given \o Zeros(k)
  /\ UNCHANGED <<sent, bornAt, hookedAt, seen, faults>>

Moves ==
  \/ Stays \/ Hooks \/ Empties \/ (\E p \in Packets : Adds(p)) \/ Delivers
  \/ Loses \/ Mangles \/ Splits \/ Pads

(* While a thread fetches, no packet is being parsed. *)
LEMMA NothingParsed ==
  ASSUME LockInv, SeqType, sdioLock = "none" \/ \E t \in Threads : pc[t] = "recv"
  PROVE  buf = <<>> /\ Chan = fifo
<1>1. buf = <<>>
  BY Constants DEF LockInv
<1>2. <<>> \o fifo = fifo
  BY ConcatEmptySeq DEF SeqType
<1> QED
  BY <1>1, <1>2 DEF Chan

LEMMA Moving ==
  ASSUME TypeOK, SeqType, LockInv, FifoInv, BufInv, [Next]_vars
  PROVE  Moves /\ Chan' \in Seq(Frames)
<1>1. buf' \in Seq(Frames) /\ fifo' \in Seq(Frames)
  BY BufStep, FifoStep
<1>2. /\ Chan' = buf' \o fifo' /\ Chan' \in Seq(Frames)
      /\ Len(Chan') = Len(buf') + Len(fifo') /\ Len(buf') \in Nat /\ Len(fifo') \in Nat
      /\ \A i \in 1 .. Len(Chan') :
           Chan'[i] = IF i <= Len(buf') THEN buf'[i] ELSE fifo'[i - Len(buf')]
  BY <1>1, ConcatProperties, LenProperties DEF Chan
<1> SUFFICES Moves
  BY <1>2
<1>3. /\ Len(buf) \in Nat /\ Len(fifo) \in Nat /\ Len(Chan) = Len(buf) + Len(fifo)
      /\ \A i \in 1 .. Len(Chan) :
           Chan[i] = IF i <= Len(buf) THEN buf[i] ELSE fifo[i - Len(buf)]
  BY SeqFacts
<1>4. ASSUME UNCHANGED <<buf, fifo>>  PROVE Chan' = Chan
  BY <1>2, <1>4 DEF Chan
<1>5. CASE StoreDevice
  <2>1. buf = <<>> /\ UNCHANGED buf /\ fifo' = <<>>
    BY <1>5, NothingParsed DEF StoreDevice, parseVars
  <2>2. Len(buf') = 0 /\ Len(fifo') = 0
    BY <2>1
  <2>3. Chan' = <<>>
    BY <1>2, <2>2, EmptySeq
  <2> QED
    BY <1>2, <1>5, <2>3 DEF StoreDevice, Empties, Moves
<1>6. ASSUME NEW p \in Packets, ChipSends(p)  PROVE Moves
  <2>1. /\ UNCHANGED buf /\ fifo' = fifo \o Numbered(p) /\ sent' = sent \o Numbered(p)
        /\ UNCHANGED <<bornAt, outVars, faults>>
    BY <1>6 DEF ChipSends, parseVars
  <2>2. Numbered(p) \in Seq(Frames) /\ buf \in Seq(Frames) /\ fifo \in Seq(Frames)
    BY NewFrames DEF SeqType
  <2>3. Chan' = buf \o (fifo \o Numbered(p))
    BY <1>2, <2>1
  <2>4. Chan' = Chan \o Numbered(p)
    <3>1. (buf \o fifo) \o Numbered(p) = buf \o (fifo \o Numbered(p))
      BY <2>2, ConcatAssociative
    <3> QED
      BY <2>3, <3>1, Zenon DEF Chan
  <2> QED
    BY <2>1, <2>4 DEF Adds, Moves
<1>7. ASSUME NEW t \in Threads, RecvFails(t)  PROVE Moves
  <2>1. /\ buf = <<>> /\ Chan = fifo /\ buf' = <<>> /\ faults' = faults + 1
        /\ UNCHANGED <<sent, bornAt, outVars>>
    BY <1>7, NothingParsed DEF RecvFails, Done
  <2>2. Len(buf') = 0 /\ Len(fifo') = Len(Chan')
    BY <1>2, <2>1
  <2>3. CASE UNCHANGED fifo
    <3>1. Drops(0)
      BY <1>2, <1>3, <2>1, <2>2, <2>3 DEF Drops
    <3>2. 0 \in 0 .. Len(Chan)
      BY <1>3
    <3> QED
      BY <2>1, <3>1, <3>2 DEF Loses, Moves
  <2>4. ASSUME NEW k \in 1 .. Len(fifo), fifo' = SubSeq(fifo, k + 1, Len(fifo))
        PROVE  Moves
    <3>1. Len(fifo') = Len(fifo) - k /\ \A i \in 1 .. Len(fifo) - k : fifo'[i] = fifo[k + i]
      BY <2>4, CutOff
    <3>2. Drops(k)
      <4>1. Len(Chan') = Len(Chan) - k
        BY <2>1, <2>2, <3>1
      <4>2. ASSUME NEW j \in 1 .. Len(Chan')  PROVE Chan'[j] = Chan[j + k]
        <5>1. j \in 1 .. Len(fifo) - k /\ j + k = k + j
          BY <2>1, <4>1
        <5>2. Chan'[j] = fifo'[j]
          BY <1>2, <2>2
        <5> QED
          BY <2>1, <3>1, <5>1, <5>2
      <4> QED
        BY <4>1, <4>2 DEF Drops
    <3>3. k \in 0 .. Len(Chan)
      BY <2>1
    <3> QED
      BY <2>1, <3>2, <3>3 DEF Loses, Moves
  <2> QED
    BY <1>7, <2>3, <2>4 DEF RecvFails
<1>8. ASSUME NEW t \in Threads, RecvPkt(t)  PROVE Moves
  <2>1. PICK k \in 1 .. Len(fifo) : Fetches(k)
    BY <1>8, RecvDoes
  <2>2. buf = <<>> /\ Chan = fifo /\ UNCHANGED <<sent, bornAt, outVars, faults>>
    BY <1>8, NothingParsed DEF RecvPkt
  <2> DEFINE u == SubSeq(fifo, k + 1, Len(fifo))
  <2>3. /\ Len(buf') = k /\ \A i \in 1 .. k : buf'[i] = fifo[i]
        /\ u \in Seq(Frames) /\ Len(u) = Len(fifo) - k
        /\ \A i \in 1 .. Len(fifo) - k : u[i] = fifo[k + i]
    BY <2>1, CutOff DEF Fetches
  <2>4. \/ fifo' = u
        \/ fifo[1].dlen > BufSize /\ \E r \in Frames : IsRest(r) /\ fifo' = <<r>> \o u
    BY <2>1 DEF Fetches
  <2> HIDE DEF u
  <2>5. CASE fifo' = u
    <3>1. Len(Chan') = Len(Chan)
      <4>1. Len(fifo') = Len(fifo) - k /\ Len(Chan) = Len(fifo)
        BY <2>2, <2>3, <2>5
      <4>2. Len(Chan') = k + Len(fifo') /\ Len(fifo) \in Nat
        BY <1>2, <1>3, <2>3
      <4> QED
        BY <4>1, <4>2
    <3>2. ASSUME NEW i \in 1 .. Len(Chan')  PROVE Chan'[i] = Chan[i]
      <4>1. CASE i <= k
        BY <1>2, <1>3, <2>2, <2>3, <3>1, <4>1
      <4>2. CASE i > k
        <5>1. i - k \in 1 .. Len(fifo) - k /\ k + (i - k) = i /\ i \in 1 .. Len(Chan')
          BY <1>2, <1>3, <2>2, <2>3, <3>1, <4>2
        <5>2. Chan'[i] = fifo'[i - k]
          BY <1>2, <2>3, <4>2
        <5>3. fifo'[i - k] = fifo[i]
          BY <2>3, <2>5, <5>1
        <5> QED
          BY <2>2, <5>2, <5>3
      <4> QED
        BY <4>1, <4>2
    <3>3. Chan' = Chan
      BY <1>2, <3>1, <3>2, SeqFacts, SeqEqual
    <3> QED
      BY <2>2, <3>3 DEF Stays, Moves
  <2>6. ASSUME NEW r \in Frames, IsRest(r), fifo' = <<r>> \o u, fifo[1].dlen > BufSize
        PROVE  Moves
    <3>1. /\ Len(fifo') = Len(fifo) - k + 1 /\ fifo'[1] = r
          /\ \A i \in 2 .. Len(fifo) - k + 1 : fifo'[i] = fifo[k + i - 1]
      <4>1. <<r>> \in Seq(Frames) /\ Len(<<r>>) = 1 /\ <<r>>[1] = r
        OBVIOUS
      <4>2. /\ Len(fifo') = 1 + Len(u)
            /\ \A i \in 1 .. 1 + Len(u) : fifo'[i] = IF i <= 1 THEN <<r>>[i] ELSE u[i - 1]
        BY <2>3, <2>6, <4>1, ConcatProperties
      <4>3. ASSUME NEW i \in 2 .. Len(fifo) - k + 1  PROVE fifo'[i] = fifo[k + i - 1]
        <5>1. fifo'[i] = u[i - 1] /\ i - 1 \in 1 .. Len(fifo) - k /\ k + (i - 1) = k + i - 1
          BY <1>3, <2>3, <4>2
        <5> QED
          BY <2>3, <5>1
      <4> QED
        BY <1>3, <2>3, <4>1, <4>2, <4>3
    <3>2. Len(Chan') = Len(Chan) + 1 /\ k \in 1 .. Len(Chan)
      BY <1>2, <1>3, <2>2, <2>3, <3>1
    <3>3. \A j \in 1 .. k : Chan'[j] = Chan[j]
      BY <1>2, <1>3, <2>2, <2>3, <3>2
    <3>4. Chan'[k + 1] = r
      <4>1. k + 1 \in 1 .. Len(Chan') /\ ~(k + 1 <= Len(buf')) /\ (k + 1) - Len(buf') = 1
        BY <1>2, <1>3, <2>3, <3>2
      <4> QED
        BY <1>2, <3>1, <4>1
    <3>5. ASSUME NEW j \in k + 2 .. Len(Chan')  PROVE Chan'[j] = Chan[j - 1]
      <4>1. /\ j \in 1 .. Len(Chan') /\ ~(j <= Len(buf'))
            /\ j - Len(buf') \in 2 .. Len(fifo) - k + 1
            /\ k + (j - Len(buf')) - 1 = j - 1
        BY <1>2, <1>3, <2>2, <2>3, <3>1, <3>2
      <4>2. Chan'[j] = fifo'[j - Len(buf')]
        BY <1>2, <4>1
      <4>3. fifo'[j - Len(buf')] = fifo[j - 1]
        BY <3>1, <4>1
      <4> QED
        BY <2>2, <4>2, <4>3
    <3>6. r.n = 0 /\ r.whole = FALSE
      BY <2>6, FrameFacts DEF IsRest
    <3>7. Leaves(k)
      BY <3>2, <3>3, <3>4, <3>5, <3>6 DEF Leaves
    <3>8. ~Chan[k].whole
      <4>1. fifo[k].dlen = fifo[1].dlen /\ fifo[k].last
        <5>1. fifo[k].last /\ \A m \in 1 .. k - 1 : ~fifo[m].last
          BY <2>1 DEF Fetches, FirstPacket
        <5>2. 1 \in 1 .. Len(fifo) /\ (k = 1 \/ 1 < k)
          BY <1>3
        <5> QED
          BY <5>1, <5>2 DEF FifoInv, Packed, Before
      <4>2. Sound(fifo[k]) /\ fifo[k] \in Frames
        BY SeqFacts DEF FifoInv, Packed
      <4>3. fifo[k].dlen \in Nat /\ BufSize \in Nat
        BY <4>2, FrameFacts, Constants
      <4> QED
        BY <2>2, <2>6, <4>1, <4>2, <4>3 DEF Sound
    <3> QED
      BY <2>2, <3>2, <3>7, <3>8 DEF Splits, Moves
  <2> QED
    BY <2>4, <2>5, <2>6
<1>9. ASSUME NEW t \in Threads, Parsed(t)  PROVE Moves
  <2>1. UNCHANGED <<fifo, sent, bornAt, hookedAt, faults>>
    BY <1>9, ParsedDoes DEF chipVars
  <2>2. ASSUME NEW m \in 0 .. Len(buf), Len(buf') = Len(buf) - m,
               \A i \in 1 .. Len(buf') : buf'[i] = buf[i + m]
        PROVE  Drops(m)
    <3>1. Len(Chan') = Len(Chan) - m
      BY <1>2, <1>3, <2>1, <2>2
    <3>2. ASSUME NEW j \in 1 .. Len(Chan')  PROVE Chan'[j] = Chan[j + m]
      <4>1. j + m \in 1 .. Len(Chan)
        BY <1>2, <1>3, <3>1
      <4>2. CASE j <= Len(buf')
        <5>1. j \in 1 .. Len(buf') /\ j + m <= Len(buf)
          BY <1>2, <1>3, <2>2, <4>2
        <5> QED
          BY <1>2, <1>3, <2>2, <4>1, <4>2, <5>1
      <4>3. CASE ~(j <= Len(buf'))
        <5>1. ~(j + m <= Len(buf)) /\ (j + m) - Len(buf) = j - Len(buf')
          BY <1>2, <1>3, <2>2, <4>3
        <5> QED
          BY <1>2, <1>3, <2>1, <4>1, <4>3, <5>1
      <4> QED
        BY <4>2, <4>3
    <3> QED
      BY <3>1, <3>2 DEF Drops
  <2>3. \A i, j \in 1 .. Len(buf) : i < j => buf[i].at < buf[j].at
    BY DEF BufInv, Before
  <2>4. n \in Nat /\ off \in Nat
    BY TypeParts, Constants DEF ParseType
  <2>5. CASE HandsOver(t)
    <3> DEFINE to == off + Size(f0)
               s == Tail(buf)
    <3>1. /\ buf # <<>> /\ f0.type # "junk" /\ Land(s, to)
          /\ given' = Append(given, f0.n) /\ UNCHANGED n
      BY <2>5 DEF HandsOver, Take
    <3>2. /\ Len(buf) > 0 /\ f0 = buf[1] /\ f0 = Chan[1] /\ Len(Chan) > 0 /\ f0 \in Frames
          /\ s \in Seq(Frames) /\ Len(s) = Len(buf) - 1
          /\ \A i \in 1 .. Len(s) : s[i] = buf[i + 1]
      BY <3>1, HeadFacts
    <3>3. f0.n # 0
      BY <1>3, <3>1, <3>2 DEF BufInv, Sound
    <3>4. \A i, j \in 1 .. Len(s) : i < j => s[i].at < s[j].at
      <4> SUFFICES ASSUME NEW i \in 1 .. Len(s), NEW j \in 1 .. Len(s), i < j
                   PROVE  s[i].at < s[j].at
        OBVIOUS
      <4>1. /\ i + 1 \in 1 .. Len(buf) /\ j + 1 \in 1 .. Len(buf) /\ i + 1 < j + 1
            /\ s[i] = buf[i + 1] /\ s[j] = buf[j + 1]
        BY <1>3, <3>2
      <4> QED
        BY <2>3, <4>1
    <3>5. to \in Nat
      BY <2>4, <3>2, FrameFacts
    <3>6. PICK k \in 0 .. Len(s) :
            Passes(s, k) /\ (Len(s) > 0 /\ s[1].at = to => k = 0)
      <4> HIDE DEF s, to
      <4> QED
        BY <3>1, <3>2, <3>4, <3>5, LandDoes
    <3> DEFINE m == k + 1
    <3>7. /\ m \in 1 .. Len(buf) /\ m \in 0 .. Len(buf) /\ Len(buf') = Len(buf) - m
          /\ \A i \in 1 .. Len(buf') : i + k \in 1 .. Len(s) /\ buf'[i] = s[i + k]
      BY <1>2, <1>3, <3>2, <3>6 DEF Passes
    <3>8. ASSUME NEW i \in 1 .. Len(buf')  PROVE buf'[i] = buf[i + m]
      <4>1. s[i + k] = buf[(i + k) + 1] /\ (i + k) + 1 = i + m
        BY <1>2, <3>2, <3>7
      <4> QED
        BY <3>7, <4>1
    <3>9. Drops(m)
      <4> HIDE DEF m
      <4> QED
        BY <2>2, <3>7, <3>8
    <3>10. ASSUME NEW i \in 2 .. m  PROVE ~Chan[i].whole
      <4>1. /\ i \in 1 .. Len(buf) /\ 2 \in 1 .. Len(buf) /\ 1 \in 1 .. Len(buf) /\ 2 <= i
            /\ 1 \in 1 .. Len(buf) - 1 /\ 1 + 1 = 2 /\ Len(s) > 0 /\ s[1] = buf[2]
            /\ k # 0 /\ Chan[i] = buf[i]
        BY <1>3, <3>2, <3>7
      <4>2. buf[2].at # to
        BY <3>6, <4>1
      <4>3. ~buf[2].whole
        <5> SUFFICES ASSUME buf[2].whole PROVE FALSE
          OBVIOUS
        <5>1. buf[1].whole /\ buf[2].at = buf[1].at + Size(buf[1])
          BY <4>1 DEF BufInv, Before
        <5>2. off = buf[1].at
          BY <3>1, <5>1 DEF BufInv
        <5> QED
          BY <3>2, <4>2, <5>1, <5>2
      <4> QED
        BY <4>1, <4>3, NoneWhole
    <3>11. m \in 1 .. Len(Chan)
      BY <1>3, <3>7
    <3>12. \/ f0.type = "data" /\ UNCHANGED seen
           \/ f0.type = "rsp" /\ seen' = IF Handled(f0) THEN Append(seen, f0.n) ELSE seen
      BY <2>5 DEF HandsOver
    <3> HIDE DEF m
    <3>13. Delivers
      BY <2>1, <3>1, <3>2, <3>3, <3>9, <3>10, <3>11, <3>12 DEF Delivers
    <3> QED
      BY <3>13 DEF Moves
  <2>6. CASE Strays(t)
    <3>1. PICK to \in Nat : Land(buf, to)
      BY <2>6 DEF Strays
    <3>2. PICK k \in 0 .. Len(buf) : Passes(buf, k)
      BY <2>3, <3>1, LandDoes DEF SeqType
    <3>3. Drops(k)
      BY <2>2, <3>2 DEF Passes
    <3>4. Len(Chan) > 0 /\ ~Chan[1].whole /\ ~buf[1].whole /\ Len(buf) > 0
      BY <2>6, HeadFacts DEF Strays
    <3>5. ASSUME NEW i \in 1 .. k  PROVE ~Chan[i].whole
      <4>1. i \in 1 .. Len(buf) /\ 1 \in 1 .. Len(buf) /\ 1 <= i /\ Chan[i] = buf[i]
        BY <1>3, <3>2
      <4> QED
        BY <3>4, <4>1, NoneWhole
    <3>6. k \in 0 .. Len(Chan)
      BY <1>3
    <3> QED
      BY <2>1, <2>6, <3>3, <3>4, <3>5, <3>6 DEF Strays, Mangles, Moves
  <2>7. CASE GivesUp(t)
    <3>1. buf' = <<>> /\ UNCHANGED <<given, seen>>
      BY <2>7 DEF GivesUp, Done
    <3>2. CASE buf = <<>>
      BY <1>4, <2>1, <3>1, <3>2 DEF Stays, Moves, outVars
    <3>3. CASE buf # <<>>
      <4> DEFINE k == Len(buf)
      <4>1. k > 0 /\ Len(buf') = 0 /\ ~buf[1].whole /\ Len(Chan) > 0 /\ ~Chan[1].whole
        BY <2>7, <3>1, <3>3, HeadFacts DEF GivesUp
      <4>2. ASSUME NEW i \in 1 .. k  PROVE ~Chan[i].whole
        <5>1. i \in 1 .. Len(buf) /\ 1 \in 1 .. Len(buf) /\ 1 <= i /\ Chan[i] = buf[i]
          BY <1>3, <4>1
        <5> QED
          BY <4>1, <5>1, NoneWhole
      <4>3. k \in 0 .. Len(Chan) /\ k \in 0 .. Len(buf) /\ Len(buf') = Len(buf) - k
        BY <1>3, <4>1
      <4>4. Drops(k)
        <5>1. \A i \in 1 .. Len(buf') : buf'[i] = buf[i + k]
          BY <4>1
        <5> HIDE DEF k
        <5> QED
          BY <2>2, <4>3, <5>1
      <4> HIDE DEF k
      <4> QED
        BY <2>1, <3>1, <4>1, <4>2, <4>3, <4>4 DEF Mangles, Moves
    <3> QED
      BY <3>2, <3>3
  <2>8. CASE HandsPadding(t)
    <3>1. buf = <<>> /\ buf' = <<>> /\ UNCHANGED seen
          /\ \E k \in Nat : given' = given \o Zeros(k)
      BY <2>8 DEF HandsPadding, Done
    <3> QED
      BY <1>4, <2>1, <3>1 DEF Pads, Moves
  <2> QED
    BY <1>9, <2>5, <2>6, <2>7, <2>8, ParseDoes
<1>10. CASE Register
  <2>1. Chan' = Chan
    BY <1>4, <1>10 DEF Register, parseVars, chipVars
  <2> QED
    BY <1>10, <2>1 DEF Register, Hooks, Moves, chipVars
<1>11. ASSUME UNCHANGED <<buf, chipVars, outVars, faults>>  PROVE Moves
  BY <1>4, <1>11 DEF chipVars, Stays, Moves
<1>12. CASE StoreMgr \/ StartBusrx \/ ExitStop \/ ExitDevice \/ ExitMgr
            \/ \E t \in Pollers : PollOnce(t)
  BY <1>11, <1>12 DEF StoreMgr, StartBusrx, ExitStop, ExitDevice, ExitMgr, PollOnce, parseVars
<1>13. ASSUME NEW t \in Threads,
              LockCmd(t) \/ LockSdio(t) \/ RecvAgain(t) \/ AgainOver(t) \/ BusrxLoop
       PROVE  Moves
  BY <1>11, <1>13 DEF LockCmd, LockSdio, RecvAgain, AgainOver, BusrxLoop, parseVars
<1>14. ASSUME NEW t \in Threads, RecvNothing(t)  PROVE Moves
  <2>1. buf = <<>>
    BY <1>14, NothingParsed DEF RecvNothing
  <2> QED
    BY <1>11, <1>14, <2>1 DEF RecvNothing, Done
<1>15. CASE UNCHANGED vars
  BY <1>11, <1>15 DEF vars, parseVars
<1>16. ASSUME NEW t \in Threads, Step(t)  PROVE Moves
  BY <1>7, <1>8, <1>9, <1>13, <1>14, <1>16 DEF Step, Parsed
<1> QED
  BY <1>2, <1>5, <1>6, <1>10, <1>12, <1>15, <1>16 DEF Next, Life

-----------------------------------------------------------------------------
(* The order of the frames *)

(* What is left of the frames on their way keeps its order. *)
LEMMA OrderKept ==
  ASSUME SeqType, OrderInv, NEW h,
         \A j \in 1 .. Len(Chan') : Chan'[j].n # 0 =>
           h[j] \in 1 .. Len(Chan) /\ Chan'[j] = Chan[h[j]],
         \A i, j \in 1 .. Len(Chan') :
           i < j /\ Chan'[i].n # 0 /\ Chan'[j].n # 0 => h[i] < h[j]
  PROVE  /\ \A j \in 1 .. Len(Chan') : Chan'[j].n # 0 =>
              Chan'[j].n \in 1 .. Len(sent) /\ sent[Chan'[j].n] = Chan'[j]
         /\ \A i, j \in 1 .. Len(Chan') :
              i < j /\ Chan'[i].n # 0 /\ Chan'[j].n # 0 => Chan'[i].n < Chan'[j].n
         /\ \A i \in 1 .. Len(seen), j \in 1 .. Len(Chan') :
              Chan'[j].n # 0 => seen[i] < Chan'[j].n
<1>1. ASSUME NEW j \in 1 .. Len(Chan'), Chan'[j].n # 0
      PROVE  /\ Chan'[j].n \in 1 .. Len(sent) /\ sent[Chan'[j].n] = Chan'[j]
             /\ \A i \in 1 .. Len(seen) : seen[i] < Chan'[j].n
  <2>1. h[j] \in 1 .. Len(Chan) /\ Chan'[j] = Chan[h[j]]
    BY <1>1
  <2> QED
    BY <1>1, <2>1 DEF OrderInv
<1>2. ASSUME NEW i \in 1 .. Len(Chan'), NEW j \in 1 .. Len(Chan'), i < j,
             Chan'[i].n # 0, Chan'[j].n # 0
      PROVE  Chan'[i].n < Chan'[j].n
  <2>1. h[j] \in 1 .. Len(Chan) /\ Chan'[j] = Chan[h[j]]
    BY <1>2
  <2>2. h[i] \in 1 .. Len(Chan) /\ Chan'[i] = Chan[h[i]]
    BY <1>2
  <2>3. h[i] < h[j]
    BY <1>2
  <2> QED
    BY <1>2, <2>1, <2>2, <2>3 DEF OrderInv
<1> QED
  BY <1>1, <1>2

LEMMA DropsOrder ==
  ASSUME SeqType, OrderInv, NEW k \in 0 .. Len(Chan), Drops(k)
  PROVE  /\ \A j \in 1 .. Len(Chan') : Chan'[j].n # 0 =>
              Chan'[j].n \in 1 .. Len(sent) /\ sent[Chan'[j].n] = Chan'[j]
         /\ \A i, j \in 1 .. Len(Chan') :
              i < j /\ Chan'[i].n # 0 /\ Chan'[j].n # 0 => Chan'[i].n < Chan'[j].n
         /\ \A i \in 1 .. Len(seen), j \in 1 .. Len(Chan') :
              Chan'[j].n # 0 => seen[i] < Chan'[j].n
<1> DEFINE h == [j \in 1 .. Len(Chan') |-> j + k]
<1>1. Len(Chan) \in Nat /\ Len(Chan') = Len(Chan) - k
      /\ \A j \in 1 .. Len(Chan') : Chan'[j] = Chan[j + k]
  BY SeqFacts DEF Drops
<1>2. \A j \in 1 .. Len(Chan') : h[j] \in 1 .. Len(Chan) /\ Chan'[j] = Chan[h[j]]
  BY <1>1
<1>3. \A i, j \in 1 .. Len(Chan') : i < j => h[i] < h[j]
  BY <1>1
<1> HIDE DEF h
<1> QED
  BY <1>2, <1>3, OrderKept

LEMMA LeavesOrder ==
  ASSUME SeqType, OrderInv, NEW k \in 1 .. Len(Chan), Leaves(k)
  PROVE  /\ \A j \in 1 .. Len(Chan') : Chan'[j].n # 0 =>
              Chan'[j].n \in 1 .. Len(sent) /\ sent[Chan'[j].n] = Chan'[j]
         /\ \A i, j \in 1 .. Len(Chan') :
              i < j /\ Chan'[i].n # 0 /\ Chan'[j].n # 0 => Chan'[i].n < Chan'[j].n
         /\ \A i \in 1 .. Len(seen), j \in 1 .. Len(Chan') :
              Chan'[j].n # 0 => seen[i] < Chan'[j].n
<1> DEFINE h == [j \in 1 .. Len(Chan') |-> IF j <= k THEN j ELSE j - 1]
<1>1. /\ Len(Chan) \in Nat /\ Len(Chan') = Len(Chan) + 1
      /\ \A j \in 1 .. k : Chan'[j] = Chan[j]
      /\ Chan'[k + 1].n = 0
      /\ \A j \in k + 2 .. Len(Chan') : Chan'[j] = Chan[j - 1]
  BY SeqFacts DEF Leaves
<1>2. ASSUME NEW j \in 1 .. Len(Chan'), Chan'[j].n # 0
      PROVE  h[j] \in 1 .. Len(Chan) /\ Chan'[j] = Chan[h[j]] /\ j # k + 1
  <2>1. j \in 1 .. k \/ j \in k + 2 .. Len(Chan')
    BY <1>1, <1>2
  <2>2. CASE j \in 1 .. k
    BY <1>1, <2>2
  <2>3. CASE j \in k + 2 .. Len(Chan')
    BY <1>1, <2>3
  <2> QED
    BY <1>1, <1>2, <2>1, <2>2, <2>3
<1>3. ASSUME NEW i \in 1 .. Len(Chan'), NEW j \in 1 .. Len(Chan'), i < j,
             Chan'[i].n # 0, Chan'[j].n # 0
      PROVE  h[i] < h[j]
  <2>1. i # k + 1 /\ j # k + 1
    BY <1>2, <1>3
  <2> QED
    BY <1>1, <1>3, <2>1
<1> HIDE DEF h
<1> QED
  BY <1>2, <1>3, OrderKept

LEMMA OrderStep ==
  ASSUME SeqType, OrderInv, HistType, Moves, Chan' \in Seq(Frames)
  PROVE  OrderInv'
<1>1. /\ Len(Chan) \in Nat /\ Len(sent) \in Nat /\ Len(seen) \in Nat
      /\ DOMAIN seen = 1 .. Len(seen)
      /\ \A i \in 1 .. Len(Chan) : Chan[i] \in Frames /\ Chan[i].n \in Nat
  BY SeqFacts, FrameFacts
<1>2. ASSUME UNCHANGED <<sent, seen>>, Chan' = Chan  PROVE OrderInv'
  BY <1>2 DEF OrderInv
<1>3. ASSUME UNCHANGED <<sent, seen>>, NEW k \in 0 .. Len(Chan), Drops(k)  PROVE OrderInv'
  BY <1>3, DropsOrder DEF OrderInv
<1>4. CASE Stays \/ Hooks
  BY <1>2, <1>4 DEF Stays, Hooks, outVars
<1>5. CASE Empties
  <2>1. Len(Chan') = 0
    BY <1>5 DEF Empties
  <2> QED
    BY <2>1 DEF OrderInv
<1>6. ASSUME NEW p \in Packets, Adds(p)  PROVE OrderInv'
  <2> DEFINE u == Numbered(p)
             l == Len(p.frames)
  <2>1. /\ u \in Seq(Frames) /\ Len(u) = l /\ l \in Nat
        /\ \A i \in 1 .. l : u[i].n = Len(sent) + i
    BY NewFrames
  <2>2. UNCHANGED seen /\ Chan' = Chan \o u /\ sent' = sent \o u
    BY <1>6 DEF Adds, outVars
  <2> HIDE DEF u, l
  <2>3. /\ Len(Chan') = Len(Chan) + l
        /\ \A i \in 1 .. Len(Chan) + l :
             Chan'[i] = IF i <= Len(Chan) THEN Chan[i] ELSE u[i - Len(Chan)]
    <3>1. Chan \in Seq(Frames)
      BY SeqFacts
    <3> QED
      BY <2>1, <2>2, <3>1, ConcatProperties
  <2>4. /\ Len(sent') = Len(sent) + l
        /\ \A i \in 1 .. Len(sent) + l :
             sent'[i] = IF i <= Len(sent) THEN sent[i] ELSE u[i - Len(sent)]
    BY <2>1, <2>2, ConcatProperties DEF SeqType
  <2>5. ASSUME NEW j \in 1 .. Len(Chan'), j <= Len(Chan)
        PROVE  /\ Chan'[j] = Chan[j]
               /\ Chan[j].n # 0 =>
                    /\ Chan'[j].n \in 1 .. Len(sent) /\ Chan'[j].n \in 1 .. Len(sent')
                    /\ sent'[Chan'[j].n] = Chan'[j]
                    /\ \A i \in 1 .. Len(seen) : seen[i] < Chan'[j].n
    <3>1. Chan'[j] = Chan[j] /\ j \in 1 .. Len(Chan)
      BY <1>1, <2>1, <2>3, <2>5
    <3>2. Chan[j].n # 0 =>
            /\ Chan[j].n \in 1 .. Len(sent) /\ sent[Chan[j].n] = Chan[j]
            /\ \A i \in 1 .. Len(seen) : seen[i] < Chan[j].n
      BY <3>1 DEF OrderInv
    <3>3. \A m \in 1 .. Len(sent) : m \in 1 .. Len(sent') /\ sent'[m] = sent[m]
      BY <1>1, <2>1, <2>4
    <3> QED
      BY <3>1, <3>2, <3>3
  <2>6. ASSUME NEW j \in 1 .. Len(Chan'), j > Len(Chan)
        PROVE  /\ Chan'[j].n = Len(sent) + (j - Len(Chan)) /\ j - Len(Chan) > 0
               /\ Chan'[j].n \in 1 .. Len(sent') /\ sent'[Chan'[j].n] = Chan'[j]
               /\ \A i \in 1 .. Len(seen) : seen[i] < Chan'[j].n
    <3> DEFINE d == j - Len(Chan)
    <3>1. d \in 1 .. l /\ Chan'[j] = u[d]
      BY <1>1, <2>1, <2>3, <2>6
    <3>2. u[d].n = Len(sent) + d
      BY <2>1, <3>1
    <3> HIDE DEF d
    <3>3. Len(sent) + d \in 1 .. Len(sent') /\ Len(sent) + d > Len(sent)
          /\ Len(sent) + d - Len(sent) = d
      <4>1. Len(sent') = Len(sent) + l /\ Len(sent) \in Nat /\ l \in Nat /\ d \in 1 .. l
        BY <1>1, <2>1, <2>4, <3>1
      <4> QED
        BY <4>1
    <3>4. sent'[Len(sent) + d] = u[d]
      <4>1. Len(sent) + d \in 1 .. Len(sent) + l /\ ~(Len(sent) + d <= Len(sent))
        BY <1>1, <2>1, <3>1
      <4>2. sent'[Len(sent) + d] = u[(Len(sent) + d) - Len(sent)]
        BY <2>4, <4>1
      <4> QED
        BY <1>1, <2>1, <3>1, <4>2
    <3>5. \A i \in 1 .. Len(seen) : seen[i] \in 0 .. Len(sent)
      BY <1>1 DEF HistType
    <3>6. ASSUME NEW i \in 1 .. Len(seen)  PROVE seen[i] < Len(sent) + d
      BY <1>1, <3>1, <3>5
    <3>7. d = j - Len(Chan) /\ d > 0
      <4>1. d = j - Len(Chan)
        BY DEF d
      <4> QED
        BY <2>1, <3>1, <4>1
    <3>8. /\ Chan'[j].n = Len(sent) + (j - Len(Chan)) /\ j - Len(Chan) > 0
          /\ Chan'[j].n \in 1 .. Len(sent') /\ sent'[Chan'[j].n] = Chan'[j]
      BY <3>1, <3>2, <3>3, <3>4, <3>7
    <3> QED
      BY <3>1, <3>2, <3>6, <3>8
  <2>7. ASSUME NEW j \in 1 .. Len(Chan'), Chan'[j].n # 0
        PROVE  /\ Chan'[j].n \in 1 .. Len(sent') /\ sent'[Chan'[j].n] = Chan'[j]
               /\ \A i \in 1 .. Len(seen) : seen[i] < Chan'[j].n
    BY <1>1, <2>5, <2>6, <2>7
  <2>8. ASSUME NEW i \in 1 .. Len(Chan'), NEW j \in 1 .. Len(Chan'), i < j,
               Chan'[i].n # 0, Chan'[j].n # 0
        PROVE  Chan'[i].n < Chan'[j].n
    <3>1. CASE j <= Len(Chan)
      <4>1. Chan'[i] = Chan[i] /\ Chan'[j] = Chan[j] /\ i \in 1 .. Len(Chan) /\ j \in 1 .. Len(Chan)
        BY <1>1, <2>5, <2>8, <3>1
      <4> QED
        BY <2>8, <4>1 DEF OrderInv
    <3>2. CASE i > Len(Chan)
      <4>1. Chan'[i].n = Len(sent) + (i - Len(Chan)) /\ Chan'[j].n = Len(sent) + (j - Len(Chan))
        <5>1. j > Len(Chan)
          BY <1>1, <2>8, <3>2
        <5> QED
          BY <2>6, <3>2, <5>1
      <4> QED
        BY <1>1, <2>8, <4>1
    <3>3. CASE i <= Len(Chan) /\ j > Len(Chan)
      <4>1. Chan'[i].n \in 1 .. Len(sent)
        BY <2>5, <2>8, <3>3
      <4>2. Chan'[j].n = Len(sent) + (j - Len(Chan)) /\ j - Len(Chan) > 0
        BY <2>6, <3>3
      <4> QED
        BY <1>1, <4>1, <4>2
    <3> QED
      BY <1>1, <3>1, <3>2, <3>3
  <2> QED
    BY <2>2, <2>7, <2>8 DEF OrderInv
(* Frames are gone, and the callbacks may have seen x, which is behind them. *)
<1>7. ASSUME UNCHANGED sent, NEW k \in 0 .. Len(Chan), Drops(k),
             NEW x \in Nat, seen' = seen \/ seen' = Append(seen, x),
             \A j \in 1 .. Len(Chan') : Chan'[j].n # 0 => x < Chan'[j].n
      PROVE  OrderInv'
  <2>1. /\ \A j \in 1 .. Len(Chan') : Chan'[j].n # 0 =>
             Chan'[j].n \in 1 .. Len(sent) /\ sent[Chan'[j].n] = Chan'[j]
        /\ \A i, j \in 1 .. Len(Chan') :
             i < j /\ Chan'[i].n # 0 /\ Chan'[j].n # 0 => Chan'[i].n < Chan'[j].n
        /\ \A i \in 1 .. Len(seen), j \in 1 .. Len(Chan') :
             Chan'[j].n # 0 => seen[i] < Chan'[j].n
    BY <1>7, DropsOrder
  <2>2. ASSUME NEW i \in 1 .. Len(seen')
        PROVE  seen'[i] = x \/ (i \in 1 .. Len(seen) /\ seen'[i] = seen[i])
    <3>1. CASE seen' = seen
      BY <3>1
    <3>2. CASE seen' = Append(seen, x)
      <4>1. /\ Len(seen') = Len(seen) + 1 /\ seen'[Len(seen) + 1] = x
            /\ \A y \in 1 .. Len(seen) : seen'[y] = seen[y]
        BY <3>2, AppendProperties DEF SeqType
      <4>2. i \in 1 .. Len(seen) \/ i = Len(seen) + 1
        BY <1>1, <4>1
      <4> QED
        BY <4>1, <4>2
    <3> QED
      BY <1>7, <3>1, <3>2
  <2>3. ASSUME NEW i \in 1 .. Len(seen'), NEW j \in 1 .. Len(Chan'), Chan'[j].n # 0
        PROVE  seen'[i] < Chan'[j].n
    BY <1>7, <2>1, <2>2, <2>3
  <2> QED
    BY <1>7, <2>1, <2>3 DEF OrderInv
<1>8. CASE Delivers
  <2> DEFINE x == Chan[1].n
  <2>1. PICK k \in 1 .. Len(Chan) : Drops(k)
    BY <1>8 DEF Delivers
  <2>2. x # 0 /\ UNCHANGED sent /\ k \in 0 .. Len(Chan) /\ Len(Chan) > 0
        /\ (seen' = seen \/ seen' = Append(seen, x))
    BY <1>1, <1>8 DEF Delivers
  <2>3. ASSUME NEW j \in 1 .. Len(Chan'), Chan'[j].n # 0  PROVE x < Chan'[j].n
    <3>1. 1 \in 1 .. Len(Chan) /\ j + k \in 1 .. Len(Chan) /\ 1 < j + k /\ Chan'[j] = Chan[j + k]
      BY <1>1, <2>1 DEF Drops
    <3> QED
      BY <2>2, <2>3, <3>1 DEF OrderInv
  <2>4. x \in Nat
    BY <1>1, <2>2
  <2> HIDE DEF x
  <2> QED
    BY <1>7, <2>1, <2>2, <2>3, <2>4
<1>9. CASE Loses
  BY <1>3, <1>9 DEF Loses, outVars
<1>10. CASE Mangles
  <2>1. PICK k \in 0 .. Len(Chan) : Drops(k)
    BY <1>10 DEF Mangles
  <2>2. UNCHANGED sent /\ (seen' = seen \/ seen' = Append(seen, 0))
    BY <1>10 DEF Mangles
  <2>3. ASSUME NEW j \in 1 .. Len(Chan'), Chan'[j].n # 0  PROVE 0 < Chan'[j].n
    <3>1. j + k \in 1 .. Len(Chan) /\ Chan'[j] = Chan[j + k]
      BY <1>1, <2>1 DEF Drops
    <3> QED
      BY <1>1, <2>3, <3>1
  <2> QED
    BY <1>7, <2>1, <2>2, <2>3
<1>11. CASE Splits
  <2>1. PICK k \in 1 .. Len(Chan) : Leaves(k)
    BY <1>11 DEF Splits
  <2>2. UNCHANGED <<sent, seen>>
    BY <1>11 DEF Splits, outVars
  <2> QED
    BY <2>1, <2>2, LeavesOrder DEF OrderInv
<1>12. CASE Pads
  BY <1>2, <1>12 DEF Pads
<1> QED
  BY <1>4, <1>5, <1>6, <1>8, <1>9, <1>10, <1>11, <1>12 DEF Moves

-----------------------------------------------------------------------------
(* Counters and histories *)

LEMMA CountStep ==
  ASSUME TypeOK, [Next]_vars  PROVE CountType'
<1>1. CountType
  BY TypeParts
<1>2. ASSUME UNCHANGED <<boundVars, faults>>  PROVE CountType'
  BY <1>1, <1>2 DEF boundVars, CountType
<1>3. CASE Life \/ Register \/ \E p \in Packets : ChipSends(p)
  BY <1>2, <1>3 DEF Life, StoreDevice, StoreMgr, StartBusrx, ExitStop, ExitDevice, ExitMgr,
    Register, ChipSends
<1>4. ASSUME NEW t \in Pollers, PollOnce(t)  PROVE CountType'
  BY <1>1, <1>4, Constants DEF PollOnce, CountType
<1>5. ASSUME NEW t \in Threads, Step(t)  PROVE CountType'
  <2>1. CASE RecvAgain(t)
    BY <1>1, <2>1, Constants DEF RecvAgain, CountType
  <2>2. CASE RecvFails(t)
    BY <1>1, <2>2, Constants DEF RecvFails, CountType, boundVars
  <2>3. CASE ParseAstray(t)
    <3>1. /\ UNCHANGED <<polls, agains, faults>>
          /\ UNCHANGED stray \/ (stray < MaxStray /\ stray' = stray + 1)
      BY <2>3 DEF ParseAstray
    <3> QED
      BY <1>1, <3>1, Constants DEF CountType
  <2>4. CASE LockCmd(t) \/ LockSdio(t) \/ RecvNothing(t) \/ RecvPkt(t) \/ AgainOver(t)
    BY <1>2, <2>4 DEF LockCmd, LockSdio, RecvNothing, RecvPkt, AgainOver
  <2>5. CASE ParseData(t) \/ ParseRsp(t) \/ ParseAlt(t) \/ ParseStop(t) \/ ParsePadding(t)
             \/ BusrxLoop
    BY <1>2, <2>5 DEF ParseData, ParseRsp, ParseAlt, ParseStop, ParsePadding, BusrxLoop
  <2> QED
    BY <1>5, <2>1, <2>2, <2>3, <2>4, <2>5 DEF Step
<1>6. CASE UNCHANGED vars
  BY <1>2, <1>6 DEF vars
<1> QED
  BY <1>3, <1>4, <1>5, <1>6 DEF Next

(* The padding goes to the end of what was handed over. *)
LEMMA PadsGiven ==
  ASSUME NEW g \in Seq(Int), NEW k \in Nat
  PROVE  LET h == g \o Zeros(k) IN
         /\ h \in Seq(Int) /\ DOMAIN h = 1 .. Len(h)
         /\ Len(h) = Len(g) + k /\ Len(g) \in Nat
         /\ \A i \in 1 .. Len(g) : h[i] = g[i]
         /\ \A i \in Len(g) + 1 .. Len(h) : h[i] = 0
         /\ \A i \in 1 .. Len(h) : h[i] = 0 \/ (i \in 1 .. Len(g) /\ h[i] = g[i])
<1> DEFINE z == Zeros(k)
           h == g \o z
<1>1. z \in Seq(Int) /\ Len(z) = k /\ \A i \in 1 .. k : z[i] = 0
  <2>1. z \in [1 .. k -> Int] /\ \A i \in 1 .. k : z[i] = 0
    BY DEF Zeros
  <2>2. z \in Seq(Int)
    BY <2>1, IsASeq DEF Zeros
  <2> HIDE DEF z
  <2> QED
    BY <2>1, <2>2, LenProperties
<1> HIDE DEF z
<1>2. /\ h \in Seq(Int) /\ Len(h) = Len(g) + k /\ Len(g) \in Nat
      /\ \A i \in 1 .. Len(g) + k : h[i] = IF i <= Len(g) THEN g[i] ELSE z[i - Len(g)]
  BY <1>1, ConcatProperties, LenProperties
<1> HIDE DEF h
<1>3. \A i \in 1 .. Len(g) : h[i] = g[i]
  BY <1>2
<1>4. ASSUME NEW i \in Len(g) + 1 .. Len(h)  PROVE h[i] = 0
  <2>1. i \in 1 .. Len(g) + k /\ ~(i <= Len(g)) /\ i - Len(g) \in 1 .. k
    BY <1>2
  <2> QED
    BY <1>1, <1>2, <2>1
<1>5. DOMAIN h = 1 .. Len(h)
  BY <1>2, LenProperties
<1>6. \A i \in 1 .. Len(h) : i \in 1 .. Len(g) \/ i \in Len(g) + 1 .. Len(h)
  BY <1>2
<1> QED
  BY <1>2, <1>3, <1>4, <1>5, <1>6 DEF h, z

(* What is handed over, and what the callbacks see, was sent or made up. *)
LEMMA HistStep ==
  ASSUME SeqType, HistType, OrderInv, Moves
  PROVE  HistType' /\ sent' \in Seq(Frames) /\ given' \in Seq(Int) /\ seen' \in Seq(Nat)
<1>1. /\ Len(sent) \in Nat /\ Len(given) \in Nat /\ Len(seen) \in Nat
      /\ DOMAIN given = 1 .. Len(given) /\ DOMAIN seen = 1 .. Len(seen)
      /\ \A i \in 1 .. Len(Chan) : Chan[i] \in Frames
  BY SeqFacts
<1>2. /\ sent \in Seq(Frames) /\ given \in Seq(Int) /\ seen \in Seq(Nat)
      /\ bornAt \in 0 .. Len(sent) /\ hookedAt \in -1 .. Len(sent)
      /\ \A i \in 1 .. Len(given) : given[i] \in -1 .. Len(sent)
      /\ \A i \in 1 .. Len(seen) : seen[i] \in 0 .. Len(sent)
  BY <1>1 DEF SeqType, HistType
(* The number x goes to the end of such a history. *)
<1>3. ASSUME NEW S, NEW s \in Seq(S), NEW a \in Int, NEW x \in S, x \in a .. Len(sent),
             \A i \in 1 .. Len(s) : s[i] \in a .. Len(sent)
      PROVE  /\ Append(s, x) \in Seq(S)
             /\ \A i \in DOMAIN Append(s, x) : Append(s, x)[i] \in a .. Len(sent)
  <2>1. Len(s) \in Nat
    BY LenProperties
  <2>2. /\ Append(s, x) \in Seq(S) /\ Len(Append(s, x)) = Len(s) + 1
        /\ \A i \in 1 .. Len(s) : Append(s, x)[i] = s[i]
        /\ Append(s, x)[Len(s) + 1] = x
    BY AppendProperties
  <2>3. DOMAIN Append(s, x) = 1 .. Len(s) + 1
    BY <2>2, LenProperties
  <2> QED
    BY <1>3, <2>1, <2>2, <2>3
<1>4. CASE Stays \/ Loses
  BY <1>4, <1>2, <1>1 DEF Stays, Loses, outVars, HistType
<1>5. CASE Hooks \/ Empties
  <2>1. /\ UNCHANGED <<sent, given, seen>>
        /\ bornAt' = bornAt \/ bornAt' = Len(sent)
        /\ hookedAt' = hookedAt \/ hookedAt' = Len(sent)
    BY <1>5 DEF Hooks, Empties, outVars
  <2>2. bornAt' \in 0 .. Len(sent) /\ hookedAt' \in -1 .. Len(sent)
    BY <1>1, <1>2, <2>1
  <2> QED
    BY <1>1, <1>2, <2>1, <2>2 DEF HistType
<1>6. ASSUME NEW p \in Packets, Adds(p)
      PROVE  HistType' /\ sent' \in Seq(Frames) /\ given' \in Seq(Int) /\ seen' \in Seq(Nat)
  <2>1. /\ sent' = sent \o Numbered(p) /\ UNCHANGED <<bornAt, hookedAt, given, seen>>
    BY <1>6 DEF Adds, outVars
  <2>2. Numbered(p) \in Seq(Frames) /\ Len(Numbered(p)) \in Nat
    BY NewFrames
  <2>3. sent' \in Seq(Frames) /\ Len(sent') \in Nat /\ Len(sent) <= Len(sent')
    BY <1>1, <1>2, <2>1, <2>2, ConcatProperties
  <2>4. /\ \A x \in -1 .. Len(sent) : x \in -1 .. Len(sent')
        /\ \A x \in 0 .. Len(sent) : x \in 0 .. Len(sent')
    BY <1>1, <2>3
  <2>5. bornAt' \in 0 .. Len(sent') /\ hookedAt' \in -1 .. Len(sent')
    BY <1>1, <1>2, <2>1, <2>3
  <2>6. /\ \A i \in 1 .. Len(given) : given[i] \in -1 .. Len(sent')
        /\ \A i \in 1 .. Len(seen) : seen[i] \in 0 .. Len(sent')
    BY <1>2, <2>4
  <2> QED
    BY <1>1, <1>2, <2>1, <2>3, <2>5, <2>6 DEF HistType
<1>7. CASE Delivers
  <2> DEFINE x == Chan[1].n
  <2>1. /\ x # 0 /\ 1 \in 1 .. Len(Chan) /\ given' = Append(given, x)
        /\ seen' = seen \/ seen' = Append(seen, x)
        /\ UNCHANGED <<sent, bornAt, hookedAt>>
    BY <1>1, <1>7, SeqFacts DEF Delivers
  <2>2. x \in -1 .. Len(sent) /\ x \in 0 .. Len(sent) /\ x \in Nat /\ x \in Int
    BY <1>1, <2>1 DEF OrderInv
  <2> HIDE DEF x
  <2>3. given' \in Seq(Int) /\ \A i \in DOMAIN given' : given'[i] \in -1 .. Len(sent)
    BY <1>2, <1>3, <2>1, <2>2
  <2>4. seen' \in Seq(Nat) /\ \A i \in DOMAIN seen' : seen'[i] \in 0 .. Len(sent)
    <3>1. CASE seen' = seen
      BY <1>1, <1>2, <3>1
    <3>2. CASE seen' = Append(seen, x)
      BY <1>2, <1>3, <2>2, <3>2
    <3> QED
      BY <2>1, <3>1, <3>2
  <2> QED
    BY <1>2, <2>1, <2>3, <2>4 DEF HistType
<1>8. CASE Mangles
  <2>1. /\ given' = given \/ given' = Append(given, 0) \/ given' = Append(given, -1)
        /\ seen' = seen \/ seen' = Append(seen, 0)
        /\ UNCHANGED <<sent, bornAt, hookedAt>>
    BY <1>8 DEF Mangles
  <2>2. 0 \in 0 .. Len(sent) /\ 0 \in -1 .. Len(sent) /\ -1 \in -1 .. Len(sent)
        /\ -1 \in Int /\ 0 \in Int /\ 0 \in Nat
    BY <1>1
  <2>3. given' \in Seq(Int) /\ \A i \in DOMAIN given' : given'[i] \in -1 .. Len(sent)
    BY <1>1, <1>2, <1>3, <2>1, <2>2
  <2>4. seen' \in Seq(Nat) /\ \A i \in DOMAIN seen' : seen'[i] \in 0 .. Len(sent)
    <3>1. CASE seen' = seen
      BY <1>1, <1>2, <3>1
    <3>2. CASE seen' = Append(seen, 0)
      BY <1>2, <1>3, <2>2, <3>2
    <3> QED
      BY <2>1, <3>1, <3>2
  <2> QED
    BY <1>2, <2>1, <2>3, <2>4 DEF HistType
<1>9. CASE Splits
  BY <1>9, <1>2, <1>1 DEF Splits, outVars, HistType
<1>10. CASE Pads
  <2>1. PICK k \in Nat : given' = given \o Zeros(k)
    BY <1>10 DEF Pads
  <2>2. UNCHANGED <<sent, bornAt, hookedAt, seen>>
    BY <1>10 DEF Pads
  <2>3. /\ given' \in Seq(Int) /\ DOMAIN given' = 1 .. Len(given')
        /\ \A i \in 1 .. Len(given') : given'[i] = 0 \/ (i \in 1 .. Len(given) /\ given'[i] = given[i])
    BY <1>2, <2>1, PadsGiven
  <2>4. 0 \in -1 .. Len(sent)
    BY <1>1
  <2>5. \A i \in DOMAIN given' : given'[i] \in -1 .. Len(sent)
    BY <1>2, <2>3, <2>4
  <2> QED
    BY <1>1, <1>2, <2>2, <2>3, <2>5 DEF HistType
<1> QED
  BY <1>4, <1>5, <1>6, <1>7, <1>8, <1>9, <1>10 DEF Moves

-----------------------------------------------------------------------------
(* Scan results *)

(* A result that is to be seen is not lost where whole frames are not. *)
LEMMA ResultStep ==
  ASSUME SeqType, HistType, CountType, OrderInv, ResultInv, Moves, Chan' \in Seq(Frames)
  PROVE  ResultInv'
<1> DEFINE Fate(m) ==
      /\ \/ \E i \in 1 .. Len(seen') : seen'[i] = m
         \/ \E j \in 1 .. Len(Chan') : Chan'[j].n = m
      /\ \A i \in 1 .. Len(seen') :
           m < seen'[i] => \E j \in 1 .. i - 1 : seen'[j] = m
<1>1. /\ Len(Chan) \in Nat /\ Len(sent) \in Nat /\ Len(seen) \in Nat
      /\ DOMAIN seen = 1 .. Len(seen) /\ faults \in Nat
      /\ bornAt \in Nat /\ bornAt <= Len(sent)
      /\ \A i \in 1 .. Len(Chan) : Chan[i] \in Frames
  BY SeqFacts, Constants DEF HistType, CountType
<1> SUFFICES ASSUME faults' = 0, NEW m \in bornAt' + 1 .. Len(sent'), Wanted(m)'
             PROVE  Fate(m)
  BY DEF ResultInv
(* An old result, told by what the chip sent. *)
<1>2. ASSUME faults = 0, m \in bornAt + 1 .. Len(sent), Wanted(m)
      PROVE  /\ m \in Nat /\ m > 0
             /\ \/ \E i \in 1 .. Len(seen) : seen[i] = m
                \/ \E j \in 1 .. Len(Chan) :
                     /\ Chan[j].n = m /\ Chan[j].whole /\ Chan[j].type = "rsp"
                     /\ Handled(Chan[j])
             /\ \A i \in 1 .. Len(seen) :
                  m < seen[i] => \E j \in 1 .. i - 1 : seen[j] = m
  <2>1. m \in Nat /\ m > 0
    BY <1>1, <1>2
  <2>2. /\ \/ \E i \in 1 .. Len(seen) : seen[i] = m
           \/ \E j \in 1 .. Len(Chan) : Chan[j].n = m
        /\ \A i \in 1 .. Len(seen) :
             m < seen[i] => \E j \in 1 .. i - 1 : seen[j] = m
    BY <1>2 DEF ResultInv
  <2>3. ASSUME NEW j \in 1 .. Len(Chan), Chan[j].n = m
        PROVE  Chan[j].whole /\ Chan[j].type = "rsp" /\ Handled(Chan[j])
    <3>1. sent[m] = Chan[j]
      BY <2>1, <2>3 DEF OrderInv
    <3>2. /\ hookedAt \in 0 .. m - 1 /\ Chan[j].type = "rsp" /\ Chan[j].whole
          /\ Chan[j].id = ResultInd /\ Chan[j].plen >= 10
      BY <1>2, <3>1 DEF Wanted
    <3>3. Handled(Chan[j])
      BY <2>1, <3>2 DEF Handled, Hooked, MinLen
    <3> QED
      BY <3>2, <3>3
  <2> QED
    BY <2>1, <2>2, <2>3
<1>3. ASSUME UNCHANGED <<sent, bornAt, hookedAt>>
      PROVE  m \in bornAt + 1 .. Len(sent) /\ Wanted(m)
  BY <1>3 DEF Wanted
(* Of the whole frames none is lost and no more are seen. *)
<1>4. ASSUME faults = 0, UNCHANGED <<sent, bornAt, hookedAt, seen>>,
             \A j \in 1 .. Len(Chan) : Chan[j].whole /\ Chan[j].n = m =>
               \E i \in 1 .. Len(Chan') : Chan'[i] = Chan[j]
      PROVE  Fate(m)
  <2>1. /\ \/ \E i \in 1 .. Len(seen) : seen[i] = m
           \/ \E j \in 1 .. Len(Chan) : Chan[j].n = m /\ Chan[j].whole
        /\ \A i \in 1 .. Len(seen) :
             m < seen[i] => \E j \in 1 .. i - 1 : seen[j] = m
    BY <1>2, <1>3, <1>4
  <2>2. (\E i \in 1 .. Len(seen') : seen'[i] = m) \/ \E j \in 1 .. Len(Chan') : Chan'[j].n = m
    BY <1>4, <2>1
  <2> QED
    BY <1>4, <2>1, <2>2
<1>5. CASE Stays
  BY <1>4, <1>5 DEF Stays, outVars
<1>6. CASE Hooks
  <2>1. hookedAt' = Len(sent) /\ UNCHANGED <<sent, bornAt>> /\ hookedAt' \in 0 .. m - 1
    BY <1>6 DEF Hooks, Wanted
  <2> QED
    BY <1>1, <2>1
<1>7. CASE Empties
  <2>1. bornAt' = Len(sent) /\ sent' = sent
    BY <1>7 DEF Empties
  <2> QED
    BY <1>1, <2>1
<1>8. ASSUME NEW p \in Packets, Adds(p)  PROVE Fate(m)
  <2> DEFINE u == Numbered(p)
             l == Len(p.frames)
  <2>1. /\ u \in Seq(Frames) /\ Len(u) = l /\ l \in Nat
        /\ \A i \in 1 .. l : u[i].n = Len(sent) + i
    BY NewFrames
  <2>2. /\ UNCHANGED <<seen, faults, bornAt, hookedAt>>
        /\ Chan' = Chan \o u /\ sent' = sent \o u
    BY <1>8 DEF Adds, outVars
  <2> HIDE DEF u, l
  <2>3. /\ Len(Chan') = Len(Chan) + l
        /\ \A i \in 1 .. Len(Chan) + l :
             Chan'[i] = IF i <= Len(Chan) THEN Chan[i] ELSE u[i - Len(Chan)]
    <3>1. Chan \in Seq(Frames)
      BY SeqFacts
    <3> QED
      BY <2>1, <2>2, <3>1, ConcatProperties
  <2>4. /\ Len(sent') = Len(sent) + l
        /\ \A i \in 1 .. Len(sent) + l :
             sent'[i] = IF i <= Len(sent) THEN sent[i] ELSE u[i - Len(sent)]
    BY <2>1, <2>2, ConcatProperties DEF SeqType
  <2>5. CASE m <= Len(sent)
    <3>1. m \in bornAt + 1 .. Len(sent) /\ sent'[m] = sent[m]
      BY <1>1, <2>1, <2>2, <2>4, <2>5
    <3>2. Wanted(m)
      BY <2>2, <3>1 DEF Wanted
    <3>3. /\ \/ \E i \in 1 .. Len(seen) : seen[i] = m
             \/ \E j \in 1 .. Len(Chan) : Chan[j].n = m
          /\ \A i \in 1 .. Len(seen) :
               m < seen[i] => \E j \in 1 .. i - 1 : seen[j] = m
      BY <1>2, <2>2, <3>1, <3>2
    <3>4. \A j \in 1 .. Len(Chan) : j \in 1 .. Len(Chan') /\ Chan'[j] = Chan[j]
      BY <1>1, <2>1, <2>3
    <3>5. (\E i \in 1 .. Len(seen') : seen'[i] = m) \/ \E j \in 1 .. Len(Chan') : Chan'[j].n = m
      BY <2>2, <3>3, <3>4
    <3> QED
      BY <2>2, <3>3, <3>5
  <2>6. CASE m > Len(sent)
    <3> DEFINE d == m - Len(sent)
    <3>1. d \in 1 .. l /\ Len(sent) + d = m
      BY <1>1, <2>1, <2>2, <2>4, <2>6
    <3>2. /\ Len(Chan) + d \in 1 .. Len(Chan') /\ ~(Len(Chan) + d <= Len(Chan))
          /\ Len(Chan) + d - Len(Chan) = d
      BY <1>1, <2>1, <2>3, <3>1
    <3>3. Chan'[Len(Chan) + d] = u[d]
      BY <2>3, <3>2
    <3>4. u[d].n = m
      BY <2>1, <3>1
    <3>5. ASSUME NEW i \in 1 .. Len(seen')  PROVE ~(m < seen'[i])
      <4>1. seen'[i] \in 0 .. Len(sent)
        BY <1>1, <2>2 DEF HistType
      <4>2. m \in Int
        BY <1>1, <2>2
      <4> QED
        BY <1>1, <2>6, <4>1, <4>2
    <3> QED
      BY <3>2, <3>3, <3>4, <3>5
  <2> QED
    BY <1>1, <2>5, <2>6
<1>9. CASE Loses
  BY <1>1, <1>9 DEF Loses
(* The whole frames behind those that are gone stay. *)
<1>10. ASSUME NEW k \in 0 .. Len(Chan), Drops(k), NEW j \in 1 .. Len(Chan), j > k
       PROVE  j - k \in 1 .. Len(Chan') /\ Chan'[j - k] = Chan[j]
  <2>1. j - k \in 1 .. Len(Chan') /\ (j - k) + k = j
    BY <1>1, <1>10 DEF Drops
  <2> QED
    BY <1>10, <2>1 DEF Drops
<1>11. CASE Mangles
  <2>1. PICK k \in 0 .. Len(Chan) : (\A i \in 1 .. k : ~Chan[i].whole) /\ Drops(k)
    BY <1>11 DEF Mangles
  <2>2. UNCHANGED <<sent, bornAt, hookedAt>> /\ faults = 0
        /\ (seen' = seen \/ seen' = Append(seen, 0))
    BY <1>11 DEF Mangles
  <2>3. ASSUME NEW j \in 1 .. Len(Chan), Chan[j].whole
        PROVE  \E i \in 1 .. Len(Chan') : Chan'[i] = Chan[j]
    <3>1. j > k
      BY <1>1, <2>1, <2>3
    <3> QED
      BY <1>10, <2>1, <3>1
  <2>4. CASE seen' = seen
    BY <1>4, <2>2, <2>3, <2>4
  <2>5. CASE seen' = Append(seen, 0)
    <3>1. /\ Len(seen') = Len(seen) + 1 /\ seen'[Len(seen) + 1] = 0
          /\ \A x \in 1 .. Len(seen) : x \in 1 .. Len(seen') /\ seen'[x] = seen[x]
      BY <1>1, <2>5, AppendProperties DEF SeqType
    <3>2. /\ m \in Nat
          /\ \/ \E i \in 1 .. Len(seen) : seen[i] = m
             \/ \E j \in 1 .. Len(Chan) : Chan[j].n = m /\ Chan[j].whole
          /\ \A i \in 1 .. Len(seen) :
               m < seen[i] => \E j \in 1 .. i - 1 : seen[j] = m
      BY <1>2, <1>3, <2>2
    <3>3. (\E i \in 1 .. Len(seen') : seen'[i] = m) \/ \E j \in 1 .. Len(Chan') : Chan'[j].n = m
      BY <2>3, <3>1, <3>2
    <3>4. ASSUME NEW i \in 1 .. Len(seen'), m < seen'[i]
          PROVE  \E j \in 1 .. i - 1 : seen'[j] = m
      <4>1. i \in 1 .. Len(seen)
        BY <1>1, <3>1, <3>2, <3>4
      <4>2. PICK j \in 1 .. i - 1 : seen[j] = m
        BY <3>1, <3>2, <3>4, <4>1
      <4>3. j \in 1 .. Len(seen)
        BY <1>1, <4>1
      <4> QED
        BY <3>1, <4>2, <4>3
    <3> QED
      BY <3>3, <3>4
  <2> QED
    BY <2>2, <2>4, <2>5
<1>12. CASE Splits
  <2>1. PICK k \in 1 .. Len(Chan) : Leaves(k)
    BY <1>12 DEF Splits
  <2>2. UNCHANGED <<sent, bornAt, hookedAt, seen>> /\ faults = 0
    BY <1>12 DEF Splits, outVars
  <2>3. ASSUME NEW j \in 1 .. Len(Chan)
        PROVE  \E i \in 1 .. Len(Chan') : Chan'[i] = Chan[j]
    <3>1. CASE j <= k
      <4>1. j \in 1 .. k /\ j \in 1 .. Len(Chan')
        BY <1>1, <2>1, <3>1 DEF Leaves
      <4> QED
        BY <2>1, <4>1 DEF Leaves
    <3>2. CASE j > k
      <4>1. j + 1 \in k + 2 .. Len(Chan') /\ j + 1 \in 1 .. Len(Chan') /\ (j + 1) - 1 = j
        BY <1>1, <2>1, <3>2 DEF Leaves
      <4> QED
        BY <2>1, <4>1 DEF Leaves
    <3> QED
      BY <1>1, <3>1, <3>2
  <2> QED
    BY <1>4, <2>2, <2>3
<1>13. CASE Pads
  BY <1>4, <1>13 DEF Pads
<1>14. CASE Delivers
  <2> DEFINE f == Chan[1]
  <2>0. PICK k \in 1 .. Len(Chan) : (\A i \in 2 .. k : ~Chan[i].whole) /\ Drops(k)
    BY <1>14 DEF Delivers
  <2>1. /\ Len(Chan) > 0 /\ f.n # 0 /\ faults = 0
        /\ UNCHANGED <<sent, bornAt, hookedAt>>
        /\ \/ f.type = "data" /\ UNCHANGED seen
           \/ f.type = "rsp" /\ seen' = IF Handled(f) THEN Append(seen, f.n) ELSE seen
    BY <1>14 DEF Delivers
  <2>2. /\ m \in Nat /\ m > 0
        /\ \/ \E i \in 1 .. Len(seen) : seen[i] = m
           \/ \E j \in 1 .. Len(Chan) :
                /\ Chan[j].n = m /\ Chan[j].whole /\ Chan[j].type = "rsp"
                /\ Handled(Chan[j])
        /\ \A i \in 1 .. Len(seen) :
             m < seen[i] => \E j \in 1 .. i - 1 : seen[j] = m
    BY <1>2, <1>3, <2>1
  <2>3. f.n \in Nat /\ 1 \in 1 .. Len(Chan)
    BY <1>1, <2>1, FrameFacts
  <2>4. /\ Len(Append(seen, f.n)) = Len(seen) + 1 /\ Append(seen, f.n)[Len(seen) + 1] = f.n
        /\ \A x \in 1 .. Len(seen) : Append(seen, f.n)[x] = seen[x]
    BY <2>3, AppendProperties DEF SeqType
  <2>5. seen' = seen \/ seen' = Append(seen, f.n)
    BY <2>1
  <2>6. /\ \A x \in 1 .. Len(seen) : x \in 1 .. Len(seen') /\ seen'[x] = seen[x]
        /\ \A x \in 1 .. Len(seen') :
             x \in 1 .. Len(seen) \/ (x = Len(seen) + 1 /\ seen'[x] = f.n)
    <3>1. CASE seen' = seen
      BY <3>1
    <3>2. CASE seen' = Append(seen, f.n)
      BY <1>1, <2>4, <3>2
    <3> QED
      BY <2>5, <3>1, <3>2
  <2> HIDE DEF f
  (* A result on its way is behind the frame handed over, or is that frame. *)
  <2>7. ASSUME NEW j \in 1 .. Len(Chan), Chan[j].n = m, Chan[j].whole,
               Handled(Chan[j]), Chan[j].type = "rsp"
        PROVE  /\ f.n <= m
               /\ \/ \E i \in 1 .. Len(seen') : seen'[i] = m
                  \/ \E i \in 1 .. Len(Chan') : Chan'[i].n = m
    <3>1. CASE j = 1
      <4>1. f = Chan[j]
        BY <3>1 DEF f
      <4>2. seen' = Append(seen, f.n) /\ f.n = m
        BY <2>1, <2>7, <4>1
      <4>3. Len(seen) + 1 \in 1 .. Len(seen') /\ seen'[Len(seen) + 1] = m
        BY <1>1, <2>4, <4>2
      <4> QED
        BY <2>2, <4>2, <4>3
    <3>2. CASE j > 1
      <4>1. j > k
        BY <1>1, <2>0, <2>7, <3>2
      <4>2. j - k \in 1 .. Len(Chan') /\ Chan'[j - k].n = m
        <5>1. k \in 0 .. Len(Chan)
          BY <1>1
        <5> QED
          BY <1>10, <2>0, <2>7, <4>1, <5>1
      <4>3. f.n < m
        BY <2>1, <2>2, <2>3, <2>7, <3>2 DEF OrderInv, f
      <4> QED
        BY <2>2, <2>3, <4>2, <4>3
    <3> QED
      BY <1>1, <3>1, <3>2
  <2>8. (\E i \in 1 .. Len(seen') : seen'[i] = m) \/ \E j \in 1 .. Len(Chan') : Chan'[j].n = m
    BY <2>2, <2>6, <2>7
  <2>9. ASSUME NEW i \in 1 .. Len(seen'), m < seen'[i]
        PROVE  \E j \in 1 .. i - 1 : seen'[j] = m
    <3>1. CASE i \in 1 .. Len(seen)
      <4>1. PICK j \in 1 .. i - 1 : seen[j] = m
        BY <2>2, <2>6, <2>9, <3>1
      <4>2. j \in 1 .. Len(seen)
        BY <1>1, <3>1
      <4> QED
        BY <2>6, <4>1, <4>2
    <3>2. CASE i = Len(seen) + 1 /\ seen'[i] = f.n
      <4>1. ~(f.n <= m)
        BY <2>2, <2>3, <2>9, <3>2
      <4>2. PICK j \in 1 .. Len(seen) : seen[j] = m
        BY <2>2, <2>7, <4>1
      <4>3. j \in 1 .. i - 1
        BY <1>1, <3>2
      <4> QED
        BY <2>6, <4>2, <4>3
    <3> QED
      BY <2>6, <3>1, <3>2
  <2> QED
    BY <2>8, <2>9
<1> QED
  BY <1>5, <1>6, <1>7, <1>8, <1>9, <1>11, <1>12, <1>13, <1>14 DEF Moves

-----------------------------------------------------------------------------
(* Nothing is made up of whole frames *)

LEMMA CleanStep ==
  ASSUME SeqType, OrderInv, CleanInv, Moves, Chan' \in Seq(Frames)
  PROVE  CleanInv'
<1>1. /\ Len(Chan) \in Nat /\ Len(sent) \in Nat /\ Len(seen) \in Nat /\ Len(given) \in Nat
      /\ sent \in Seq(Frames) /\ given \in Seq(Int) /\ seen \in Seq(Nat)
      /\ Chan \in Seq(Frames) /\ \A i \in 1 .. Len(Chan) : Chan[i] \in Frames
  BY SeqFacts DEF SeqType
<1> SUFFICES ASSUME \A m \in 1 .. Len(sent') : sent'[m].whole
             PROVE  /\ \A j \in 1 .. Len(Chan') : Chan'[j].whole
                    /\ \A i \in 1 .. Len(given') : given'[i] # -1
                    /\ \A i \in 1 .. Len(seen') : seen'[i] # 0
  BY DEF CleanInv
(* What holds if nothing new is sent. *)
<1>2. ASSUME UNCHANGED sent
      PROVE  /\ \A j \in 1 .. Len(Chan) : Chan[j].whole
             /\ \A i \in 1 .. Len(given) : given[i] # -1
             /\ \A i \in 1 .. Len(seen) : seen[i] # 0
  BY <1>2 DEF CleanInv
<1>3. ASSUME NEW k \in 0 .. Len(Chan), Drops(k), \A j \in 1 .. Len(Chan) : Chan[j].whole
      PROVE  \A j \in 1 .. Len(Chan') : Chan'[j].whole
  <2> SUFFICES ASSUME NEW j \in 1 .. Len(Chan')  PROVE Chan'[j].whole
    OBVIOUS
  <2>1. j + k \in 1 .. Len(Chan) /\ Chan'[j] = Chan[j + k]
    BY <1>1, <1>3 DEF Drops
  <2> QED
    BY <1>3, <2>1
<1>4. CASE Stays \/ Hooks
  BY <1>2, <1>4 DEF Stays, Hooks, outVars
<1>5. CASE Empties
  <2>1. Len(Chan') = 0
    BY <1>5 DEF Empties
  <2> QED
    BY <1>2, <1>5, <2>1 DEF Empties, outVars
<1>6. ASSUME NEW p \in Packets, Adds(p)
      PROVE  /\ \A j \in 1 .. Len(Chan') : Chan'[j].whole
             /\ \A i \in 1 .. Len(given') : given'[i] # -1
             /\ \A i \in 1 .. Len(seen') : seen'[i] # 0
  <2> DEFINE u == Numbered(p)
             l == Len(p.frames)
  <2>1. u \in Seq(Frames) /\ Len(u) = l /\ l \in Nat
    BY NewFrames
  <2>2. UNCHANGED <<given, seen>> /\ Chan' = Chan \o u /\ sent' = sent \o u
    BY <1>6 DEF Adds, outVars
  <2> HIDE DEF u, l
  <2>3. /\ Len(Chan') = Len(Chan) + l
        /\ \A i \in 1 .. Len(Chan) + l :
             Chan'[i] = IF i <= Len(Chan) THEN Chan[i] ELSE u[i - Len(Chan)]
    BY <1>1, <2>1, <2>2, ConcatProperties
  <2>4. /\ Len(sent') = Len(sent) + l
        /\ \A i \in 1 .. Len(sent) + l :
             sent'[i] = IF i <= Len(sent) THEN sent[i] ELSE u[i - Len(sent)]
    BY <1>1, <2>1, <2>2, ConcatProperties
  <2>5. ASSUME NEW m \in 1 .. Len(sent)  PROVE sent[m].whole
    <3>1. m \in 1 .. Len(sent') /\ sent'[m] = sent[m]
      BY <1>1, <2>1, <2>4
    <3> QED
      BY <3>1
  <2>6. ASSUME NEW i \in 1 .. l  PROVE u[i].whole
    <3>1. Len(sent) + i \in 1 .. Len(sent') /\ ~(Len(sent) + i <= Len(sent))
          /\ (Len(sent) + i) - Len(sent) = i
      BY <1>1, <2>1, <2>4
    <3> QED
      BY <2>4, <3>1
  <2>7. ASSUME NEW j \in 1 .. Len(Chan')  PROVE Chan'[j].whole
    <3>1. CASE j <= Len(Chan)
      BY <1>1, <2>3, <2>5, <3>1 DEF CleanInv
    <3>2. CASE j > Len(Chan)
      <4>1. Chan'[j] = u[j - Len(Chan)] /\ j - Len(Chan) \in 1 .. l
        BY <1>1, <2>1, <2>3, <3>2
      <4> QED
        BY <2>6, <4>1
    <3> QED
      BY <1>1, <3>1, <3>2
  <2> QED
    BY <2>2, <2>5, <2>7 DEF CleanInv
<1>7. CASE Delivers
  <2> DEFINE x == Chan[1].n
  <2>1. PICK k \in 1 .. Len(Chan) : Drops(k)
    BY <1>7 DEF Delivers
  <2>2. /\ UNCHANGED sent /\ given' = Append(given, x) /\ x # 0 /\ k \in 0 .. Len(Chan)
        /\ seen' = seen \/ seen' = Append(seen, x)
    BY <1>1, <1>7 DEF Delivers
  <2>3. x \in Nat /\ x \in Int /\ x # -1
    BY <1>1, <2>1, FrameFacts
  <2> HIDE DEF x
  <2>4. \A i \in 1 .. Len(given') : given'[i] # -1
    <3>1. /\ Len(given') = Len(given) + 1 /\ given'[Len(given) + 1] = x
          /\ \A i \in 1 .. Len(given) : given'[i] = given[i]
      BY <1>1, <2>2, <2>3, AppendProperties
    <3>2. \A i \in 1 .. Len(given') : i \in 1 .. Len(given) \/ i = Len(given) + 1
      BY <1>1, <3>1
    <3> QED
      BY <1>2, <2>2, <2>3, <3>1, <3>2
  <2>5. \A i \in 1 .. Len(seen') : seen'[i] # 0
    <3>1. CASE seen' = seen
      BY <1>2, <2>2, <3>1
    <3>2. CASE seen' = Append(seen, x)
      <4>1. /\ Len(seen') = Len(seen) + 1 /\ seen'[Len(seen) + 1] = x
            /\ \A i \in 1 .. Len(seen) : seen'[i] = seen[i]
        BY <1>1, <2>3, <3>2, AppendProperties
      <4>2. \A i \in 1 .. Len(seen') : i \in 1 .. Len(seen) \/ i = Len(seen) + 1
        BY <1>1, <4>1
      <4> QED
        BY <1>2, <2>2, <4>1, <4>2
    <3> QED
      BY <2>2, <3>1, <3>2
  <2>6. \A j \in 1 .. Len(Chan') : Chan'[j].whole
    BY <1>2, <1>3, <2>1, <2>2
  <2> QED
    BY <2>4, <2>5, <2>6
<1>8. CASE Loses
  BY <1>2, <1>3, <1>8 DEF Loses, outVars
<1>9. CASE Mangles \/ Splits
  <2>1. UNCHANGED sent /\ \E j \in 1 .. Len(Chan) : ~Chan[j].whole
    BY <1>1, <1>9 DEF Mangles, Splits
  <2> QED
    BY <1>2, <2>1
<1>10. CASE Pads
  <2>1. PICK k \in Nat : given' = given \o Zeros(k)
    BY <1>10 DEF Pads
  <2>2. UNCHANGED <<sent, seen>> /\ Chan' = Chan
    BY <1>10 DEF Pads
  <2>3. \A i \in 1 .. Len(given') : given'[i] = 0 \/ (i \in 1 .. Len(given) /\ given'[i] = given[i])
    BY <1>1, <2>1, PadsGiven
  <2>4. \A i \in 1 .. Len(given') : given'[i] # -1
    BY <1>2, <2>2, <2>3
  <2> QED
    BY <1>2, <2>2, <2>4
<1> QED
  BY <1>4, <1>5, <1>6, <1>7, <1>8, <1>9, <1>10 DEF Moves

-----------------------------------------------------------------------------
(* The invariant *)

LEMMA InvInit == Init => IInv
<1> SUFFICES ASSUME Init PROVE IInv
  OBVIOUS
<1> USE Constants
<1>1. /\ buf = <<>> /\ fifo = <<>> /\ sent = <<>> /\ given = <<>> /\ seen = <<>>
      /\ bornAt = 0 /\ hookedAt = -1
  BY DEF Init
<1>2. SeqType /\ Len(buf) = 0 /\ Len(fifo) = 0 /\ Len(sent) = 0 /\ Len(seen) = 0
      /\ Len(given) = 0
  BY <1>1, EmptySeq DEF SeqType
<1>3. Len(Chan) = 0 /\ DOMAIN given = 1 .. 0 /\ DOMAIN seen = 1 .. 0
  BY <1>2, SeqFacts
<1>4. TypeOK
  <2>1. LifeType
    <3>1. inits \in 0 .. MaxInits
      BY DEF Init
    <3>2. dev \in BOOLEAN /\ mgr \in BOOLEAN /\ started \in BOOLEAN /\ running \in BOOLEAN
          /\ life = "off"
      BY Zenon DEF Init
    <3> QED
      BY <3>1, <3>2 DEF LifeType
  <2>2. CountType
    BY DEF Init, CountType
  <2>3. ParseType
    <3>1. n = 0 /\ off = 0 /\ astray = FALSE
      BY DEF Init
    <3>2. 0 \in 0 .. BufSize /\ 0 \in 0 .. 0
      OBVIOUS
    <3> QED
      BY <3>1, <3>2 DEF ParseType
  <2>4. ThreadType
    BY DEF Init, ThreadType, States
  <2>5. HistType
    BY <1>1, <1>2, <1>3 DEF HistType
  <2> QED
    BY <2>1, <2>2, <2>3, <2>4, <2>5, TypeParts
<1>5. LockInv
  BY DEF Init, LockInv
<1>6. FifoInv /\ BufInv
  <2>1. astray = FALSE
    BY DEF Init
  <2> QED
    BY <1>1, <1>2, <2>1 DEF FifoInv, Packed, BufInv
<1>7. OrderInv /\ ResultInv /\ CleanInv
  BY <1>1, <1>2, <1>3 DEF OrderInv, ResultInv, CleanInv
<1> QED
  BY <1>2, <1>4, <1>5, <1>6, <1>7 DEF IInv

LEMMA InvStep == IInv /\ [Next]_vars => IInv'
<1> SUFFICES ASSUME IInv, [Next]_vars PROVE IInv'
  OBVIOUS
<1>1. /\ TypeOK /\ SeqType /\ LockInv /\ FifoInv /\ BufInv /\ OrderInv
      /\ ResultInv /\ CleanInv
  BY DEF IInv
<1>2. LifeType /\ CountType /\ HistType
  BY <1>1, TypeParts
<1>3. Moves /\ Chan' \in Seq(Frames)
  BY <1>1, Moving
<1>4. LifeType'
  BY <1>2, LifeStep
<1>5. ThreadType' /\ LockInv'
  BY <1>1, LockStep
<1>6. fifo' \in Seq(Frames) /\ FifoInv'
  BY <1>1, FifoStep
<1>7. buf' \in Seq(Frames) /\ ParseType' /\ BufInv'
  BY <1>1, BufStep
<1>8. CountType'
  BY <1>1, CountStep
<1>9. HistType' /\ sent' \in Seq(Frames) /\ given' \in Seq(Int) /\ seen' \in Seq(Nat)
  BY <1>1, <1>2, <1>3, HistStep
<1>10. OrderInv'
  BY <1>1, <1>2, <1>3, OrderStep
<1>11. ResultInv'
  BY <1>1, <1>2, <1>3, ResultStep
<1>12. CleanInv'
  BY <1>1, <1>3, CleanStep
<1>13. SeqType'
  BY <1>6, <1>7, <1>9 DEF SeqType
<1>14. TypeOK'
  BY <1>4, <1>5, <1>7, <1>8, <1>9, TypeParts, PTL
<1> QED
  BY <1>5, <1>6, <1>7, <1>10, <1>11, <1>12, <1>13, <1>14 DEF IInv

LEMMA Inductive == Spec => []IInv
  BY InvInit, InvStep, PTL DEF Spec

(* Every variable keeps its range: the thread states, the locks, the          *)
(* parser's position inside the bytes received; and every number handed over  *)
(* or shown to a callback is that of a frame the chip sent, or marks one that *)
(* nobody sent.                                                               *)
THEOREM TypeCorrect == Spec => []TypeOK
<1>1. IInv => TypeOK
  BY DEF IInv
<1> QED
  BY <1>1, Inductive, PTL

(* When a callback of the FDRV gets an end of a scan that the chip sent, it   *)
(* has seen every whole result the chip sent before, since the callback was   *)
(* set and the chip was powered, as long as no transfer failed: for any       *)
(* number of threads that fetch packets, and whatever else the packets hold   *)
(* and the parser makes of it.                                                *)
THEOREM ResultsBeforeEnd == Spec => []ScanDoneComplete
<1>1. IInv => ScanDoneComplete
  <2> SUFFICES ASSUME IInv, NEW i \in DOMAIN seen, faults = 0,
                      NEW m \in bornAt + 1 .. seen[i] - 1, Wanted(m)
               PROVE  \E j \in 1 .. i - 1 : seen[j] = m
    BY DEF ScanDoneComplete, Wanted
  <2>1. TypeOK /\ SeqType /\ ResultInv /\ HistType
    BY TypeParts DEF IInv
  <2>2. i \in 1 .. Len(seen) /\ Len(sent) \in Nat
    BY <2>1, SeqFacts
  <2>3. seen[i] \in 0 .. Len(sent) /\ bornAt \in 0 .. Len(sent)
    BY <2>1 DEF HistType
  <2>4. m \in bornAt + 1 .. Len(sent) /\ m < seen[i]
    BY <2>2, <2>3
  <2> QED
    BY <2>1, <2>2, <2>4 DEF ResultInv
<1> QED
  BY <1>1, Inductive, PTL

(* A chip whose frames are all whole never makes poll_rx_one invent a         *)
(* message: what CMD_MGR and the callbacks of the FDRV get was sent, whatever *)
(* the padding of its packets, their lengths and the threads that fetch them. *)
THEOREM NothingMadeUp == Spec => []OnlyRealMessages
<1>1. IInv => OnlyRealMessages
  <2> SUFFICES ASSUME IInv, \A m \in DOMAIN sent : sent[m].whole
               PROVE  /\ \A i \in DOMAIN given : given[i] # -1
                      /\ \A i \in DOMAIN seen : seen[i] # 0
    BY DEF OnlyRealMessages
  <2>1. SeqType /\ CleanInv
    BY DEF IInv
  <2>2. /\ DOMAIN sent = 1 .. Len(sent) /\ DOMAIN given = 1 .. Len(given)
        /\ DOMAIN seen = 1 .. Len(seen)
    BY <2>1, SeqFacts, LenProperties DEF SeqType
  <2> QED
    BY <2>1, <2>2 DEF CleanInv
<1> QED
  BY <1>1, Inductive, PTL


-----------------------------------------------------------------------------
(* The channel of RxService *)

Messages == [n: Nat, whole: BOOLEAN]

LEMMA PickOK ==
  ASSUME NEW s \in Seq(Frames)
  PROVE  /\ Pick(s) \in Seq(Messages) /\ Len(Pick(s)) = Len(s) /\ Len(s) \in Nat
         /\ \A i \in 1 .. Len(s) :
              /\ Pick(s)[i] = [n |-> s[i].n, whole |-> s[i].whole]
              /\ Pick(s)[i].n = s[i].n /\ Pick(s)[i].whole = s[i].whole
<1> DEFINE l == Len(s)
           e == [i \in 1 .. l |-> [n |-> s[i].n, whole |-> s[i].whole]]
<1>1. l \in Nat /\ \A i \in 1 .. l : s[i] \in Frames
  BY LenProperties, ElementOfSeq
<1>2. ASSUME NEW i \in 1 .. l  PROVE [n |-> s[i].n, whole |-> s[i].whole] \in Messages
  <2>1. s[i].n \in Nat /\ s[i].whole \in BOOLEAN
    BY <1>1, FrameFacts
  <2> QED
    BY <2>1 DEF Messages
<1>3. e \in [1 .. l -> Messages]
  BY <1>2
<1> HIDE DEF l
<1>4. e \in Seq(Messages) /\ Len(e) = l
  <2>1. e \in Seq(Messages)
    BY <1>1, <1>2, IsASeq
  <2> QED
    BY <1>1, <2>1, LenProperties
<1>5. Pick(s) = e
  BY DEF Pick, l
<1> QED
  BY <1>1, <1>4, <1>5 DEF l

(* One message more, behind the first j. *)
Inserted(y, c, j, x) ==
  /\ Len(y) = Len(c) + 1
  /\ \A i \in 1 .. j : y[i] = c[i]
  /\ y[j + 1] = x
  /\ \A i \in j + 2 .. Len(y) : y[i] = c[i - 1]

LEMMA Inserts ==
  ASSUME NEW S, NEW c \in Seq(S), NEW j \in 1 .. Len(c), NEW x \in S,
         NEW d \in Seq(S), Inserted(d, c, j, x)
  PROVE  d = SubSeq(c, 1, j) \o <<x>> \o SubSeq(c, j + 1, Len(c))
<1> DEFINE u == SubSeq(c, 1, j)
           v == SubSeq(c, j + 1, Len(c))
           y == u \o <<x>>
           z == y \o v
<1>1. Len(c) \in Nat /\ \A i \in 1 .. Len(c) : c[i] \in S
  BY LenProperties, ElementOfSeq
<1>2. u \in Seq(S) /\ Len(u) = j /\ \A i \in 1 .. j : u[i] = c[i]
  <2>1. \A i \in 1 .. j : c[i] \in S
    BY <1>1
  <2>2. /\ u \in Seq(S) /\ Len(u) = IF 1 <= j THEN j - 1 + 1 ELSE 0
        /\ \A i \in 1 .. j - 1 + 1 : u[i] = c[1 + i - 1]
    BY <2>1, SubSeqProperties
  <2> HIDE DEF u
  <2> QED
    BY <2>2
<1>3. v \in Seq(S) /\ Len(v) = Len(c) - j /\ \A i \in 1 .. Len(c) - j : v[i] = c[i + j]
  <2>1. \A i \in j + 1 .. Len(c) : c[i] \in S
    BY <1>1
  <2>2. /\ v \in Seq(S) /\ Len(v) = IF j + 1 <= Len(c) THEN Len(c) - (j + 1) + 1 ELSE 0
        /\ \A i \in 1 .. Len(c) - (j + 1) + 1 : v[i] = c[(j + 1) + i - 1]
    BY <1>1, <2>1, SubSeqProperties
  <2> HIDE DEF v
  <2> QED
    BY <1>1, <2>2
<1> HIDE DEF u, v
<1>4. /\ y \in Seq(S) /\ Len(y) = j + 1
      /\ \A i \in 1 .. j : y[i] = c[i]
      /\ y[j + 1] = x
  <2>1. <<x>> \in Seq(S) /\ Len(<<x>>) = 1 /\ <<x>>[1] = x
    OBVIOUS
  <2>2. /\ y \in Seq(S) /\ Len(y) = Len(u) + 1
        /\ \A i \in 1 .. Len(u) + 1 : y[i] = IF i <= Len(u) THEN u[i] ELSE <<x>>[i - Len(u)]
    BY <1>2, <2>1, ConcatProperties
  <2> HIDE DEF y
  <2> QED
    BY <1>2, <2>1, <2>2
<1> HIDE DEF y
<1>5. /\ z \in Seq(S) /\ Len(z) = Len(y) + Len(v)
      /\ \A i \in 1 .. Len(y) + Len(v) : z[i] = IF i <= Len(y) THEN y[i] ELSE v[i - Len(y)]
  <2>1. y \in Seq(S) /\ v \in Seq(S)
    BY <1>3, <1>4
  <2> QED
    BY <2>1, ConcatProperties
<1> HIDE DEF z
<1>6. Len(z) = Len(c) + 1 /\ Len(d) = Len(z)
  BY <1>1, <1>3, <1>4, <1>5 DEF Inserted
<1>7. ASSUME NEW i \in 1 .. Len(d)  PROVE d[i] = z[i]
  <2>1. i \in 1 .. Len(y) + Len(v)
    BY <1>5, <1>6
  <2>2. CASE i <= j
    <3>1. i \in 1 .. j /\ i <= Len(y)
      BY <1>1, <1>4, <2>2
    <3> QED
      BY <1>4, <1>5, <2>1, <3>1 DEF Inserted
  <2>3. CASE i = j + 1
    <3>1. i <= Len(y)
      BY <1>4, <2>3
    <3> QED
      BY <1>4, <1>5, <2>1, <2>3, <3>1 DEF Inserted
  <2>4. CASE i > j + 1
    <3>1. i \in j + 2 .. Len(d) /\ ~(i <= Len(y)) /\ i - Len(y) \in 1 .. Len(c) - j
          /\ (i - Len(y)) + j = i - 1
      BY <1>1, <1>4, <1>6, <2>4
    <3>2. d[i] = c[i - 1]
      BY <3>1 DEF Inserted
    <3> QED
      BY <1>3, <1>5, <2>1, <3>1, <3>2
  <2> QED
    BY <1>1, <2>2, <2>3, <2>4
<1> QED
  <2>1. d = z
    BY <1>5, <1>6, <1>7, SeqEqual
  <2> QED
    BY <2>1 DEF z, y, u, v

(* Every step is one of the channel's, or leaves it alone. *)
LEMMA ServiceStep ==
  ASSUME TypeOK, SeqType, LockInv, FifoInv, BufInv, [Next]_vars
  PROVE  [Service!Next]_(Service!vars)
<1> DEFINE c == Pick(Chan)
           d == Pick(Chan')
<1>1. Moves /\ Chan' \in Seq(Frames) /\ Chan \in Seq(Frames)
  BY Moving, SeqFacts
<1>2. /\ c \in Seq(Messages) /\ Len(c) = Len(Chan) /\ Len(Chan) \in Nat
      /\ \A i \in 1 .. Len(Chan) :
           /\ c[i] = [n |-> Chan[i].n, whole |-> Chan[i].whole]
           /\ c[i].n = Chan[i].n /\ c[i].whole = Chan[i].whole
  BY <1>1, PickOK
<1>3. /\ d \in Seq(Messages) /\ Len(d) = Len(Chan') /\ Len(Chan') \in Nat
      /\ \A i \in 1 .. Len(Chan') :
           d[i] = [n |-> Chan'[i].n, whole |-> Chan'[i].whole]
  BY <1>1, PickOK
<1>4. Pick(buf \o fifo) = c /\ Pick(buf \o fifo)' = d
  BY DEF Chan, Pick
<1> HIDE DEF c, d
<1>5. ASSUME NEW k \in 0 .. Len(Chan), Drops(k)  PROVE d = SubSeq(c, k + 1, Len(c))
  <2> DEFINE u == SubSeq(c, k + 1, Len(c))
  <2>1. \A i \in k + 1 .. Len(c) : c[i] \in Messages
    BY <1>2, ElementOfSeq
  <2>2. /\ u \in Seq(Messages) /\ Len(u) = Len(c) - k
        /\ \A i \in 1 .. Len(c) - k : u[i] = c[i + k]
    <3>1. /\ u \in Seq(Messages)
          /\ Len(u) = IF k + 1 <= Len(c) THEN Len(c) - (k + 1) + 1 ELSE 0
          /\ \A i \in 1 .. Len(c) - (k + 1) + 1 : u[i] = c[(k + 1) + i - 1]
      BY <1>2, <2>1, SubSeqProperties
    <3> HIDE DEF u
    <3> QED
      BY <1>2, <3>1
  <2> HIDE DEF u
  <2>3. Len(d) = Len(u)
    BY <1>2, <1>3, <1>5, <2>2 DEF Drops
  <2>4. ASSUME NEW i \in 1 .. Len(d)  PROVE d[i] = u[i]
    <3>1. i \in 1 .. Len(Chan') /\ i \in 1 .. Len(c) - k /\ i + k \in 1 .. Len(Chan)
      BY <1>2, <1>3, <2>2, <2>3
    <3>2. Chan'[i] = Chan[i + k]
      BY <1>5, <3>1 DEF Drops
    <3> QED
      BY <1>2, <1>3, <2>2, <3>1, <3>2
  <2>5. d = u
    BY <1>3, <2>2, <2>3, <2>4, SeqEqual
  <2> QED
    BY <2>5 DEF u
<1>6. CASE Stays \/ Hooks
  <2>1. d = c /\ UNCHANGED <<given, faults>>
    BY <1>6 DEF Stays, Hooks, outVars, c, d
  <2> QED
    BY <1>4, <2>1 DEF Service!vars
<1>7. CASE Empties
  <2>1. Chan' = <<>> /\ UNCHANGED <<given, faults>>
    BY <1>7 DEF Empties, outVars
  <2>2. Len(d) = 0
    BY <1>3, <2>1
  <2>3. d = <<>>
    BY <1>3, <2>2, EmptySeq
  <2> QED
    BY <1>4, <2>1, <2>3 DEF Service!Reset, Service!Next
<1>8. ASSUME NEW p \in Packets, Adds(p)  PROVE Service!Send
  <2>1. Chan' = Chan \o Numbered(p) /\ UNCHANGED <<given, faults>>
    BY <1>8 DEF Adds, outVars
  <2>2. Numbered(p) \in Seq(Frames) /\ Len(Numbered(p)) \in Nat /\ Len(Numbered(p)) > 0
    BY NewFrames
  <2>3. /\ Len(Chan') = Len(Chan) + Len(Numbered(p))
        /\ \A i \in 1 .. Len(Chan') :
             Chan'[i] = IF i <= Len(Chan) THEN Chan[i] ELSE Numbered(p)[i - Len(Chan)]
    BY <1>1, <2>1, <2>2, ConcatProperties
  <2>4. Len(d) > Len(c)
    BY <1>2, <1>3, <2>2, <2>3
  <2> DEFINE u == SubSeq(d, 1, Len(c))
  <2>5. /\ u \in Seq(Messages) /\ Len(u) = Len(c) /\ \A i \in 1 .. Len(c) : u[i] = d[i]
    <3>1. \A i \in 1 .. Len(c) : d[i] \in Messages
      BY <1>2, <1>3, <2>4, ElementOfSeq
    <3>2. /\ u \in Seq(Messages)
          /\ Len(u) = IF 1 <= Len(c) THEN Len(c) - 1 + 1 ELSE 0
          /\ \A i \in 1 .. Len(c) - 1 + 1 : u[i] = d[1 + i - 1]
      BY <1>2, <3>1, SubSeqProperties
    <3> HIDE DEF u
    <3> QED
      BY <1>2, <3>2
  <2> HIDE DEF u
  <2>6. ASSUME NEW i \in 1 .. Len(u)  PROVE u[i] = c[i]
    <3>1. i \in 1 .. Len(Chan) /\ i \in 1 .. Len(Chan') /\ i \in 1 .. Len(c)
      BY <1>2, <1>3, <2>4, <2>5
    <3>2. Chan'[i] = Chan[i]
      BY <1>2, <2>3, <3>1
    <3> QED
      BY <1>2, <1>3, <2>5, <3>1, <3>2
  <2>7. u = c
    BY <1>2, <2>5, <2>6, SeqEqual
  <2> QED
    BY <1>4, <2>1, <2>4, <2>7 DEF Service!Send, u
<1>9. CASE Delivers
  <2>1. PICK k \in 1 .. Len(Chan) : (\A i \in 2 .. k : ~Chan[i].whole) /\ Drops(k)
    BY <1>9 DEF Delivers
  <2>2. given' = Append(given, Chan[1].n) /\ UNCHANGED faults
    BY <1>9 DEF Delivers
  <2>3. /\ k \in 1 .. Len(c) /\ k \in 0 .. Len(Chan) /\ 1 \in 1 .. Len(Chan) /\ Len(c) > 0
        /\ \A i \in 2 .. k : i \in 1 .. Len(Chan)
    BY <1>2
  <2>4. c # <<>> /\ c[1].n = Chan[1].n /\ \A i \in 2 .. k : ~c[i].whole
    <3>1. c # <<>>
      BY <2>3
    <3> QED
      BY <1>2, <2>1, <2>3, <3>1
  <2>5. Head(c) = c[1]
    BY <1>2, <2>4, HeadTailProperties
  <2>6. d = SubSeq(c, k + 1, Len(c))
    BY <1>5, <2>1, <2>3
  <2>7. Service!Deliver
    BY <1>4, <2>2, <2>3, <2>4, <2>5, <2>6 DEF Service!Deliver
  <2> QED
    BY <2>7 DEF Service!Next
<1>10. CASE Loses
  <2>1. PICK k \in 0 .. Len(Chan) : Drops(k)
    BY <1>10 DEF Loses
  <2>2. faults' = faults + 1 /\ UNCHANGED given
    BY <1>10 DEF Loses, outVars
  <2>3. k \in 0 .. Len(c) /\ d = SubSeq(c, k + 1, Len(c))
    BY <1>2, <1>5, <2>1
  <2>4. Service!Fault
    BY <1>4, <2>2, <2>3 DEF Service!Fault
  <2> QED
    BY <2>4 DEF Service!Next
<1>11. CASE Mangles
  <2>1. PICK k \in 0 .. Len(Chan) : (\A i \in 1 .. k : ~Chan[i].whole) /\ Drops(k)
    BY <1>11 DEF Mangles
  <2>2. /\ Len(Chan) > 0 /\ ~Chan[1].whole /\ UNCHANGED faults
        /\ given' \in {given, Append(given, 0), Append(given, -1)}
    BY <1>11 DEF Mangles
  <2>3. /\ k \in 0 .. Len(c) /\ 1 \in 1 .. Len(Chan) /\ Len(c) > 0
        /\ \A i \in 1 .. k : i \in 1 .. Len(Chan)
    BY <1>2, <2>2
  <2>4. c # <<>> /\ ~c[1].whole /\ \A i \in 1 .. k : ~c[i].whole
    <3>1. c # <<>>
      BY <2>3
    <3> QED
      BY <1>2, <2>1, <2>2, <2>3, <3>1
  <2>5. Head(c) = c[1]
    BY <1>2, <2>4, HeadTailProperties
  <2>6. d = SubSeq(c, k + 1, Len(c))
    BY <1>5, <2>1
  <2>7. Service!Mangle
    BY <1>4, <2>2, <2>3, <2>4, <2>5, <2>6 DEF Service!Mangle
  <2> QED
    BY <2>7 DEF Service!Next
<1>12. CASE Splits
  <2>1. PICK j \in 1 .. Len(Chan) : ~Chan[j].whole /\ Leaves(j)
    BY <1>12 DEF Splits
  <2>2. UNCHANGED <<given, faults>>
    BY <1>12 DEF Splits, outVars
  <2>3. /\ Len(Chan') = Len(Chan) + 1
        /\ \A i \in 1 .. j : Chan'[i] = Chan[i]
        /\ Chan'[j + 1].n = 0 /\ Chan'[j + 1].whole = FALSE
        /\ \A i \in j + 2 .. Len(Chan') : Chan'[i] = Chan[i - 1]
    BY <2>1 DEF Leaves
  <2>4. Service!Rest = [n |-> 0, whole |-> FALSE] /\ Service!Rest \in Messages
    BY DEF Service!Rest, Messages
  <2>5. j \in 1 .. Len(c) /\ ~c[j].whole /\ Len(d) = Len(c) + 1
    BY <1>2, <1>3, <2>1, <2>3
  <2>6. ASSUME NEW i \in 1 .. j  PROVE d[i] = c[i]
    <3>1. i \in 1 .. Len(Chan) /\ i \in 1 .. Len(Chan') /\ Chan'[i] = Chan[i]
      BY <1>2, <2>3
    <3> QED
      BY <1>2, <1>3, <3>1
  <2>7. d[j + 1] = Service!Rest
    <3>1. j + 1 \in 1 .. Len(Chan')
      BY <1>2, <2>3
    <3> QED
      BY <1>3, <2>3, <2>4, <3>1
  <2>8. ASSUME NEW i \in j + 2 .. Len(d)  PROVE d[i] = c[i - 1]
    <3>1. i \in j + 2 .. Len(Chan') /\ i \in 1 .. Len(Chan') /\ i - 1 \in 1 .. Len(Chan)
      BY <1>2, <1>3, <2>3
    <3>2. Chan'[i] = Chan[i - 1]
      BY <2>3, <3>1
    <3> QED
      BY <1>2, <1>3, <3>1, <3>2
  <2>9. Inserted(d, c, j, Service!Rest)
    BY <2>5, <2>6, <2>7, <2>8 DEF Inserted
  <2>10. d = SubSeq(c, 1, j) \o <<Service!Rest>> \o SubSeq(c, j + 1, Len(c))
    BY <1>2, <1>3, <2>4, <2>5, <2>9, Inserts
  <2>11. Service!Split
    BY <1>4, <2>2, <2>5, <2>10 DEF Service!Split
  <2> QED
    BY <2>11 DEF Service!Next
<1>13. CASE Pads
  <2>1. PICK k \in Nat : given' = given \o Zeros(k)
    BY <1>13 DEF Pads
  <2>2. d = c /\ UNCHANGED faults
    BY <1>13 DEF Pads, c, d
  <2>3. /\ given \in Seq(Int) /\ given' \in Seq(Int)
        /\ Len(given') = Len(given) + k /\ Len(given) \in Nat
        /\ \A i \in 1 .. Len(given) : given'[i] = given[i]
        /\ \A i \in Len(given) + 1 .. Len(given') : given'[i] = 0
    BY <2>1, PadsGiven DEF SeqType
  <2> DEFINE u == SubSeq(given', 1, Len(given))
  <2>4. /\ u \in Seq(Int) /\ Len(u) = Len(given)
        /\ \A i \in 1 .. Len(given) : u[i] = given'[i]
    <3>1. \A i \in 1 .. Len(given) : given'[i] \in Int
      BY <2>3, ElementOfSeq
    <3>2. /\ u \in Seq(Int)
          /\ Len(u) = IF 1 <= Len(given) THEN Len(given) - 1 + 1 ELSE 0
          /\ \A i \in 1 .. Len(given) - 1 + 1 : u[i] = given'[1 + i - 1]
      BY <2>3, <3>1, SubSeqProperties
    <3> HIDE DEF u
    <3> QED
      BY <2>3, <3>2
  <2> HIDE DEF u
  <2>5. u = given
    BY <2>3, <2>4, SeqEqual
  <2>6. CASE k = 0
    <3>1. given' = given
      <4>1. Len(given') = Len(given) /\ \A i \in 1 .. Len(given') : given'[i] = given[i]
        BY <2>3, <2>6
      <4> QED
        BY <2>3, <4>1, SeqEqual
    <3> QED
      BY <1>4, <2>2, <3>1 DEF Service!vars
  <2>7. CASE k > 0
    <3>1. Len(given') > Len(given)
      BY <2>3, <2>7
    <3>2. Service!Pad
      BY <1>4, <2>2, <2>3, <2>5, <3>1 DEF Service!Pad, u
    <3> QED
      BY <3>2 DEF Service!Next
  <2> QED
    BY <2>6, <2>7
<1> QED
  BY <1>1, <1>6, <1>7, <1>8, <1>9, <1>10, <1>11, <1>12, <1>13 DEF Moves, Service!Next

(* The receive path implements the channel of RxService: whichever thread     *)
(* fetches a packet, every whole frame of the chip is handed over once and in *)
(* order, and only a failed transfer or a power cycle loses one; only frames  *)
(* that are not whole are lost or misread otherwise, and only they make the   *)
(* parser hand over a message nobody sent.                                    *)
THEOREM ImplementsService == Spec => ServiceSpec
<1>1. Init => Service!Init
  <2> SUFFICES ASSUME Init PROVE Service!Init
    OBVIOUS
  <2>1. buf = <<>> /\ fifo = <<>> /\ given = <<>> /\ faults = 0
    BY DEF Init
  <2>2. <<>> \in Seq(Frames) /\ Len(<<>>) = 0 /\ buf \o fifo = <<>>
    BY <2>1, EmptySeq, ConcatEmptySeq
  <2>3. Pick(<<>>) \in Seq(Messages) /\ Len(Pick(<<>>)) = 0
    BY <2>2, PickOK
  <2>4. Pick(<<>>) = <<>>
    BY <2>3, EmptySeq
  <2> QED
    BY <2>1, <2>2, <2>4 DEF Service!Init
<1>2. IInv /\ [Next]_vars => [Service!Next]_(Service!vars)
  BY ServiceStep DEF IInv
<1> QED
  BY <1>1, <1>2, Inductive, PTL DEF Spec, ServiceSpec, Service!Spec

-----------------------------------------------------------------------------
(* Handed over once *)

(* What poll_rx_one hands over (on_cfm, the callbacks) are frames of the chip *)
(* in the order it sent them, none of them twice, whichever threads fetch     *)
(* them and whatever is lost or made up in between.                           *)
HandedOverOnce ==
  \A i, j \in 1 .. Len(given) :
    i < j /\ given[i] > 0 /\ given[j] > 0 => given[i] < given[j]

(* Nor is any of them still on its way. *)
GivenInv ==
  /\ HandedOverOnce
  /\ \A i \in 1 .. Len(given), j \in 1 .. Len(Chan) :
       Chan[j].n # 0 => given[i] < Chan[j].n

LEMMA GivenStep ==
  ASSUME IInv, GivenInv, [Next]_vars  PROVE GivenInv'
<1>1. SeqType /\ OrderInv /\ HistType /\ Moves /\ Chan' \in Seq(Frames)
  BY TypeParts, Moving DEF IInv
<1>2. /\ Len(Chan) \in Nat /\ Len(sent) \in Nat /\ Len(given) \in Nat
      /\ DOMAIN given = 1 .. Len(given) /\ given \in Seq(Int)
      /\ \A i \in 1 .. Len(Chan) : Chan[i] \in Frames /\ Chan[i].n \in Nat
  BY <1>1, SeqFacts, FrameFacts DEF SeqType
<1>3. /\ \A i \in 1 .. Len(given) : given[i] \in -1 .. Len(sent)
      /\ \A j \in 1 .. Len(Chan) : Chan[j].n # 0 => Chan[j].n \in 1 .. Len(sent)
      /\ \A i, j \in 1 .. Len(Chan) :
           i < j /\ Chan[i].n # 0 /\ Chan[j].n # 0 => Chan[i].n < Chan[j].n
  BY <1>1, <1>2 DEF HistType, OrderInv
<1>4. /\ \A i, j \in 1 .. Len(given) :
           i < j /\ given[i] > 0 /\ given[j] > 0 => given[i] < given[j]
      /\ \A i \in 1 .. Len(given), j \in 1 .. Len(Chan) :
           Chan[j].n # 0 => given[i] < Chan[j].n
  BY DEF GivenInv, HandedOverOnce
(* The frames on their way are old ones, or come after all that were sent. *)
<1>5. ASSUME UNCHANGED given,
             \A j \in 1 .. Len(Chan') : Chan'[j].n # 0 =>
               \/ \E i \in 1 .. Len(Chan) : Chan'[j] = Chan[i]
               \/ Chan'[j].n \in Nat /\ Chan'[j].n > Len(sent)
      PROVE  GivenInv'
  <2>1. ASSUME NEW i \in 1 .. Len(given), NEW j \in 1 .. Len(Chan'), Chan'[j].n # 0
        PROVE  given[i] < Chan'[j].n
    <3>1. given[i] \in -1 .. Len(sent)
      BY <1>3
    <3>2. CASE \E m \in 1 .. Len(Chan) : Chan'[j] = Chan[m]
      BY <1>4, <2>1, <3>2
    <3>3. CASE Chan'[j].n \in Nat /\ Chan'[j].n > Len(sent)
      BY <1>2, <3>1, <3>3
    <3> QED
      BY <1>5, <2>1, <3>2, <3>3
  <2> QED
    BY <1>4, <1>5, <2>1 DEF GivenInv, HandedOverOnce
<1>6. CASE Stays \/ Hooks
  BY <1>5, <1>6 DEF Stays, Hooks, outVars
<1>7. CASE Empties
  <2>1. Len(Chan') = 0 /\ UNCHANGED given
    BY <1>7 DEF Empties, outVars
  <2> QED
    BY <1>5, <2>1
<1>8. ASSUME NEW p \in Packets, Adds(p)  PROVE GivenInv'
  <2> DEFINE u == Numbered(p)
  <2>1. /\ u \in Seq(Frames) /\ Len(u) \in Nat
        /\ \A i \in 1 .. Len(u) : u[i].n = Len(sent) + i
    BY <1>1, NewFrames
  <2>2. UNCHANGED given /\ Chan' = Chan \o u /\ Chan \in Seq(Frames)
    BY <1>1, <1>8, SeqFacts DEF Adds, outVars
  <2> HIDE DEF u
  <2>3. /\ Len(Chan') = Len(Chan) + Len(u)
        /\ \A i \in 1 .. Len(Chan) + Len(u) :
             Chan'[i] = IF i <= Len(Chan) THEN Chan[i] ELSE u[i - Len(Chan)]
    BY <2>1, <2>2, ConcatProperties
  <2>4. ASSUME NEW j \in 1 .. Len(Chan')
        PROVE  \/ \E i \in 1 .. Len(Chan) : Chan'[j] = Chan[i]
               \/ Chan'[j].n \in Nat /\ Chan'[j].n > Len(sent)
    <3>1. CASE j <= Len(Chan)
      <4>1. j \in 1 .. Len(Chan) /\ j \in 1 .. Len(Chan) + Len(u)
        BY <1>2, <2>1, <3>1
      <4> QED
        BY <2>3, <3>1, <4>1
    <3>2. CASE j > Len(Chan)
      <4>1. j - Len(Chan) \in 1 .. Len(u) /\ Chan'[j] = u[j - Len(Chan)]
        BY <1>2, <2>1, <2>3, <3>2
      <4>2. Chan'[j].n = Len(sent) + (j - Len(Chan))
        BY <2>1, <4>1
      <4> QED
        BY <1>2, <2>1, <4>1, <4>2
    <3> QED
      BY <1>2, <3>1, <3>2
  <2> QED
    BY <1>5, <2>2, <2>4
<1>9. ASSUME NEW k \in 0 .. Len(Chan), Drops(k)
      PROVE  \A j \in 1 .. Len(Chan') :
               j + k \in 1 .. Len(Chan) /\ Chan'[j] = Chan[j + k]
  BY <1>2, <1>9 DEF Drops
<1>10. CASE Loses
  BY <1>5, <1>9, <1>10 DEF Loses, outVars
(* Something goes to the end of what was handed over. *)
<1>11. ASSUME NEW x \in Int, given' = Append(given, x),
              x > 0 => \A i \in 1 .. Len(given) : given[i] < x,
              \A j \in 1 .. Len(Chan') : Chan'[j].n # 0 =>
                x < Chan'[j].n /\ \A i \in 1 .. Len(given) : given[i] < Chan'[j].n
       PROVE  GivenInv'
  <2>1. /\ Len(given') = Len(given) + 1 /\ given'[Len(given) + 1] = x
        /\ \A i \in 1 .. Len(given) : given'[i] = given[i]
    BY <1>2, <1>11, AppendProperties
  <2>2. \A i \in 1 .. Len(given') : i \in 1 .. Len(given) \/ i = Len(given) + 1
    BY <1>2, <2>1
  <2>3. ASSUME NEW i \in 1 .. Len(given'), NEW j \in 1 .. Len(given'), i < j,
               given'[i] > 0, given'[j] > 0
        PROVE  given'[i] < given'[j]
    <3>1. i \in 1 .. Len(given)
      BY <1>2, <2>1, <2>3
    <3>2. CASE j \in 1 .. Len(given)
      BY <1>4, <2>1, <2>3, <3>1, <3>2
    <3>3. CASE j = Len(given) + 1
      BY <1>11, <2>1, <2>3, <3>1, <3>3
    <3> QED
      BY <2>2, <3>2, <3>3
  <2>4. ASSUME NEW i \in 1 .. Len(given'), NEW j \in 1 .. Len(Chan'), Chan'[j].n # 0
        PROVE  given'[i] < Chan'[j].n
    BY <1>11, <2>1, <2>2, <2>4
  <2> QED
    BY <2>3, <2>4 DEF GivenInv, HandedOverOnce
<1>12. CASE Delivers
  <2> DEFINE x == Chan[1].n
  <2>1. PICK k \in 1 .. Len(Chan) : Drops(k)
    BY <1>12 DEF Delivers
  <2>2. x # 0 /\ given' = Append(given, x)
    BY <1>12 DEF Delivers
  <2>3. 1 \in 1 .. Len(Chan) /\ k \in 0 .. Len(Chan) /\ x \in Nat /\ x \in Int
    BY <1>2, <2>1
  <2>4. \A i \in 1 .. Len(given) : given[i] < x
    BY <1>4, <2>2, <2>3
  <2>5. ASSUME NEW j \in 1 .. Len(Chan'), Chan'[j].n # 0
        PROVE  x < Chan'[j].n /\ \A i \in 1 .. Len(given) : given[i] < Chan'[j].n
    <3>1. j + k \in 1 .. Len(Chan) /\ Chan'[j] = Chan[j + k] /\ 1 < j + k
      BY <1>9, <2>1, <2>3
    <3> QED
      BY <1>3, <1>4, <2>2, <2>3, <2>5, <3>1
  <2> HIDE DEF x
  <2> QED
    BY <1>11, <2>2, <2>3, <2>4, <2>5
<1>13. CASE Mangles
  <2>1. PICK k \in 0 .. Len(Chan) : Drops(k)
    BY <1>13 DEF Mangles
  <2>2. CASE UNCHANGED given
    BY <1>5, <1>9, <2>1, <2>2
  <2>3. ASSUME NEW x \in {0, -1}, given' = Append(given, x)  PROVE GivenInv'
    <3>1. x \in Int /\ ~(x > 0)
      OBVIOUS
    <3>2. ASSUME NEW j \in 1 .. Len(Chan'), Chan'[j].n # 0
          PROVE  x < Chan'[j].n /\ \A i \in 1 .. Len(given) : given[i] < Chan'[j].n
      <4>1. j + k \in 1 .. Len(Chan) /\ Chan'[j] = Chan[j + k]
        BY <1>9, <2>1
      <4> QED
        BY <1>2, <1>4, <3>2, <4>1
    <3> QED
      BY <1>11, <2>3, <3>1, <3>2
  <2> QED
    BY <1>13, <2>2, <2>3 DEF Mangles
<1>14. CASE Splits
  <2>1. PICK k \in 1 .. Len(Chan) : Leaves(k)
    BY <1>14 DEF Splits
  <2>2. UNCHANGED given
    BY <1>14 DEF Splits, outVars
  <2>3. ASSUME NEW j \in 1 .. Len(Chan'), Chan'[j].n # 0
        PROVE  \E i \in 1 .. Len(Chan) : Chan'[j] = Chan[i]
    <3>1. j # k + 1 /\ Len(Chan') = Len(Chan) + 1
      BY <2>1, <2>3 DEF Leaves
    <3>2. CASE j <= k
      <4>1. j \in 1 .. k /\ j \in 1 .. Len(Chan)
        BY <1>2, <3>2
      <4> QED
        BY <2>1, <4>1 DEF Leaves
    <3>3. CASE j > k + 1
      <4>1. j \in k + 2 .. Len(Chan') /\ j - 1 \in 1 .. Len(Chan)
        BY <1>2, <3>1, <3>3
      <4> QED
        BY <2>1, <4>1 DEF Leaves
    <3> QED
      BY <1>2, <3>1, <3>2, <3>3
  <2> QED
    BY <1>5, <2>2, <2>3
<1>15. CASE Pads
  <2>1. PICK k \in Nat : given' = given \o Zeros(k)
    BY <1>15 DEF Pads
  <2>2. Chan' = Chan
    BY <1>15 DEF Pads
  <2>3. /\ Len(given') = Len(given) + k
        /\ \A i \in 1 .. Len(given') :
             given'[i] = 0 \/ (i \in 1 .. Len(given) /\ given'[i] = given[i])
    BY <1>2, <2>1, PadsGiven
  <2>4. ASSUME NEW i \in 1 .. Len(given'), NEW j \in 1 .. Len(given'), i < j,
               given'[i] > 0, given'[j] > 0
        PROVE  given'[i] < given'[j]
    BY <1>4, <2>3, <2>4
  <2>5. ASSUME NEW i \in 1 .. Len(given'), NEW j \in 1 .. Len(Chan'), Chan'[j].n # 0
        PROVE  given'[i] < Chan'[j].n
    BY <1>2, <1>4, <2>2, <2>3, <2>5
  <2> QED
    BY <2>4, <2>5 DEF GivenInv, HandedOverOnce
<1> QED
  BY <1>1, <1>6, <1>7, <1>8, <1>10, <1>12, <1>13, <1>14, <1>15 DEF Moves

(* No frame is handed over twice or after one the chip sent later, however    *)
(* busrx and the waiting senders take turns and whatever transfers fail.      *)
THEOREM NeverTwice == Spec => []HandedOverOnce
<1>1. Init => GivenInv
  <2> SUFFICES ASSUME Init PROVE GivenInv
    OBVIOUS
  <2>1. Len(given) = 0
    BY DEF Init
  <2> QED
    BY <2>1 DEF GivenInv, HandedOverOnce
<1>2. IInv /\ GivenInv /\ [Next]_vars => GivenInv'
  BY GivenStep
<1>3. GivenInv => HandedOverOnce
  BY DEF GivenInv
<1> QED
  BY <1>1, <1>2, <1>3, Inductive, PTL DEF Spec
=============================================================================
