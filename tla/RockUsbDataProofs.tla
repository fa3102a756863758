------------------------- MODULE RockUsbDataProofs -------------------------
(* Proofs about the data of RockUsb: with an orderly host whose commands   *)
(* stay on the medium, reads return and writes leave what was written.     *)
EXTENDS RockUsbLinkProofs

(* A pass has work only in these situations, and the IN endpoint rests.    *)
LEMMA PassWorks ==
    ASSUME LinkInv, Pass
    PROVE  /\ Dev \in DevType /\ Dev.u = usbcmd /\ Rests(Dev) /\ InIdle /\ pc = "run"
           /\ rx_buffer \in [0 .. 1 -> ContentType]
           /\ \/ Commanded \/ Receiving
              \/ (Uploading \/ Finishing) /\ host.cmd.op \notin Writes
<1>1. DeviceOK /\ HostOK /\ Situation
    BY LinkParts, Zenon DEF Settled
<1>2. /\ Dev \in DevType /\ Dev.u = usbcmd /\ (Rests(Dev) <=> InIdle) /\ HasWork(Dev) /\ pc = "run"
      /\ rx_buffer \in [0 .. 1 -> ContentType]
    BY <1>1, DevTyped, DevLink, Zenon DEF Pass, HostOK
<1>3. Commanded \/ Receiving \/ Uploading \/ Finishing
    BY <1>1, <1>2 DEF Situation, HasWork, HasCommand, Responds, Detached, Ready, Answering,
       Failed, Hung, AwaitsCommand, OutBusy
<1>4. CASE Commanded \/ Receiving
  <2>1. InIdle
    BY <1>4, Zenon DEF Commanded, Receiving
  <2> QED
    BY <1>2, <1>4, <2>1, Zenon
<1>5. CASE Uploading
  <2>1. PICK j \in 1 .. host.cmd.n : usbcmd.u_bytes = j * BLOCK_MAX * UNIT
    BY <1>5, Zenon DEF Uploading
  <2>2. host.cmd.n \in Nat
    BY <1>1, Zenon DEF HostOK, HostType, CmdType
  <2>3. usbcmd.u_bytes # 0 /\ usbcmd.status = "TXDATA_PREPARE"
    BY <1>5, <2>1, <2>2, Multiples DEF UNIT, Uploading
  <2>4. usbcmd.tx = "OK"
    BY <1>2, <2>3, Zenon DEF HasWork, HasCommand, Responds
  <2>5. InIdle /\ host.cmd.op \notin Writes
    BY <1>5, <2>4, Zenon DEF Uploading, InBusy, Serving, Reads, Writes
  <2> QED
    BY <1>2, <1>5, <2>5, Zenon
<1>6. CASE Finishing
  <2>1. usbcmd.status = "CSW"
    BY <1>6, Zenon DEF Finishing
  <2>2. usbcmd.tx = "OK"
    BY <1>2, <2>1, Zenon DEF HasWork, HasCommand, Responds
  <2>3. InIdle /\ host.cmd.op \notin Writes
    BY <1>6, <2>2, Zenon DEF Finishing, InBusy, Serving, Reads, Small, Writes
  <2> QED
    BY <1>2, <1>6, <2>3, Zenon
<1> QED
    BY <1>3, <1>4, <1>5, <1>6, Zenon

(* What the gadget does with the command it takes, but for the data.       *)
LEMMA CommandKeeps ==
    ASSUME LinkInv, Pass, Commanded
    PROVE  LET s == Serve(Dev, rx_buffer)
           IN  s.med = medium /\ s.sec = sec
<1> DEFINE s == Serve(Dev, rx_buffer)
           c == host.cmd
<1>1. DeviceOK /\ HostOK /\ OfSession /\ Orderly /\ AheadInv
    BY LinkParts, Zenon DEF Settled
<1>2. /\ Dev \in DevType /\ Rests(Dev) /\ Idle(Dev.out) /\ HasCommand(Dev.u)
      /\ Fetched(Dev, rx_buffer) = c /\ Dev.u = usbcmd /\ c.n \in Nat
    BY <1>1, PassTakes, Zenon
<1>3. Dev.med = medium /\ Dev.sec = sec /\ rx_buffer \in [0 .. 1 -> ContentType]
    BY <1>1, DevTyped, Zenon DEF HostOK
<1> HIDE DEF Dev
<1>4. CASE Control(c.op)
    BY <1>2, <1>3, <1>4, ServeControl, Zenon
<1>5. CASE c.op \in Small
    BY <1>2, <1>3, <1>5, ServeShort, Zenon DEF SameRest
<1>6. CASE c.op \in Writes
    BY <1>2, <1>3, <1>6, ServeWrite, Zenon DEF SameRest
<1>7. CASE c.op \in Reads /\ c.n = 0
    BY <1>2, <1>3, <1>7, ServeReadNone, Zenon DEF SameRest
<1>8. CASE c.op \in Reads /\ c.n > 0
  <2>1. Dev.u.pre_blocks # 0 => Dev.u.pre_lba # c.lba
    BY <1>1, <1>2, <1>8, BeginsAfresh, Zenon
  <2>2. PICK p \in DevType : Uploaded(p, s, 0, c.n) /\ SameRest(Dev, p)
    BY <1>2, <1>3, <1>8, <2>1, ServeRead, Zenon
  <2>3. SameRest(p, s)
    BY <2>2, Zenon DEF Uploaded
  <2> QED
    BY <1>3, <2>2, <2>3, Zenon DEF SameRest
<1> QED
    BY <1>2, <1>4, <1>5, <1>6, <1>7, <1>8 DEF Control

(* Only the data of a write change the medium or the lock.                 *)
LEMMA PassKeeps ==
    ASSUME LinkInv, Pass, ~Receiving
    PROVE  medium' = medium /\ sec'.lock = sec.lock /\ (pc' = "delay" => Control(host.cmd.op))
<1> DEFINE s == Serve(Dev, rx_buffer)
           n == host.cmd.n
<1>1. DeviceOK /\ HostOK /\ usbcmd.reset_flag \notin Reboots \cup {16} /\ n \in Nat
    BY LinkParts, Zenon DEF Settled, HostOK, HostType, CmdType
<1>2. /\ Dev \in DevType /\ Dev.u = usbcmd /\ Rests(Dev) /\ InIdle
      /\ Commanded \/ Uploading \/ Finishing
    BY PassWorks, Zenon
<1>3. Dev.med = medium /\ Dev.sec = sec /\ (Idle(Dev.out) <=> Idle(ep_out))
    BY <1>1, DevTyped, DevLink, Zenon
<1>4. s.med = medium /\ s.sec = sec /\ (s.u.reset_flag # usbcmd.reset_flag => Control(host.cmd.op))
  <2> HIDE DEF Dev
  <2>1. CASE Commanded
    <3>1. s.med = medium /\ s.sec = sec
      BY <2>1, CommandKeeps, Zenon
    <3>2. /\ HasCommand(Dev.u) /\ Fetched(Dev, rx_buffer) = host.cmd /\ Idle(Dev.out)
          /\ rx_buffer \in [0 .. 1 -> ContentType]
      BY <1>1, <2>1, PassTakes, Zenon DEF HostOK
    <3>3. CASE host.cmd.op \in Small
      BY <1>2, <3>1, <3>2, <3>3, ServeShort, Zenon
    <3>4. CASE host.cmd.op \in Writes
      BY <1>2, <3>1, <3>2, <3>4, ServeWrite, Zenon
    <3>5. CASE host.cmd.op \in Reads /\ n = 0
      BY <1>2, <3>1, <3>2, <3>5, ServeReadNone, Zenon
    <3>6. CASE host.cmd.op \in Reads /\ n > 0
      <4>1. Dev.u.pre_blocks # 0 => Dev.u.pre_lba # host.cmd.lba
        BY <1>1, <1>2, <2>1, <3>6, BeginsAfresh, LinkParts, Zenon DEF Settled
      <4>2. PICK p \in DevType : Uploaded(p, s, 0, n) /\ p.u.reset_flag = Dev.u.reset_flag
        BY <1>2, <3>2, <3>6, <4>1, ServeRead, Zenon
      <4>3. s.u.reset_flag = Dev.u.reset_flag
        BY <4>2, Zenon DEF Uploaded
      <4> QED
        BY <1>2, <3>1, <4>3, Zenon
    <3> QED
      BY <1>1, <3>1, <3>3, <3>4, <3>5, <3>6 DEF Control
  <2>2. CASE Uploading
    <3>1. PICK j \in 1 .. n : j * BLOCK_MAX < n /\ usbcmd.u_bytes = j * BLOCK_MAX * UNIT
      BY <2>2, Zenon DEF Uploading
    <3>2. j * BLOCK_MAX \in Nat \ {0}
      BY <1>1, Multiples
    <3>3. /\ usbcmd.status = "TXDATA_PREPARE" /\ usbcmd.u_size = n * UNIT
          /\ usbcmd.pre_lba = usbcmd.lba /\ usbcmd.pre_blocks = BLOCK_MAX
      BY <2>2, Zenon DEF Uploading
    <3>4. Uploaded(Dev, s, j * BLOCK_MAX, n)
      BY <1>1, <1>2, <3>1, <3>2, <3>3, ServeUpload, Zenon
    <3> QED
      BY <1>2, <1>3, <3>4, Zenon DEF Uploaded, SameRest
  <2>3. CASE Finishing
    <3>1. usbcmd.status = "CSW" /\ Idle(Dev.out)
      BY <1>3, <2>3, Zenon DEF Finishing
    <3>2. SameRest(Dev, s) /\ s.u.reset_flag = Dev.u.reset_flag
      BY <1>2, <3>1, ServeStatus, Zenon
    <3> QED
      BY <1>2, <1>3, <3>2, Zenon DEF SameRest
  <2> QED
    BY <1>2, <2>1, <2>2, <2>3, Zenon
<1> HIDE DEF s
<1>5. CASE s.u.status = "HUNG"
  <2>1. Becomes(s) /\ pc' = "hung"
    BY <1>5, Zenon DEF Pass, s
  <2> QED
    BY <1>4, <2>1, Zenon DEF Becomes
<1>6. CASE s.u.status # "HUNG"
  <2>1. Leaves(s) /\ pc' = IF s.u.reset_flag \in Reboots THEN "delay" ELSE "run"
    BY <1>1, <1>6, PassLeaves, Zenon DEF s
  <2> QED
    BY <1>1, <1>4, <2>1, Zenon DEF Leaves
<1> QED
    BY <1>5, <1>6, Zenon

(* The steps other than a pass and the reset keep the medium and the       *)
(* transmit buffers.                                                       *)
LEMMA OthersKeep ==
    ASSUME DeviceOK, HostOK, Orderly, UNCHANGED session,
           \/ (\E c \in Cmds : SendCbw(c)) \/ SendData \/ RecvIn \/ InError \/ SetAddress
           \/ SetConfiguration \/ (\E f \in Clears : ClearFeature(f)) \/ BusReset
    PROVE  RestStays /\ UNCHANGED <<tx_buffer, pc>>
<1>1. Dev \in DevType /\ Dev.tb = tx_buffer /\ Dev.u = usbcmd
    BY DevTyped, Zenon
<1>2. ASSUME NEW t \in DevType, SameRest(Dev, t), t.tb = tx_buffer, Becomes(t)
      PROVE  RestStays /\ UNCHANGED tx_buffer
    BY <1>2, RestStaysStep, Zenon
<1>3. rx_buffer \in [0 .. 1 -> ContentType]
    BY Zenon DEF HostOK
<1>4. ASSUME NEW c \in Cmds, SendCbw(c) PROVE RestStays /\ UNCHANGED <<tx_buffer, pc>>
  <2> DEFINE d == [c EXCEPT !.tag = 1 - host.tag]
  <2>1. c \in CmdType /\ host.tag \in 0 .. 1
    BY RockUsbAssumption, Zenon DEF HostOK, Cmds, HostType
  <2>2. d \in CmdType
    BY <2>1 DEF CmdType
  <2>3. Cbw(d) \in ContentType /\ 1 \in Nat
    BY <2>2, ContentTyped, Zenon
  <2>4. Deliver(1, Cbw(d)) /\ Started(ep_out) /\ UNCHANGED pc
    BY <1>4, Zenon DEF SendCbw
  <2> QED
    BY <1>3, <2>3, <2>4, DeliverEffect, Zenon
<1>5. CASE SendData
  <2> DEFINE n == Min2(Head(ep_out.queue).len \div UNIT, host.cmd.n - host.sent)
             sent == host.sent + n
             p == SubSeq(Payload(host.cmd), host.sent + 1, sent)
  <2>1. Started(ep_out) /\ Deliver(n * UNIT, Data(p)) /\ UNCHANGED pc
    BY <1>5, Zenon DEF SendData
  <2>2. /\ host.cmd \in CmdType /\ host.cmd.n \in Nat /\ host.sent \in Nat
        /\ host.sent <= host.cmd.n
    BY Zenon DEF HostOK, HostType, CmdType
  <2>3. Head(ep_out.queue) \in ReqType
    BY <2>1, HeadTailProperties, Zenon DEF DeviceOK, EpType, Started
  <2>4. Head(ep_out.queue).len \div UNIT \in Nat
    BY <2>3 DEF ReqType, UNIT
  <2>5. n \in Nat /\ sent \in Nat /\ sent <= host.cmd.n
    BY <2>2, <2>4 DEF Min2
  <2> HIDE DEF n
  <2>6. p \in Seq(BlockType)
    BY <2>2, <2>5, PieceTyped, Zenon
  <2>7. Data(p) \in ContentType
    BY <2>6, ContentTyped, Zenon
  <2>8. n * UNIT \in Nat
    BY <2>5 DEF UNIT
  <2> HIDE DEF p
  <2> QED
    BY <1>3, <2>1, <2>7, <2>8, DeliverEffect, Zenon
<1>6. CASE RecvIn \/ InError
  <2>1. Started(ep_in) /\ UNCHANGED pc
    BY <1>6, Zenon DEF RecvIn, InError
  <2>2. PICK ok \in BOOLEAN :
           Becomes(dwc3_tx_handler([Dev EXCEPT !.in = TransferComplete(@)], ok))
    BY <1>6, Zenon DEF RecvIn, InError
  <2> QED
    BY <2>1, <2>2, SentEffect, Zenon
<1>7. CASE SetAddress
  <2>1. Becomes([Dev EXCEPT !.u.status = "IDLE"]) /\ UNCHANGED pc
    BY <1>7, Zenon DEF SetAddress
  <2>2. OnlyU(Dev, [Dev EXCEPT !.u.status = "IDLE"], [usbcmd EXCEPT !.status = "IDLE"])
    BY <1>1, IdleEffect, Zenon
  <2> QED
    BY <1>1, <1>2, <2>1, <2>2, Zenon DEF OnlyU
<1>8. CASE SetConfiguration
  <2>1. Becomes(Configured(Dev)) /\ UNCHANGED pc
    BY <1>8, Zenon DEF SetConfiguration
  <2> HIDE DEF Dev
  <2>2. Configured(Dev) \in DevType /\ SameRest(Dev, Configured(Dev)) /\ Configured(Dev).tb = Dev.tb
    BY <1>1, ConfiguredEffect, Zenon
  <2> QED
    BY <1>1, <1>2, <2>1, <2>2, Zenon
<1>9. ASSUME NEW f \in Clears, ClearFeature(f) PROVE RestStays /\ UNCHANGED <<tx_buffer, pc>>
  <2> DEFINE t == rockusb_clear_feature(Dev, f)
  <2>1. Becomes(t) /\ UNCHANGED pc
    BY <1>9, Zenon DEF ClearFeature
  <2>2. f = "clear_both"
    BY <1>9, Zenon DEF ClearFeature, Orderly, Clears
  <2>3. t \in DevType /\ SameRest(Dev, t) /\ t.tb = Dev.tb
    BY <1>1, <2>2, ClearBothEffect, Zenon
  <2> HIDE DEF t
  <2> QED
    BY <1>1, <1>2, <2>1, <2>3, Zenon
<1>10. CASE BusReset
  <2> DEFINE t == [rockusb_disable(Dev) EXCEPT !.u.configured = FALSE]
  <2>1. Becomes(t) /\ UNCHANGED pc
    BY <1>10, Zenon DEF BusReset
  <2>2. Disabled(Dev, t)
    BY <1>1, DisableEffect, Zenon
  <2> HIDE DEF t
  <2> QED
    BY <1>1, <1>2, <2>1, <2>2, Zenon DEF Disabled
<1> QED
    BY <1>4, <1>5, <1>6, <1>7, <1>8, <1>9, <1>10, Zenon

NotShared ==
    /\ \A k \in 0 .. 1 : tx_buffer'[k] # tx_buffer[k] => ~Holds(ep_in.queue, k)
    /\ medium' # medium => ~Holds(ep_out'.queue, usbcmd.rx.buf)

(* A pass uses no buffer that is queued.                                   *)
LEMMA PassNotShared ==
    ASSUME LinkInv, Pass
    PROVE  NotShared
<1>1. ep_in = Empty
    BY PassWorks, IdleIs, Zenon DEF InIdle
<1>2. \A k : ~Holds(ep_in.queue, k)
    BY <1>1 DEF Empty, Holds
<1>3. CASE ~Receiving
    BY <1>2, <1>3, PassKeeps, Zenon DEF NotShared
<1>4. CASE Receiving
  <2>1. DeviceOK /\ HostOK /\ usbcmd.reset_flag \notin Reboots \cup {16} /\ host.cmd.n \in Nat
    BY LinkParts, Zenon DEF Settled, HostOK, HostType, CmdType
  <2>2. PICK j \in Nat, a \in DevType, s \in DevType : Arrives(j, a, s)
    BY <1>4, <2>1, DataArrives, Zenon
  <2> DEFINE n == host.cmd.n
             d == j * BLOCK_MAX
             m == Min2(n - d, BLOCK_MAX)
  <2>3. /\ d < n /\ Received(Dev, a, d, m, n) /\ Stores(a, s) /\ Leaves(s)
        /\ OutDone(m * UNIT)
    BY <2>2, Zenon DEF Arrives
  <2>4. d \in Nat /\ m \in Nat /\ d + m <= n
    BY <2>1, <2>3, Portion, Zenon
  <2> HIDE DEF d, m
  <2>5. \E len : Busy(a.out, 1 - a.u.rxbuf_num, len)
    BY <2>1, <2>3, <2>4 DEF Received, Listening, Answers
  <2>6. a.u.rxbuf_num = 1 - usbcmd.rxbuf_num /\ usbcmd.rxbuf_num = 1 - usbcmd.rx.buf
    BY <2>1, <2>3, DevTyped, Zenon DEF Received, OutDone
  <2>7. ep_out' = a.out
    BY <2>3, StoresLink, Zenon DEF Leaves
  <2>8. usbcmd.rx.buf \in 0 .. 1
    BY <2>1, Zenon DEF DeviceOK, UsbcmdType, RxType
  <2> DEFINE k == 1 - a.u.rxbuf_num
             b == usbcmd.rx.buf
  <2>9. k # b
    BY <2>6, <2>8
  <2>10. PICK len : Busy(ep_out', k, len)
    BY <2>5, <2>7, Zenon
  <2> HIDE DEF k, b
  <2>11. ep_out'.queue = <<[buf |-> k, len |-> len]>>
    BY <2>10, Zenon DEF Busy
  <2>12. ~Holds(ep_out'.queue, b)
    BY <2>9, <2>11 DEF Holds
  <2> QED
    BY <1>2, <2>12, Zenon DEF NotShared, b
<1> QED
    BY <1>3, <1>4, Zenon

(* The gadget and the controller never use a buffer together.              *)
THEOREM NeverShared == Spec /\ Orderly => BuffersNotShared
<1>1. LinkInv /\ [Next]_vars => [pc = "run" => NotShared]_vars
  <2> SUFFICES ASSUME LinkInv, Next, pc = "run"
               PROVE  NotShared
    BY Zenon
  <2>1. DeviceOK /\ HostOK /\ Orderly
    BY LinkParts, Zenon
  <2>2. CASE Pass
    BY <2>2, PassNotShared, Zenon
  <2>3. CASE reset_cpu
    BY <2>3, Zenon DEF reset_cpu
  <2>4. CASE ~Pass /\ ~reset_cpu
    BY <2>1, <2>4, OthersKeep, Zenon DEF Next, Step, RestStays, NotShared
  <2> QED
    BY <2>2, <2>3, <2>4, Zenon
<1> QED
    BY <1>1, LinkCorrect, PTL DEF Spec, BuffersNotShared, NotShared

-----------------------------------------------------------------------------
(* The parts of DataInv.                                                   *)
SysTagged == \A a \in At("SYS") : Tagged(medium["SYS"][a]) = medium["SYS"][a]

GotPart == ReadCorrect /\ (pc = "delay" \/ host.cmd.op \notin Reads => host.got = << >>)

SentPart ==
    usbcmd.tx = "IN_PROGRESS" =>
        Fresh(1 - usbcmd.txbuf_num, host.cmd.lba + Len(host.got), Head(ep_in.queue).len \div UNIT)

AheadPart == usbcmd.status = "TXDATA_PREPARE" => Fresh(usbcmd.txbuf_num, usbcmd.lba, BLOCK_MAX)



(* DataInv by its parts.                                                   *)
LEMMA DataParts == DataInv <=> SysTagged /\ WrittenAsAnswered /\ WriteInv /\ ReadInv
    BY Zenon DEF DataInv, SysTagged







-----------------------------------------------------------------------------
(* Reads.                                                                  *)

(* The first n blocks of m are what v has from a on.                       *)
FreshIn(m, v, a, n) == n <= Len(m.blocks) /\ \A i \in 1 .. n : m.blocks[i] \in v[a + i - 1]

















-----------------------------------------------------------------------------
(* Writes.                                                                 *)













(* Blocks d + 1 to d + m of the write c have been written, and nothing     *)
(* else but the rest of its last page.                                     *)
Written(c, med, w, d, m) ==
    /\ \A sp \in Spaces : \A x \in At(sp) :
          \/ w[sp][x] = med[sp][x]
          \/ sp = Target(c) /\ x \in Touched(c) /\ w[sp][x] = Shown(c, x)
    /\ \A i \in 1 .. d : w[Target(c)][c.lba + i - 1] = med[Target(c)][c.lba + i - 1]
    /\ \A i \in d + 1 .. d + m : w[Target(c)][c.lba + i - 1] = Stored(c, i)

(* Blocks d + 1 and on of the write, as they are stored: m of them and the *)
(* rest of a page.                                                         *)
AsStored(c, q, d, m) ==
    /\ q \in Seq(BlockType) /\ m <= Len(q) /\ d + m <= c.n
    /\ \E t \in Nat : Touched(c) = c.lba .. c.lba + t - 1 /\ d + Len(q) <= t
    /\ \A i \in 1 .. Len(q) : q[i] = IF d + i <= c.n THEN Stored(c, d + i) ELSE Junk

(* Addresses and block numbers of a write at l: of address x and of block  *)
(* i, with d blocks before and k from there on.                            *)
BlockAt(l, d, k, n, t, x) ==
    LET i == x - (l + d) + 1
    IN  /\ x \in Int /\ i \in 1 .. k /\ d + i = x - l + 1 /\ (d + i <= n <=> x < l + n)
        /\ x \in l .. l + t - 1

AddressOf(l, d, k, n, i) ==
    LET x == l + i - 1
    IN  /\ i \in 1 .. n /\ i <= n /\ (i <= d => x \notin l + d .. l + d + k - 1)
        /\ i > d => /\ x \in l + d .. l + d + k - 1 /\ x - (l + d) + 1 = i - d
                    /\ i - d \in 1 .. k /\ d + (i - d) = i





(* Blocks p are blocks d + 1 to d + m of the write, a whole number of      *)
(* pages or the last.                                                      *)
PartOf(c, p, d, m) ==
    /\ d \in Nat /\ m \in Nat \ {0} /\ d + m <= c.n /\ p \in Seq(BlockType) /\ Len(p) = m
    /\ \A i \in 1 .. m : p[i] = <<c.v, d + i>>
    /\ PbaBlocks(m) \in Nat /\ m <= PbaBlocks(m) /\ PbaBlocks(c.n) \in Nat
    /\ d + PbaBlocks(m) <= PbaBlocks(c.n) /\ (PbaBlocks(m) # m => d + m = c.n)











-----------------------------------------------------------------------------
(* The host's steps.                                                       *)









-----------------------------------------------------------------------------



(* At first the host knows the medium.                                     *)
LEMMA DataInit ==
    ASSUME Init
    PROVE  DataInv
<1>1. /\ medium = [sp \in Spaces |-> [a \in At(sp) |->
            CASE sp = "UNLOCK" -> Zero [] sp = "SYS" -> Tagged(<<0, a>>) [] OTHER -> <<0, a>>]]
      /\ view = [sp \in Spaces |-> [a \in At(sp) |-> {medium[sp][a]}]]
      /\ host = NoHost
    BY Zenon DEF Init
<1>2. SysTagged
  <2> SUFFICES ASSUME NEW a \in At("SYS")
               PROVE  Tagged(medium["SYS"][a]) = medium["SYS"][a]
    BY Zenon DEF SysTagged
  <2>1. "SYS" \in Spaces /\ a \in Int
    BY AtNumbers, Zenon DEF Spaces
  <2>2. medium["SYS"][a] = Tagged(<<0, a>>)
    BY <1>1, <2>1, Zenon
  <2> QED
    BY <2>1, <2>2, TaggedOnce, Zenon
<1>3. WrittenAsAnswered
    BY <1>1, Zenon DEF WrittenAsAnswered
<1>4. host.got = << >> /\ host.phase = "attach"
    BY <1>1, Zenon DEF NoHost
<1>5. WriteInv /\ ReadInv
    BY <1>4 DEF WriteInv, ReadInv, ReadCorrect
<1> QED
    BY <1>2, <1>3, <1>5, DataParts, Zenon

(* Every step keeps RInv.                                                  *)
LEMMA DataStep ==
    ASSUME RInv, [Next]_vars
    PROVE  RInv'
(* ReadInv by its parts.                                                   *)
<1>ReadParts.
      ReadInv <=> /\ GotPart
                  /\ host.cmd.op \in Reads /\ host.phase = "in" => SentPart /\ AheadPart
      BY Zenon DEF ReadInv, GotPart, SentPart, AheadPart
(* The same in the next state.                                             *)
<1>ReadPartsNext.
      ASSUME GotPart', (host.cmd.op \in Reads /\ host.phase = "in" => SentPart /\ AheadPart)'
      PROVE  ReadInv'
  <2> USE <1>ReadPartsNext
  <2> QED
      BY Zenon DEF ReadInv, GotPart, SentPart, AheadPart
(* The same in the next state.                                             *)
<1>DataPartsNext.
      ASSUME SysTagged', WrittenAsAnswered', WriteInv', ReadInv'
      PROVE  DataInv'
  <2> USE <1>DataPartsNext
  <2> QED
      BY Zenon DEF DataInv, SysTagged
(* With the medium and the host's expectations as they were, what was      *)
(* true of both is true.                                                   *)
<1>MediumStays.
      ASSUME SysTagged, WrittenAsAnswered, UNCHANGED <<medium, view>>
      PROVE  SysTagged' /\ WrittenAsAnswered'
  <2> USE <1>MediumStays
  <2> QED
      BY Zenon DEF SysTagged, WrittenAsAnswered
(* The commands of a fitting session fit.                                  *)
<1>CommandFits.
      ASSUME HostOK, OfSession, Fitting, host.cmd.op \in Reads \cup Writes
      PROVE  Fits(host.cmd) /\ host.cmd \in CmdType
  <2> USE <1>CommandFits
  <2>1. host.cmd.op # "NONE"
      BY Zenon DEF Reads, Writes
  <2>2. PICK c \in Cmds : /\ c.op = host.cmd.op /\ c.lba = host.cmd.lba /\ c.n = host.cmd.n
                          /\ c.sp = host.cmd.sp
      BY <2>1, SessionCmd, Zenon
  <2>3. Fits(c)
      BY <2>2, Zenon DEF Fitting
  <2>4. Target(c) = Target(host.cmd)
      BY <2>2, Zenon DEF Target
  <2>5. Limit(c) = Limit(host.cmd) /\ AheadOf(c) = AheadOf(host.cmd)
      BY <2>2, <2>4, Zenon DEF Limit, AheadOf
  <2>6. Fits(host.cmd)
      BY <2>2, <2>3, <2>4, <2>5, Zenon DEF Fits
  <2> QED
      BY <2>6, Zenon DEF HostOK, HostType
(* A pass that takes no data from the host.                                *)
<1>PassData.
      ASSUME RInv, Pass, ~Receiving
      PROVE  DataInv'
  (* What is read from a medium that has the blocks.                         *)
  <2>ReadsBlocks.
        ASSUME NEW s \in DevType, NEW c, s.u.cbw = c, c \in CmdType, c.op \in Reads, Fits(c),
               NEW lba \in Nat, NEW n \in Nat, lba + n <= Limit(c),
               c.sp = "UNLOCK" => lba = 0 /\ n <= 1,
               \A a \in At("SYS") : Tagged(s.med["SYS"][a]) = s.med["SYS"][a]
        PROVE  LET b == MediaRead(s, lba, n)
               IN  \A i \in 1 .. n : b[i] = s.med[Target(c)][lba + i - 1] /\ lba + i - 1 \in At(Target(c))
    <3> USE <2>ReadsBlocks
    <3> DEFINE b == MediaRead(s, lba, n)
               sp == c.sp
    <3>1. sp \in Spaces /\ s.med \in MediumType
        BY Zenon DEF CmdType, DevType
    <3>2. CASE c.op = "READ_10"
      <4>1. Target(c) = "PBA" /\ b = StorageReadPba(s.med, lba, n)
        BY <3>2, Zenon DEF Target, MediaRead
      <4>2. lba + n < Capacity
        BY <4>1, RockUsbAssumption DEF Limit
      <4> QED
        BY <3>1, <4>1, <4>2, ReadPbaTyped
    <3>3. CASE c.op # "READ_10"
      <4>1. Target(c) = sp /\ sp # "PBA"
        BY <3>3, Zenon DEF Target, Reads, Fits
      <4>2. lba + n <= Capacity
        BY <4>1, Zenon DEF Limit
      <4>3. CASE sp = "SYS"
        <5> DEFINE raw == StorageReadLba(s.med, "SYS", lba, n)
        <5>1. \A i \in 1 .. n : raw[i] = s.med["SYS"][lba + i - 1] /\ lba + i - 1 \in At("SYS")
        <6>1. "SYS" \in Spaces \ {"UNLOCK"}
          BY <3>1, <4>3, Zenon
        <6> QED
          BY <3>1, <4>2, <6>1, ReadLbaTyped, Zenon
        <5> HIDE DEF raw
        <5>2. b = [i \in 1 .. n |-> IF lba + i - 1 < 2 THEN Tagged(raw[i]) ELSE raw[i]]
          BY <3>3, <4>3, Zenon DEF MediaRead, StorageVendorSysDataLoad, raw
        <5>3. \A i \in 1 .. n : Tagged(raw[i]) = raw[i]
          BY <5>1, Zenon
        <5>4. \A i \in 1 .. n : b[i] = raw[i]
          BY <5>2, <5>3, Zenon
        <5> HIDE DEF b
        <5> QED
          BY <4>1, <4>3, <5>1, <5>4, Zenon DEF b
      <4>4. CASE sp = "UNLOCK"
        <5>1. b = [i \in 1 .. n |-> IF i = 1 THEN s.med["UNLOCK"][0] ELSE Zero]
          BY <3>3, <4>4, Zenon DEF MediaRead
        <5>2. \A i \in 1 .. n : i = 1 /\ lba + i - 1 = 0
          BY <4>4
        <5>3. 0 \in At("UNLOCK")
          BY <3>1, <4>4, AtNumbers, Zenon
        <5> QED
          BY <4>1, <4>4, <5>1, <5>2, <5>3, Zenon
      <4>5. CASE sp \notin {"SYS", "UNLOCK"}
        <5>1. b = StorageReadLba(s.med, sp, lba, n)
          BY <3>3, <4>5, Zenon DEF MediaRead
        <5>2. sp \in Spaces \ {"UNLOCK"}
          BY <3>1, <4>5, Zenon
        <5>3. \A i \in 1 .. n : /\ StorageReadLba(s.med, sp, lba, n)[i] = s.med[sp][lba + i - 1]
                                /\ lba + i - 1 \in At(sp)
          BY <3>1, <4>2, <5>2, ReadLbaTyped, Zenon
        <5> QED
          BY <4>1, <5>1, <5>3, Zenon
      <4> QED
        BY <4>3, <4>4, <4>5, Zenon
    <3> QED
        BY <3>2, <3>3, Zenon
  (* They are what the host may expect.                                      *)
  <2>ReadsFresh.
        ASSUME NEW s \in DevType, NEW c, s.u.cbw = c, c \in CmdType, c.op \in Reads, Fits(c),
               NEW lba \in Nat, NEW n \in Nat, lba + n <= Limit(c),
               c.sp = "UNLOCK" => lba = 0 /\ n <= 1,
               SysTagged, WrittenAsAnswered, s.med = medium
        PROVE  FreshIn(Data(MediaRead(s, lba, n)), view[Target(c)], lba, n)
    <3> USE <2>ReadsFresh
    <3> DEFINE b == MediaRead(s, lba, n)
    <3>1. Len(b) = n
        BY MediaReadTyped, Zenon
    <3>2. \A i \in 1 .. n : b[i] = medium[Target(c)][lba + i - 1] /\ lba + i - 1 \in At(Target(c))
        BY <2>ReadsBlocks DEF SysTagged
    <3>3. Target(c) \in Spaces
        BY TargetTyped, Zenon
    <3> HIDE DEF b
    <3>4. \A i \in 1 .. n : b[i] \in view[Target(c)][lba + i - 1]
        BY <3>2, <3>3, Zenon DEF WrittenAsAnswered
    <3>5. Data(b).blocks = b
        BY Zenon DEF Data
    <3> QED
        BY <3>1, <3>4, <3>5 DEF FreshIn, b
  (* The part of an upload after which nothing remains is the last.          *)
  <2>LastPart.
        ASSUME NEW d \in Nat, NEW n \in Nat, d < n, ~(d + Min2(n - d, BLOCK_MAX) < n)
        PROVE  d + Min2(n - d, BLOCK_MAX) = n
    <3> USE <2>LastPart
    <3>1. BLOCK_MAX \in Nat
        BY RockUsbAssumption, Zenon
    <3> QED
        BY <3>1 DEF Min2
  (* The first part.                                                         *)
  <2>FirstPart.
        ASSUME NEW n \in Nat
        PROVE  LET b == Min2(n - 0, BLOCK_MAX)
               IN  /\ n - 0 = n /\ b = Min2(n, BLOCK_MAX) /\ b \in Nat /\ b <= n /\ 0 + b = b
                   /\ b < n => b = BLOCK_MAX /\ BLOCK_MAX = 1 * BLOCK_MAX
    <3> USE <2>FirstPart
    <3>1. BLOCK_MAX \in Nat /\ n - 0 = n
        BY RockUsbAssumption
    <3>2. BLOCK_MAX = 1 * BLOCK_MAX
        BY <3>1
    <3>3. Min2(n, BLOCK_MAX) \in Nat /\ Min2(n, BLOCK_MAX) <= n
        BY <3>1 DEF Min2
    <3>4. Min2(n, BLOCK_MAX) < n => Min2(n, BLOCK_MAX) = BLOCK_MAX
        BY <3>1 DEF Min2
    <3> QED
        BY <3>1, <3>2, <3>3, <3>4
  (* What a pass that uploads leaves on its way.                             *)
  <2>UploadData.
        ASSUME NEW p \in DevType, NEW t \in DevType, NEW d \in Nat, NEW n \in Nat, d < n,
               Uploaded(p, t, d, n), Leaves(t), t.u.status = TxState(d, n), HostOK,
               p.u.lba = host.cmd.lba + d, Len(host.got) = d, NEW b, b = Min2(n - d, BLOCK_MAX),
               NEW v, v = view[Target(host.cmd)],
               FreshIn(p.tb[p.u.txbuf_num], v, host.cmd.lba + d, b),
               d + b < n => FreshIn(Data(MediaRead(p, host.cmd.lba + (d + b), BLOCK_MAX)), v,
                                    host.cmd.lba + (d + b), BLOCK_MAX)
        PROVE  SentPart' /\ AheadPart'
    <3> USE <2>UploadData
    <3>1. b \in Nat /\ host.cmd.lba \in Nat
        BY RockUsbAssumption DEF Min2, HostOK, HostType, CmdType
    <3>2. /\ Sending(t, b * UNIT) /\ Sent(t) = p.tb[p.u.txbuf_num] /\ t.u.lba = host.cmd.lba + (d + b)
          /\ d + b < n => t.tb[t.u.txbuf_num] = Data(MediaRead(p, t.u.lba, BLOCK_MAX))
        BY <3>1 DEF Uploaded
    <3>3. /\ UNCHANGED <<host, view>> /\ usbcmd'.lba = t.u.lba /\ usbcmd'.txbuf_num = t.u.txbuf_num
          /\ tx_buffer' = t.tb /\ usbcmd'.status = t.u.status
        BY Zenon DEF Leaves
    <3>4. /\ Busy(ep_in', 1 - usbcmd'.txbuf_num, b * UNIT)
          /\ tx_buffer'[1 - usbcmd'.txbuf_num] = Sent(t)
        BY <3>2, LeavesLink, Zenon
    <3>5. Head(ep_in'.queue).len = b * UNIT /\ (b * UNIT) \div UNIT = b
        BY <3>1, <3>4, BusyEndpoint DEF UNIT
    <3>6. SentPart'
      <4>1. FreshIn(tx_buffer'[1 - usbcmd'.txbuf_num], v, host.cmd.lba + d, b)
        BY <3>2, <3>4, Zenon
      <4>2. /\ view'[Target(host'.cmd)] = v /\ host'.cmd.lba + Len(host'.got) = host.cmd.lba + d
            /\ Head(ep_in'.queue).len \div UNIT = b
        BY <3>3, <3>5, Zenon
      <4> QED
        BY <4>1, <4>2, Zenon DEF SentPart, Fresh, FreshIn
    <3>7. AheadPart'
      <4>1. CASE d + b < n
        <5>1. FreshIn(tx_buffer'[usbcmd'.txbuf_num], v, usbcmd'.lba, BLOCK_MAX)
          BY <3>2, <3>3, <4>1, Zenon
        <5>2. view'[Target(host'.cmd)] = v
          BY <3>3, Zenon
        <5> QED
          BY <5>1, <5>2, Zenon DEF AheadPart, Fresh, FreshIn
      <4>2. CASE ~(d + b < n)
        <5>1. d + b = n
          BY <4>2, <2>LastPart, Zenon
        <5>2. usbcmd'.status = "CSW"
          BY <3>3, <5>1, Zenon DEF TxState
        <5> QED
          BY <5>2, Zenon DEF AheadPart
      <4> QED
        BY <4>1, <4>2, Zenon
    <3> QED
        BY <3>6, <3>7, Zenon
  (* What a read reads ahead.                                                *)
  <2>AheadFresh.
        ASSUME NEW p \in DevType, NEW c, p.u.cbw = c, c \in CmdType, c.op \in Reads, Fits(c),
               NEW j \in Nat \ {0}, j * BLOCK_MAX < c.n, SysTagged, WrittenAsAnswered, p.med = medium
        PROVE  LET a == c.lba + j * BLOCK_MAX
               IN  FreshIn(Data(MediaRead(p, a, BLOCK_MAX)), view[Target(c)], a, BLOCK_MAX)
    <3> USE <2>AheadFresh
    <3> DEFINE u == j * BLOCK_MAX
               a == c.lba + u
    <3>1. c.n \in Nat /\ c.lba \in Nat /\ u \in Nat /\ j <= u /\ BLOCK_MAX \in Nat
        BY Multiples, RockUsbAssumption, Zenon DEF CmdType
    <3>2. j \in 1 .. c.n
        BY <3>1
    <3>3. a \in AheadOf(c)
        BY <3>2, Zenon DEF AheadOf
    <3>4. a + BLOCK_MAX <= Limit(c)
        BY <3>3, Zenon DEF Fits
    <3>5. c.sp # "UNLOCK"
        BY <3>1 DEF Fits
    <3>6. a \in Nat
        BY <3>1
    <3> HIDE DEF a
    <3>7. FreshIn(Data(MediaRead(p, a, BLOCK_MAX)), view[Target(c)], a, BLOCK_MAX)
        BY <3>1, <3>4, <3>5, <3>6, <2>ReadsFresh, Zenon
    <3> QED
        BY <3>7, Zenon DEF a
  (* The buffers that a read has on its way after a pass are what the host   *)
  (* may expect.                                                             *)
  <2>PassUploads.
        ASSUME LinkInv, Fitting, SysTagged, WrittenAsAnswered, Pass, host.cmd.op \in Reads,
               host.phase = "in", usbcmd.status = "TXDATA_PREPARE" => AheadPart
        PROVE  SentPart' /\ AheadPart'
    <3> USE <2>PassUploads
    <3> DEFINE c == host.cmd
               n == host.cmd.n
               s == Serve(Dev, rx_buffer)
               v == view[Target(host.cmd)]
    <3>1. DeviceOK /\ HostOK /\ OfSession /\ Orderly /\ AheadInv
        BY LinkParts, Zenon DEF Settled
    <3>2. Fits(c) /\ c \in CmdType /\ n \in Nat /\ c.lba \in Nat
        BY <3>1, <1>CommandFits, Zenon DEF CmdType
    <3>3. /\ Dev \in DevType /\ Dev.u = usbcmd /\ Rests(Dev) /\ InIdle
          /\ Commanded \/ Uploading \/ Finishing
          /\ rx_buffer \in [0 .. 1 -> ContentType]
        BY PassWorks, Zenon DEF Receiving, Serving, Reads, Writes
    <3>4. Dev.med = medium /\ Dev.tb = tx_buffer
        BY <3>1, DevTyped, Zenon
    <3> HIDE DEF Dev
    <3>5. CASE Commanded
      <4>1. HasCommand(Dev.u) /\ Fetched(Dev, rx_buffer) = c /\ Len(host.got) = 0
        BY <3>1, <3>5, PassTakes, Zenon DEF Commanded
      <4>2. CASE n = 0
        <5>1. s.u.status = "HUNG" /\ s.u.tx = "OK"
          BY <3>3, <4>1, <4>2, ServeReadNone, Zenon DEF Rests
        <5>2. Becomes(s)
          BY <5>1, Zenon DEF Pass
        <5> HIDE DEF s
        <5>3. usbcmd'.status = "HUNG" /\ usbcmd'.tx = "OK"
          BY <5>1, <5>2, Zenon DEF Becomes
        <5> QED
          BY <5>3, Zenon DEF SentPart, AheadPart
      <4>3. CASE n > 0
        <5> DEFINE b == Min2(n - 0, BLOCK_MAX)
        <5>1. Dev.u.pre_blocks # 0 => Dev.u.pre_lba # c.lba
          BY <3>1, <3>3, <3>5, BeginsAfresh, Zenon
        <5>2. PICK p \in DevType :
                 /\ Uploaded(p, s, 0, n) /\ s.u.status = TxState(0, n)
                 /\ SameRest(Dev, p) /\ p.u.cbw = c /\ p.u.lba = c.lba
                 /\ p.tb[p.u.txbuf_num] = Data(MediaRead(p, c.lba, Min2(n, BLOCK_MAX)))
          BY <3>3, <4>1, <4>3, <5>1, ServeRead
        <5> HIDE DEF s
        <5>3. s.u.status # "HUNG"
          BY <5>2, Zenon DEF TxState
        <5>4. Leaves(s) /\ s \in DevType
          BY <3>1, <5>3, PassLeaves, Zenon DEF s
        <5>5. n - 0 = n /\ b = Min2(n, BLOCK_MAX) /\ b \in Nat /\ b <= n /\ 0 + b = b
              /\ (b < n => b = BLOCK_MAX /\ BLOCK_MAX = 1 * BLOCK_MAX)
          BY <3>2, <2>FirstPart, Zenon
        <5> HIDE DEF b
        <5>6. p.med = medium
          BY <3>4, <5>2, Zenon DEF SameRest
        <5>7. c.lba + b <= Limit(c) /\ (c.sp = "UNLOCK" => c.lba = 0 /\ b <= 1)
          BY <3>2, <5>5 DEF Fits
        <5>8. FreshIn(p.tb[p.u.txbuf_num], v, c.lba, b)
          BY <3>2, <5>2, <5>5, <5>6, <5>7, <2>ReadsFresh, Zenon
        <5>9. b < n => FreshIn(Data(MediaRead(p, c.lba + b, BLOCK_MAX)), v, c.lba + b, BLOCK_MAX)
          BY <3>2, <5>2, <5>5, <5>6, <2>AheadFresh
        <5>10. c.lba + 0 = c.lba /\ p.u.lba = c.lba + 0 /\ 0 < n
          BY <3>2, <4>3, <5>2
        <5> HIDE DEF v
        <5> QED
          BY <3>1, <3>2, <4>1, <5>2, <5>4, <5>5, <5>8, <5>9, <5>10, <2>UploadData DEF b, v
      <4> QED
        BY <3>2, <4>2, <4>3
    <3>6. CASE Uploading
      <4>1. PICK j \in 1 .. n :
               /\ j * BLOCK_MAX < n /\ usbcmd.u_bytes = j * BLOCK_MAX * UNIT
               /\ usbcmd.lba = c.lba + j * BLOCK_MAX
               /\ \/ InIdle /\ Len(host.got) = j * BLOCK_MAX
                  \/ InBusy("data", BLOCK_MAX * UNIT) /\ Len(host.got) + BLOCK_MAX = j * BLOCK_MAX
        BY <3>6, Zenon DEF Uploading
      <4>2. /\ usbcmd.status = "TXDATA_PREPARE" /\ usbcmd.cbw = c /\ usbcmd.u_size = n * UNIT
            /\ usbcmd.pre_lba = usbcmd.lba /\ usbcmd.pre_blocks = BLOCK_MAX
        BY <3>6, Zenon DEF Uploading, Serving
      <4> DEFINE d == j * BLOCK_MAX
                 b == Min2(n - d, BLOCK_MAX)
      <4>3. j \in Nat /\ d \in Nat \ {0} /\ Len(host.got) = d
        <5>1. j \in Nat /\ j >= 1
          BY <3>2
        <5>2. d \in Nat /\ j <= d
          BY <5>1, Multiples, Zenon
        <5>3. Len(host.got) = d
          BY <3>3, <4>1, Zenon DEF InIdle, InBusy
        <5> QED
          BY <5>1, <5>2, <5>3
      <4>4. b \in Nat /\ b <= BLOCK_MAX /\ (d + b < n => d + b = (j + 1) * BLOCK_MAX)
        BY <3>2, <4>1, <4>3, Portion, Zenon
      <4>5. d < n /\ usbcmd.u_bytes = d * UNIT /\ usbcmd.lba = c.lba + d
        BY <4>1, Zenon
      <4> HIDE DEF d
      <4>6. Uploaded(Dev, s, d, n) /\ s.u.status = TxState(d, n)
        BY <3>2, <3>3, <4>2, <4>3, <4>5, ServeUpload, Zenon
      <4> HIDE DEF s, b
      <4>7. s.u.status # "HUNG"
        BY <4>6, Zenon DEF TxState
      <4>8. Leaves(s) /\ s \in DevType
        BY <3>1, <4>7, PassLeaves, Zenon DEF s
      <4>9. FreshIn(Dev.tb[Dev.u.txbuf_num], v, c.lba + d, BLOCK_MAX)
        BY <3>3, <3>4, <4>2, <4>5, Zenon DEF AheadPart, Fresh, FreshIn
      <4>10. FreshIn(Dev.tb[Dev.u.txbuf_num], v, c.lba + d, b)
        <5> DEFINE m == Dev.tb[Dev.u.txbuf_num]
        <5>1. m.kind = "data" /\ m \in ContentType
          BY <3>1, <3>3, <3>4, <3>6, Zenon DEF Uploading, DeviceOK, UsbcmdType
        <5>2. Len(m.blocks) \in Nat
          BY <5>1, ContentKinds
        <5> HIDE DEF m, v
        <5>3. BLOCK_MAX \in Nat
          BY RockUsbAssumption, Zenon
        <5>4. FreshIn(m, v, c.lba + d, BLOCK_MAX)
          BY <4>9, Zenon DEF m
        <5>5. FreshIn(m, v, c.lba + d, b)
          BY <4>4, <5>2, <5>3, <5>4 DEF FreshIn
        <5> QED
          BY <5>5, Zenon DEF m
      <4>11. d + b < n => FreshIn(Data(MediaRead(Dev, c.lba + (d + b), BLOCK_MAX)), v,
                                  c.lba + (d + b), BLOCK_MAX)
        BY <3>2, <3>3, <3>4, <4>2, <4>3, <4>4, <2>AheadFresh
      <4> HIDE DEF v
      <4> QED
        BY <3>1, <3>2, <3>3, <4>3, <4>5, <4>6, <4>8, <4>10, <4>11, <2>UploadData, Zenon DEF b, v
    <3>7. CASE Finishing
        BY <3>3, <3>7, Zenon DEF Finishing, InIdle, InBusy
    <3> QED
        BY <3>3, <3>5, <3>6, <3>7, Zenon
  (* A write command begins at its first block.                              *)
  <2>PassBeginsWrite.
        ASSUME LinkInv, Pass, ~Receiving, host.cmd.op \in Writes
        PROVE  /\ usbcmd'.status = "RXDATA" =>
                     usbcmd'.d_bytes \div UNIT = 0 /\ usbcmd'.lba = host.cmd.lba + 0
               /\ usbcmd'.status = "IDLE" => host.cmd.n = 0
    <3> USE <2>PassBeginsWrite
    <3> DEFINE s == Serve(Dev, rx_buffer)
               c == host.cmd
    <3>1. DeviceOK /\ HostOK
        BY LinkParts, Zenon
    <3>2. Commanded
        BY PassWorks, Zenon
    <3>3. /\ Dev \in DevType /\ Rests(Dev) /\ Idle(Dev.out) /\ HasCommand(Dev.u)
          /\ Fetched(Dev, rx_buffer) = c /\ c.n \in Nat /\ c.lba \in Nat
        BY <3>1, <3>2, PassTakes, Zenon DEF CmdType
    <3>4. rx_buffer \in [0 .. 1 -> ContentType]
        BY <3>1, Zenon DEF HostOK
    <3>5. /\ c.n = 0 => Answers(s, c.tag)
          /\ c.n > 0 => s.u.status = "RXDATA" /\ s.u.lba = c.lba /\ s.u.d_bytes = 0 * UNIT
        BY <3>3, <3>4, ServeWrite
    <3> HIDE DEF s
    <3>6. s.u.status # "HUNG"
        BY <3>3, <3>5 DEF Answers
    <3>7. usbcmd'.status = s.u.status /\ usbcmd'.lba = s.u.lba /\ usbcmd'.d_bytes = s.u.d_bytes
        BY <3>1, <3>6, PassLeaves, Zenon DEF s, Leaves
    <3>8. CASE c.n = 0
        BY <3>5, <3>7, <3>8, Zenon DEF Answers
    <3>9. CASE c.n > 0
      <4>1. (0 * UNIT) \div UNIT = 0 /\ c.lba + 0 = c.lba
        BY <3>3 DEF UNIT
      <4> QED
        BY <3>5, <3>7, <3>9, <4>1, Zenon
    <3> QED
        BY <3>3, <3>8, <3>9
  <2> USE <1>PassData
  <2>1. LinkInv /\ Fitting /\ SysTagged /\ WrittenAsAnswered /\ WriteInv /\ GotPart
        /\ (host.cmd.op \in Reads /\ host.phase = "in" => SentPart /\ AheadPart)
      BY DataParts, <1>ReadParts, Zenon DEF RInv
  <2>2. /\ medium' = medium /\ sec'.lock = sec.lock /\ (pc' = "delay" => Control(host.cmd.op))
        /\ UNCHANGED <<host, view>>
      BY <2>1, PassKeeps, Zenon DEF Pass
  <2>3. SysTagged' /\ WrittenAsAnswered'
      BY <2>1, <2>2, <1>MediumStays, Zenon
  <2>4. GotPart'
    <3>1. pc' = "delay" => host.cmd.op \notin Reads
      BY <2>2, Zenon DEF Control
    <3> QED
      BY <2>1, <2>2, <3>1, Zenon DEF GotPart, ReadCorrect
  <2>5. (host.cmd.op \in Reads /\ host.phase = "in" => SentPart /\ AheadPart)'
    <3> SUFFICES ASSUME host.cmd.op \in Reads, host.phase = "in"
                 PROVE  SentPart' /\ AheadPart'
      BY <2>2, Zenon
    <3> QED
      BY <2>1, <2>PassUploads, Zenon
  <2>6. WriteInv'
    <3> SUFFICES ASSUME host.cmd.op \in Writes, host.phase \in {"out", "csw"}, Permitted(host.cmd)'
                 PROVE  WriteInv'
      BY <2>2, Zenon DEF WriteInv
    <3>1. Permitted(host.cmd)
      BY <2>2, Zenon DEF Permitted
    <3>2. \A a \in At(Target(host.cmd)) \cap Touched(host.cmd) :
                Shown(host.cmd, a) \in view[Target(host.cmd)][a]
      BY <2>1, <3>1, Zenon DEF WriteInv
    <3>3. /\ usbcmd'.status = "RXDATA" =>
                   usbcmd'.d_bytes \div UNIT = 0 /\ usbcmd'.lba = host.cmd.lba + 0
          /\ usbcmd'.status = "IDLE" => host.cmd.n = 0
      BY <2>1, <2>PassBeginsWrite, Zenon
    <3>4. \A i \in 1 .. 0 : FALSE
      OBVIOUS
    <3>5. AwaitsCommand' => \A i \in 1 .. host'.cmd.n : InPlace(host.cmd, i)'
      BY <2>2, <3>3, <3>4, Zenon DEF AwaitsCommand
    <3>6. (usbcmd.status = "RXDATA" =>
                LET d == usbcmd.d_bytes \div UNIT
                IN  /\ host.cmd.sp # "UNLOCK" => usbcmd.lba = host.cmd.lba + d
                    /\ \A i \in 1 .. d : InPlace(host.cmd, i))'
      BY <2>2, <3>3, <3>4, Zenon
    <3>7. (\A a \in At(Target(host.cmd)) \cap Touched(host.cmd) :
                Shown(host.cmd, a) \in view[Target(host.cmd)][a])'
      BY <2>2, <3>2, Zenon
    <3> QED
      BY <3>5, <3>6, <3>7, Zenon DEF WriteInv
  <2> QED
      BY <2>3, <2>4, <2>5, <2>6, <1>ReadPartsNext, <1>DataPartsNext
(* A pass that takes data from the host.                                   *)
<1>PassTakesData.
      ASSUME RInv, Pass, Receiving
      PROVE  DataInv'
  (* Multiples of a page.                                                    *)
  <2>Divided.
        ASSUME NEW a \in Nat, NEW b \in Nat \ {0}
        PROVE  a \div b \in Nat /\ (a \div b) * b <= a /\ a < (a \div b) * b + b
    <3> USE <2>Divided
    <3> QED
        OBVIOUS
  (* Multiples are ordered as their factors are.                             *)
  <2>Products.
        ASSUME NEW x \in Nat, NEW y \in Nat, NEW b \in Nat \ {0}
        PROVE  /\ x * b \in Nat /\ (x + y) * b = x * b + y * b
               /\ x * b < y * b + b => x <= y /\ x * b <= y * b
    <3> USE <2>Products
    <3>1. \A z \in Nat : z * b \in Nat
        OBVIOUS
    <3>2. (x + y) * b = x * b + y * b
        OBVIOUS
    <3>3. ASSUME x >= y + 1 PROVE x * b >= y * b + b
      <4>1. (x - y - 1) * b = x * b - y * b - b /\ x - y - 1 \in Nat
        BY <3>3
      <4> QED
        BY <3>1, <4>1
    <3>4. ASSUME x <= y PROVE x * b <= y * b
      <4>1. (y - x) * b = y * b - x * b /\ y - x \in Nat
        BY <3>4
      <4> QED
        BY <3>1, <4>1
    <3> QED
        BY <3>1, <3>2, <3>3, <3>4
  (* The pages that n blocks begin.                                          *)
  <2>PagesBegun.
        ASSUME NEW n \in Nat
        PROVE  LET q == (n + PBA_PAGE - 1) \div PBA_PAGE
               IN  q \in Nat /\ q * PBA_PAGE \in Nat /\ n <= q * PBA_PAGE /\ q * PBA_PAGE < n + PBA_PAGE
    <3> USE <2>PagesBegun
    <3> DEFINE a == n + PBA_PAGE - 1
               q == a \div PBA_PAGE
    <3>1. PBA_PAGE \in Nat \ {0}
        BY RockUsbAssumption, Zenon
    <3>2. a \in Nat
        BY <3>1
    <3> HIDE DEF a
    <3>3. q \in Nat /\ q * PBA_PAGE <= a /\ a < q * PBA_PAGE + PBA_PAGE
        BY <3>1, <3>2, <2>Divided, Zenon
    <3> HIDE DEF q
    <3>4. q * PBA_PAGE \in Nat
        BY <3>1, <3>3
    <3>5. n <= q * PBA_PAGE /\ q * PBA_PAGE < n + PBA_PAGE
        BY <3>1, <3>3, <3>4 DEF a
    <3> QED
        BY <3>3, <3>4, <3>5, Zenon DEF q, a
  (* A buffer is a number of pages.                                          *)
  <2>BufferPages.
     \E k \in Nat \ {0} : BLOCK_MAX = k * PBA_PAGE /\ PBA_PAGE <= BLOCK_MAX
    <3>1. BLOCK_MAX \in Nat \ {0} /\ PBA_PAGE \in Nat \ {0} /\ BLOCK_MAX % PBA_PAGE = 0
        BY RockUsbAssumption, Zenon
    <3>2. \A a \in Nat, b \in Nat \ {0} : a \div b \in Nat /\ (a % b = 0 => a = (a \div b) * b)
        OBVIOUS
    <3> DEFINE k == BLOCK_MAX \div PBA_PAGE
    <3>3. k \in Nat /\ BLOCK_MAX = k * PBA_PAGE
        BY <3>1, <3>2, Zenon
    <3> HIDE DEF k
    <3>4. k # 0
        BY <3>1, <3>3
    <3>5. PBA_PAGE <= k * PBA_PAGE
      <4>1. (k - 1) * PBA_PAGE = k * PBA_PAGE - PBA_PAGE /\ k - 1 \in Nat
        BY <3>1, <3>3, <3>4
      <4>2. (k - 1) * PBA_PAGE \in Nat
        BY <3>1, <4>1, <2>Products, Zenon
      <4> QED
        BY <3>1, <3>3, <4>1, <4>2
    <3> QED
        BY <3>3, <3>4, <3>5, Zenon
  (* A buffer is a whole number of pages.                                    *)
  <2>PagesOfBuffer.
     PbaBlocks(BLOCK_MAX) = BLOCK_MAX
    <3>1. PICK k \in Nat \ {0} : BLOCK_MAX = k * PBA_PAGE
        BY <2>BufferPages, Zenon
    <3> DEFINE q == (BLOCK_MAX + PBA_PAGE - 1) \div PBA_PAGE
    <3>2. BLOCK_MAX \in Nat /\ PBA_PAGE \in Nat \ {0}
        BY RockUsbAssumption, Zenon
    <3>3. /\ q \in Nat /\ q * PBA_PAGE \in Nat /\ BLOCK_MAX <= q * PBA_PAGE
          /\ q * PBA_PAGE < BLOCK_MAX + PBA_PAGE
        BY <3>2, <2>PagesBegun, Zenon
    <3>4. PbaBlocks(BLOCK_MAX) = IF BLOCK_MAX <= PBA_PAGE THEN BLOCK_MAX ELSE q * PBA_PAGE
        BY Zenon DEF PbaBlocks
    <3> HIDE DEF q
    <3>5. q * PBA_PAGE <= k * PBA_PAGE
        BY <3>1, <3>2, <3>3, <2>Products, Zenon
    <3> QED
        BY <3>1, <3>2, <3>3, <3>4, <3>5
  (* The pages written by a part of a write are pages of the write.          *)
  <2>PagesOfPart.
        ASSUME NEW j \in Nat, NEW n \in Nat, j * BLOCK_MAX < n, NEW d, d = j * BLOCK_MAX,
               NEW m, m = Min2(n - d, BLOCK_MAX)
        PROVE  /\ PbaBlocks(m) \in Nat /\ m <= PbaBlocks(m) /\ n <= PbaBlocks(n)
               /\ PbaBlocks(n) \in Nat /\ d + PbaBlocks(m) <= PbaBlocks(n)
               /\ PbaBlocks(m) # m => d + m = n
    <3> USE <2>PagesOfPart
    <3>1. BLOCK_MAX \in Nat \ {0} /\ PBA_PAGE \in Nat \ {0}
        BY RockUsbAssumption, Zenon
    <3>2. d \in Nat /\ m \in Nat \ {0} /\ d + m <= n /\ (d + m < n => m = BLOCK_MAX)
        BY Portion, Zenon
    <3>3. \A i \in Nat : PbaBlocks(i) \in Nat /\ i <= PbaBlocks(i)
      <4> SUFFICES ASSUME NEW i \in Nat PROVE PbaBlocks(i) \in Nat /\ i <= PbaBlocks(i)
        BY Zenon
      <4> DEFINE q == (i + PBA_PAGE - 1) \div PBA_PAGE
      <4>1. q * PBA_PAGE \in Nat /\ i <= q * PBA_PAGE
        BY <2>PagesBegun, Zenon
      <4>2. PbaBlocks(i) = IF i <= PBA_PAGE THEN i ELSE q * PBA_PAGE
        BY Zenon DEF PbaBlocks
      <4> HIDE DEF q
      <4> QED
        BY <4>1, <4>2
    <3>4. CASE d + m < n
      <4>1. PbaBlocks(m) = m
        BY <3>2, <3>4, <2>PagesOfBuffer, Zenon
      <4>2. n <= PbaBlocks(n) /\ PbaBlocks(n) \in Nat
        BY <3>3, Zenon
      <4> QED
        BY <3>2, <3>3, <3>4, <4>1, <4>2
    <3>5. CASE d + m = n /\ j = 0
      <4>1. d = 0 /\ m = n
        BY <3>1, <3>2, <3>5
      <4> QED
        BY <3>2, <3>3, <3>5, <4>1
    <3>6. CASE d + m = n /\ j # 0
      <4> DEFINE q == (n + PBA_PAGE - 1) \div PBA_PAGE
                 e == (m + PBA_PAGE - 1) \div PBA_PAGE
      <4>1. PICK k \in Nat \ {0} : BLOCK_MAX = k * PBA_PAGE /\ PBA_PAGE <= BLOCK_MAX
        BY <2>BufferPages, Zenon
      <4>2. BLOCK_MAX <= d
        <5>1. j - 1 \in Nat /\ (j - 1) + 1 = j
          BY <3>6
        <5>2. j * BLOCK_MAX = (j - 1) * BLOCK_MAX + BLOCK_MAX /\ (j - 1) * BLOCK_MAX \in Nat
          BY <5>1, Multiples, Zenon
        <5> QED
          BY <3>1, <5>2
      <4>3. n > PBA_PAGE
        BY <3>1, <3>2, <3>6, <4>1, <4>2
      <4>4. /\ q \in Nat /\ q * PBA_PAGE \in Nat /\ n <= q * PBA_PAGE
            /\ e \in Nat /\ e * PBA_PAGE \in Nat /\ e * PBA_PAGE < m + PBA_PAGE
        BY <3>2, <2>PagesBegun, Zenon
      <4>5. /\ PbaBlocks(n) = IF n <= PBA_PAGE THEN n ELSE q * PBA_PAGE
            /\ PbaBlocks(m) = IF m <= PBA_PAGE THEN m ELSE e * PBA_PAGE
        BY Zenon DEF PbaBlocks
      <4> HIDE DEF q, e
      <4>6. PbaBlocks(n) = q * PBA_PAGE
        BY <3>1, <4>3, <4>5
      <4> DEFINE f == j * k
      <4>7. d = f * PBA_PAGE /\ f \in Nat
        <5>1. \A x, y, z \in Nat : x * (y * z) = (x * y) * z /\ x * y \in Nat
          OBVIOUS
        <5> QED
          BY <3>1, <4>1, <5>1
      <4> HIDE DEF f
      <4>8. d + e * PBA_PAGE <= q * PBA_PAGE
        <5>1. (f + e) * PBA_PAGE = f * PBA_PAGE + e * PBA_PAGE /\ f + e \in Nat
          BY <3>1, <4>4, <4>7, <2>Products
        <5>2. (f + e) * PBA_PAGE < q * PBA_PAGE + PBA_PAGE
          BY <3>1, <3>2, <3>6, <4>4, <4>7, <5>1
        <5>3. (f + e) * PBA_PAGE <= q * PBA_PAGE
          BY <3>1, <4>4, <5>1, <5>2, <2>Products
        <5> QED
          BY <4>7, <5>1, <5>3, Zenon
      <4>9. d + PbaBlocks(m) <= PbaBlocks(n)
        BY <3>2, <3>6, <4>4, <4>5, <4>6, <4>8
      <4> QED
        BY <3>2, <3>3, <3>6, <4>9
    <3> QED
        BY <3>2, <3>4, <3>5, <3>6
  (* The blocks of a write are on the medium.                                *)
  <2>WriteOnMedium.
        ASSUME NEW c \in CmdType, c.op \in Writes, Fits(c), NEW i \in 1 .. c.n
        PROVE  c.lba + i - 1 \in At(Target(c))
    <3> USE <2>WriteOnMedium
    <3>1. c.n \in Nat /\ c.lba \in Nat /\ c.lba + c.n <= Limit(c) /\ Target(c) \in Spaces
        BY TargetTyped, Zenon DEF CmdType, Fits
    <3>2. CASE Target(c) = "UNLOCK"
      <4>1. c.sp = "UNLOCK"
        BY <3>2, Zenon DEF Target
      <4>2. c.lba = 0 /\ c.n <= 1
        BY <4>1, Zenon DEF Fits
      <4> QED
        BY <3>1, <3>2, <4>2, AtNumbers
    <3>3. CASE Target(c) = "PBA"
      <4>1. Limit(c) = Capacity - 1 /\ At(Target(c)) = 0 .. Capacity + PBA_PAGE - 1
        BY <3>1, <3>3, AtNumbers, Zenon DEF Limit
      <4> QED
        BY <3>1, <4>1, RockUsbAssumption
    <3>4. CASE Target(c) \notin {"PBA", "UNLOCK"}
      <4>1. Limit(c) = Capacity /\ At(Target(c)) = 0 .. Capacity - 1
        BY <3>1, <3>4, AtNumbers DEF Limit
      <4> QED
        BY <3>1, <4>1, RockUsbAssumption
    <3> QED
        BY <3>2, <3>3, <3>4, Zenon
  (* An address among the k blocks is that of a block of them.               *)
  <2>BlocksAt.
        ASSUME NEW l \in Nat, NEW d \in Nat, NEW k \in Nat, NEW n \in Nat, NEW t \in Nat,
               d + k <= t, NEW x \in l + d .. l + d + k - 1
        PROVE  BlockAt(l, d, k, n, t, x)
    <3> USE <2>BlocksAt
    <3> QED
        BY DEF BlockAt
  (* A block of the first d + m is before the k blocks or one of them.       *)
  <2>AddressesOf.
        ASSUME NEW l \in Nat, NEW d \in Nat, NEW k \in Nat, NEW n \in Nat, NEW m \in Nat,
               m <= k, d + m <= n, NEW i \in 1 .. d + m
        PROVE  AddressOf(l, d, k, n, i)
    <3> USE <2>AddressesOf
    <3> QED
        BY DEF AddressOf
  (* Blocks q put on the medium from block d + 1 of the write on.            *)
  <2>PutWritten.
        ASSUME NEW c \in CmdType, c.op \in Writes, Fits(c), NEW med \in MediumType,
               NEW d \in Nat, NEW m \in Nat, NEW q, AsStored(c, q, d, m),
               NEW w, w = [med EXCEPT ![Target(c)] = Put(@, c.lba + d, q)]
        PROVE  Written(c, med, w, d, m)
    <3> USE <2>PutWritten
    <3> DEFINE tg == Target(c)
               f == Put(med[tg], c.lba + d, q)
    <3>1. tg \in Spaces /\ c.lba \in Nat /\ c.n \in Nat /\ Len(q) \in Nat /\ c.lba + d \in Nat
          /\ q \in Seq(BlockType) /\ m <= Len(q) /\ d + m <= c.n
        BY TargetTyped DEF CmdType, AsStored
    <3>2. med[tg] \in [At(tg) -> BlockType] /\ At(tg) \in SUBSET Int
        BY <3>1, AtNumbers, Zenon DEF MediumType
    <3>3. f \in [At(tg) -> BlockType]
        BY <3>1, <3>2, PutTyped, Zenon
    <3>4. \A x \in At(tg) : f[x] = IF x \in c.lba + d .. c.lba + d + Len(q) - 1
                                   THEN q[x - (c.lba + d) + 1] ELSE med[tg][x]
        BY <3>2, Zenon DEF Put
    <3> HIDE DEF f, tg
    <3>5. w = [med EXCEPT ![tg] = f]
        BY Zenon DEF f, tg
    <3>6. w[tg] = f /\ \A x \in Spaces : x # tg => w[x] = med[x]
        BY <3>1, <3>3, <3>5, SetSpace
    <3>7. \A x \in At(tg) : f[x] = med[tg][x] \/ (x \in Touched(c) /\ f[x] = Shown(c, x))
      <4> SUFFICES ASSUME NEW x \in At(tg), x \in c.lba + d .. c.lba + d + Len(q) - 1
                   PROVE  x \in Touched(c) /\ f[x] = Shown(c, x)
        BY <3>4, Zenon
      <4> DEFINE i == x - (c.lba + d) + 1
      <4>1. PICK t \in Nat : Touched(c) = c.lba .. c.lba + t - 1 /\ d + Len(q) <= t
        BY Zenon DEF AsStored
      <4>2. /\ i \in 1 .. Len(q) /\ d + i = x - c.lba + 1 /\ (d + i <= c.n <=> x < c.lba + c.n)
            /\ x \in Touched(c)
        <5>1. BlockAt(c.lba, d, Len(q), c.n, t, x)
          BY <3>1, <4>1, <2>BlocksAt, Zenon
        <5> QED
          BY <4>1, <5>1, Zenon DEF BlockAt
      <4>3. f[x] = q[i]
        BY <3>4, Zenon
      <4> HIDE DEF i
      <4>4. q[i] = IF d + i <= c.n THEN Stored(c, d + i) ELSE Junk
        BY <4>2, Zenon DEF AsStored
      <4>5. f[x] = IF x < c.lba + c.n THEN Stored(c, x - c.lba + 1) ELSE Junk
        BY <4>2, <4>3, <4>4, Zenon
      <4> QED
        BY <4>2, <4>5, Zenon DEF Shown
    <3>8. ASSUME NEW i \in 1 .. d + m
          PROVE  /\ i <= d => f[c.lba + i - 1] = med[tg][c.lba + i - 1]
                 /\ i > d => f[c.lba + i - 1] = Stored(c, i)
      <4> DEFINE x == c.lba + i - 1
                 b == i - d
      <4>1. /\ i \in 1 .. c.n /\ i <= c.n /\ (i <= d => x \notin c.lba + d .. c.lba + d + Len(q) - 1)
            /\ i > d => /\ x \in c.lba + d .. c.lba + d + Len(q) - 1 /\ x - (c.lba + d) + 1 = b
                        /\ b \in 1 .. Len(q) /\ d + b = i
        <5>1. AddressOf(c.lba, d, Len(q), c.n, i)
          BY <3>1, <2>AddressesOf, Zenon
        <5> QED
          BY <5>1, Zenon DEF AddressOf
      <4>2. x \in At(tg)
        BY <4>1, <2>WriteOnMedium, Zenon DEF tg
      <4> HIDE DEF x, b
      <4>3. i <= d => f[x] = med[tg][x]
        BY <3>4, <4>1, <4>2, Zenon
      <4>4. ASSUME i > d PROVE f[x] = Stored(c, i)
        <5>1. f[x] = q[b]
          BY <3>4, <4>1, <4>2, <4>4, Zenon
        <5>2. q[b] = IF d + b <= c.n THEN Stored(c, d + b) ELSE Junk
          BY <4>1, <4>4, Zenon DEF AsStored
        <5> QED
          BY <4>1, <4>4, <5>1, <5>2, Zenon
      <4> QED
        BY <4>3, <4>4, Zenon DEF x
    <3>9. /\ \A i \in 1 .. d : f[c.lba + i - 1] = med[tg][c.lba + i - 1]
          /\ \A i \in d + 1 .. d + m : f[c.lba + i - 1] = Stored(c, i)
      <4>1. /\ \A i \in 1 .. d : i \in 1 .. d + m /\ i <= d
            /\ \A i \in d + 1 .. d + m : i \in 1 .. d + m /\ i > d
        OBVIOUS
      <4> QED
        BY <3>8, <4>1, Zenon
    <3>10. \A sp \in Spaces : \A x \in At(sp) :
              \/ w[sp][x] = med[sp][x]
              \/ sp = tg /\ x \in Touched(c) /\ w[sp][x] = Shown(c, x)
        BY <3>6, <3>7, Zenon
    <3> QED
        BY <3>6, <3>9, <3>10, Zenon DEF Written, tg
  (* Part j of the data of a write.                                          *)
  <2>PayloadPart.
        ASSUME NEW c \in CmdType, NEW j \in Nat, j * BLOCK_MAX < c.n
        PROVE  LET d == j * BLOCK_MAX
                   m == Min2(c.n - d, BLOCK_MAX)
               IN  PartOf(c, SubSeq(Payload(c), d + 1, d + m), d, m)
    <3> USE <2>PayloadPart
    <3> DEFINE d == j * BLOCK_MAX
               m == Min2(c.n - d, BLOCK_MAX)
               p == SubSeq(Payload(c), d + 1, d + m)
    <3>1. c.n \in Nat
        BY Zenon DEF CmdType
    <3>2. d \in Nat /\ m \in Nat \ {0} /\ d + m <= c.n
        BY <3>1, Portion, Zenon
    <3>3. /\ PbaBlocks(m) \in Nat /\ m <= PbaBlocks(m) /\ PbaBlocks(c.n) \in Nat
          /\ d + PbaBlocks(m) <= PbaBlocks(c.n) /\ (PbaBlocks(m) # m => d + m = c.n)
        BY <3>1, <2>PagesOfPart
    <3> HIDE DEF d, m
    <3>4. p \in Seq(BlockType) /\ Len(p) = m /\ \A i \in 1 .. m : p[i] = <<c.v, d + i>>
        BY <3>2, PieceTyped, Zenon
    <3> HIDE DEF p
    <3>5. PartOf(c, p, d, m)
        BY <3>2, <3>3, <3>4, Zenon DEF PartOf
    <3> QED
        BY <3>5, Zenon DEF d, m, p
  (* Where a command goes on after it has stored n blocks.                   *)
  <2>StoredAt.
        ASSUME NEW a \in DevType, NEW w \in MediumType, NEW n \in Nat
        PROVE  LET t == [a EXCEPT !.med = w, !.u.lba = @ + n]
               IN  t.med = w /\ t.u.lba = a.u.lba + n
    <3> USE <2>StoredAt
    <3>1. a.u \in UsbcmdType
        BY Zenon DEF DevType
    <3> QED
        BY <3>1, Zenon DEF DevType, UsbcmdType
  (* Part of the data of a write is taken over.                              *)
  <2>WritesPart.
        ASSUME NEW a \in DevType, NEW c \in CmdType, a.u.cbw = c, c.op \in Writes, Fits(c),
               NEW d, NEW m, NEW p, PartOf(c, p, d, m),
               ~a.sec.lock \/ (c.op = "LBA_WRITE_10" /\ c.sp # "LBA"),
               c.sp # "UNLOCK" => a.u.lba = c.lba + d
        PROVE  LET t == MediaWrite(a, p)
               IN  /\ Written(c, a.med, t.med, d, m)
                   /\ c.sp # "UNLOCK" => t.u.lba = c.lba + (d + m)
    <3> USE <2>WritesPart
    <3> DEFINE sp == c.sp
               n == Len(p)
               to(med) == [a EXCEPT !.med = med, !.u.lba = @ + n]
    <3>1. /\ c.n \in Nat /\ c.lba \in Nat /\ sp \in Spaces /\ c.v \in Nat
          /\ a.med \in MediumType /\ a.u \in UsbcmdType
        BY Zenon DEF CmdType, DevType
    <3>2. d \in Nat /\ m \in Nat \ {0} /\ d + m <= c.n
        BY Zenon DEF PartOf
    <3>3. p \in Seq(BlockType) /\ n = m /\ \A i \in 1 .. m : p[i] = <<c.v, d + i>>
        BY Zenon DEF PartOf
    <3>4. /\ StorageWritePba(a.med, c.lba + d, p) \in MediumType
          /\ StorageVendorSysDataStore(a.med, c.lba + d, p) \in MediumType
          /\ StorageWriteLba(a.med, sp, c.lba + d, p) \in MediumType
      <4>1. c.lba + d \in Nat
        BY <3>1, <3>2
      <4>2. StorageWritePba(a.med, c.lba + d, p) \in MediumType
        BY <3>1, <3>3, <4>1, WritePbaTyped, Zenon
      <4>3. StorageVendorSysDataStore(a.med, c.lba + d, p) \in MediumType
        BY <3>1, <3>3, <4>1, SysStoreTyped, Zenon
      <4>4. StorageWriteLba(a.med, sp, c.lba + d, p) \in MediumType
        BY <3>1, <3>3, <4>1, WriteLbaTyped, Zenon
      <4> QED
        BY <4>2, <4>3, <4>4, Zenon
    <3>5. ASSUME NEW w \in MediumType, a.u.lba = c.lba + d
          PROVE  to(w).med = w /\ to(w).u.lba = c.lba + (d + m)
      <4>1. to(w).med = w /\ to(w).u.lba = a.u.lba + m
        BY <3>2, <3>3, <2>StoredAt
      <4>2. to(w).u.lba = a.u.lba + m
        BY <4>1, Zenon
      <4> QED
        BY <3>1, <3>2, <3>5, <4>2, <4>1
    <3>6. c.lba + d + m <= Limit(c) /\ c.lba + d + m \in Nat
      <4>1. c.lba + c.n <= Limit(c) /\ Limit(c) \in Int
        BY RockUsbAssumption DEF Fits, Limit
      <4> QED
        BY <3>1, <3>2, <4>1
    <3> HIDE DEF n
    <3>7. CASE c.op = "WRITE_10"
      <4> DEFINE q == PbaPages(p)
                 w == StorageWritePba(a.med, c.lba + d, p)
                 t == to(w)
      <4>1. sp = "LBA" /\ Target(c) = "PBA" /\ Limit(c) = Capacity - 1
        BY <3>7, Zenon DEF Fits, Target, Limit
      <4>2. ~a.sec.lock /\ a.u.lba = c.lba + d
        BY <3>7, <4>1, Zenon
      <4>3. MediaWrite(a, p) = [t EXCEPT !.ld = "LOADER_ERR"]
        BY <3>7, <4>2, Zenon DEF MediaWrite, n
      <4>4. Stores(a, t) /\ t.med = w /\ t.u.lba = c.lba + (d + m)
        BY <3>2, <3>3, <3>4, <3>5, <4>2, StoresMedium, Zenon DEF n
      <4> HIDE DEF t
      <4>5. MediaWrite(a, p).med = w /\ MediaWrite(a, p).u.lba = c.lba + (d + m)
        BY <4>3, <4>4, MarksLoader, Zenon
      <4>6. /\ PbaBlocks(m) \in Nat /\ m <= PbaBlocks(m) /\ PbaBlocks(c.n) \in Nat
            /\ d + PbaBlocks(m) <= PbaBlocks(c.n) /\ (PbaBlocks(m) # m => d + m = c.n)
        BY Zenon DEF PartOf
      <4>7. q \in Seq(BlockType) /\ Len(q) = PbaBlocks(m)
        BY <3>3, PagesTyped, Zenon DEF n
      <4>8. ~(c.lba + d + m >= Capacity)
        BY <3>6, <4>1, RockUsbAssumption
      <4>9. w = [a.med EXCEPT !["PBA"] = Put(@, c.lba + d, q)]
        BY <3>3, <4>8, Zenon DEF StorageWritePba, PbaPages, n
      <4>10. \A i \in 1 .. Len(q) : q[i] = IF d + i <= c.n THEN Stored(c, d + i) ELSE Junk
        <5> SUFFICES ASSUME NEW i \in 1 .. PbaBlocks(m)
                     PROVE  q[i] = IF d + i <= c.n THEN Stored(c, d + i) ELSE Junk
          BY <4>7, Zenon
        <5>1. q[i] = IF i <= m THEN p[i] ELSE Junk
          BY <3>3, Zenon DEF PbaPages, n
        <5>2. CASE i <= m
          <6>1. d + i <= c.n /\ i \in 1 .. m
            BY <3>1, <3>2, <5>2
          <6>2. Stored(c, d + i) = <<c.v, d + i>>
            BY <4>1, Zenon DEF Stored
          <6> QED
            BY <3>3, <5>1, <5>2, <6>1, <6>2, Zenon
        <5>3. CASE ~(i <= m)
          <6>1. ~(d + i <= c.n)
            BY <3>1, <3>2, <4>6, <5>3
          <6> QED
            BY <5>1, <5>3, <6>1, Zenon
        <5> QED
          BY <5>2, <5>3, Zenon
      <4>11. Touched(c) = c.lba .. c.lba + PbaBlocks(c.n) - 1
        BY <3>7, Zenon DEF Touched
      <4> HIDE DEF q, w
      <4>12. Written(c, a.med, w, d, m)
        <5>1. AsStored(c, q, d, m)
          BY <3>2, <4>6, <4>7, <4>10, <4>11, Zenon DEF AsStored
        <5> QED
          BY <3>1, <3>2, <4>1, <4>9, <5>1, <2>PutWritten, Zenon
      <4> QED
        BY <4>5, <4>12, Zenon
    <3>8. CASE c.op # "WRITE_10"
      <4>1. c.op = "LBA_WRITE_10" /\ Target(c) = sp /\ sp # "PBA" /\ Limit(c) = Capacity
            /\ Touched(c) = c.lba .. c.lba + c.n - 1
        BY <3>8, Zenon DEF Writes, Target, Fits, Touched, Limit
      <4>2. ~(c.lba + d + m > Capacity)
        BY <3>6, <4>1, RockUsbAssumption
      <4>3. CASE sp = "UNLOCK"
        <5>1. c.lba = 0 /\ c.n = 1 /\ d = 0 /\ m = 1
          BY <3>1, <3>2, <4>3 DEF Fits
        <5>2. MediaWrite(a, p) = SecureBootUnlock(a, p[1])
          BY <3>8, <4>3, Zenon DEF MediaWrite
        <5> DEFINE t == MediaWrite(a, p)
        <5>3. /\ t.med["UNLOCK"][0] = IF p[1] = <<GoodKey, 1>> THEN p[1] ELSE Junk
              /\ \A x \in Spaces : x # "UNLOCK" => t.med[x] = a.med[x]
          <6>1. PICK key : key = p[1]
            BY Zenon
          <6>2. t = SecureBootUnlock(a, key)
            BY <5>2, <6>1, Zenon
          <6> HIDE DEF t
          <6>3. t.med["UNLOCK"][0] = IF key = <<GoodKey, 1>> THEN key ELSE Junk
            BY <6>2, UnlockEffect, Zenon
          <6>4. \A x \in Spaces : x # "UNLOCK" => t.med[x] = a.med[x]
            BY <6>2, UnlockEffect
          <6> QED
            BY <6>1, <6>3, <6>4, Zenon
        <5>4. p[1] = <<c.v, 1>>
          BY <3>3, <5>1
        <5>5. Stored(c, 1) = IF c.v # GoodKey THEN Junk ELSE <<c.v, 1>>
          BY <4>1, <4>3, Zenon DEF Stored
        <5>6. t.med["UNLOCK"][0] = Stored(c, 1)
          BY <5>3, <5>4, <5>5
        <5>7. At("UNLOCK") = {0} /\ 0 \in Touched(c) /\ Shown(c, 0) = Stored(c, 1)
          BY <3>1, <4>1, <4>3, <5>1, AtNumbers DEF Shown
        <5>8. \A x \in 1 .. d : FALSE
          BY <5>1
        <5>9. \A x \in d + 1 .. d + m : x = 1 /\ c.lba + x - 1 = 0
          BY <5>1
        <5> HIDE DEF t
        <5>10. \A x \in Spaces : \A y \in At(x) :
                 \/ t.med[x][y] = a.med[x][y]
                 \/ x = "UNLOCK" /\ y \in Touched(c) /\ t.med[x][y] = Shown(c, y)
          BY <5>3, <5>6, <5>7, Zenon
        <5>11. Written(c, a.med, t.med, d, m)
          BY <4>1, <4>3, <5>6, <5>8, <5>9, <5>10, Zenon DEF Written
        <5> QED
          BY <4>3, <5>11, Zenon DEF t
      <4>4. CASE sp = "SYS"
        <5> DEFINE q == [i \in DOMAIN p |-> Tagged(p[i])]
                   w == StorageVendorSysDataStore(a.med, c.lba + d, p)
        <5>1. MediaWrite(a, p) = to(w)
          BY <3>8, <4>4, Zenon DEF MediaWrite, n
        <5>2. MediaWrite(a, p).med = w /\ MediaWrite(a, p).u.lba = c.lba + (d + m)
          BY <3>4, <3>5, <4>4, <5>1
        <5>3. q \in Seq(BlockType) /\ Len(q) = m
          BY <3>1, <3>2, <3>3, SysStoreTyped, Zenon DEF n
        <5>4. \A i \in 1 .. m : q[i] = Tagged(p[i])
          BY <3>3 DEF n
        <5> HIDE DEF q
        <5>5. w = [a.med EXCEPT ![Target(c)] = Put(@, c.lba + d, q)]
          BY <4>1, <4>2, <4>4, <5>3, Zenon DEF StorageVendorSysDataStore, StorageWriteLba, q
        <5>6. \A i \in 1 .. Len(q) : q[i] = IF d + i <= c.n THEN Stored(c, d + i) ELSE Junk
          <6> SUFFICES ASSUME NEW i \in 1 .. m
                       PROVE  q[i] = IF d + i <= c.n THEN Stored(c, d + i) ELSE Junk
            BY <5>3, Zenon
          <6>1. d + i <= c.n
            BY <3>1, <3>2
          <6>2. Stored(c, d + i) = Tagged(<<c.v, d + i>>)
            BY <4>1, <4>4, Zenon DEF Stored
          <6> QED
            BY <3>3, <5>4, <6>1, <6>2, Zenon
        <5> HIDE DEF w
        <5>7. Written(c, a.med, w, d, m)
          <6>1. AsStored(c, q, d, m)
            BY <3>1, <3>2, <4>1, <5>3, <5>6 DEF AsStored
          <6> QED
            BY <3>1, <3>2, <5>5, <6>1, <2>PutWritten, Zenon
        <5> QED
          BY <5>2, <5>7
      <4>5. CASE sp \notin {"SYS", "UNLOCK"}
        <5> DEFINE w == StorageWriteLba(a.med, sp, c.lba + d, p)
        <5>1. a.u.lba = c.lba + d /\ (sp # "VENDOR" => ~a.sec.lock)
          BY <3>1, <4>1, <4>5, Zenon DEF Spaces
        <5>2. MediaWrite(a, p) = to(w)
          BY <3>8, <4>5, <5>1, Zenon DEF MediaWrite, n
        <5>3. MediaWrite(a, p).med = w /\ MediaWrite(a, p).u.lba = c.lba + (d + m)
          BY <3>4, <3>5, <5>1, <5>2, Zenon
        <5>4. Len(p) = m
          BY <3>3, Zenon DEF n
        <5>5. w = [a.med EXCEPT ![Target(c)] = Put(@, c.lba + d, p)]
          BY <4>1, <4>2, <5>4, Zenon DEF StorageWriteLba
        <5>6. \A i \in 1 .. Len(p) : p[i] = IF d + i <= c.n THEN Stored(c, d + i) ELSE Junk
          <6> SUFFICES ASSUME NEW i \in 1 .. m
                       PROVE  p[i] = IF d + i <= c.n THEN Stored(c, d + i) ELSE Junk
            BY <5>4
          <6>1. d + i <= c.n
            BY <3>1, <3>2
          <6>2. Stored(c, d + i) = <<c.v, d + i>>
            BY <4>5, Zenon DEF Stored
          <6> QED
            BY <3>3, <6>1, <6>2, Zenon
        <5> HIDE DEF w
        <5>7. Written(c, a.med, w, d, m)
          <6>1. AsStored(c, p, d, m)
            BY <3>1, <3>2, <3>3, <4>1, <5>4, <5>6 DEF AsStored
          <6> QED
            BY <3>1, <3>2, <5>5, <6>1, <2>PutWritten, Zenon
        <5> QED
          BY <5>3, <5>7
      <4> QED
        BY <4>3, <4>4, <4>5, Zenon
    <3> QED
        BY <3>7, <3>8, Zenon
  (* What is not permitted is not written.                                   *)
  <2>RefusedWrite.
        ASSUME NEW a \in DevType, NEW c, a.u.cbw = c, c.op \in Writes, Fits(c), NEW p, c.sp \in Spaces,
               a.sec.lock, ~(c.op = "LBA_WRITE_10" /\ c.sp # "LBA")
        PROVE  MediaWrite(a, p).med = a.med /\ MediaWrite(a, p).sec = a.sec
    <3> USE <2>RefusedWrite
    <3>1. CASE c.op = "WRITE_10"
      <4>1. MediaWrite(a, p) = [a EXCEPT !.ld = "LOADER_ERR"]
        BY <3>1, Zenon DEF MediaWrite
      <4> QED
        BY <4>1, StoresNothing, MarksLoader, Zenon
    <3>2. CASE c.op = "LBA_WRITE_10"
      <4>1. c.sp = "LBA"
        BY <3>2, Zenon
      <4>2. MediaWrite(a, p) = a
        BY <3>2, <4>1, Zenon DEF MediaWrite
      <4> QED
        BY <4>2, Zenon
    <3> QED
        BY <3>1, <3>2, Zenon DEF Writes
  (* A write leaves every vendor system sector with its header.              *)
  <2>WrittenTagged.
        ASSUME NEW c \in CmdType, c.op \in Writes, NEW med, NEW w, NEW d, NEW m,
               Written(c, med, w, d, m), \A x \in At("SYS") : Tagged(med["SYS"][x]) = med["SYS"][x]
        PROVE  \A x \in At("SYS") : Tagged(w["SYS"][x]) = w["SYS"][x]
    <3> USE <2>WrittenTagged
    <3> SUFFICES ASSUME NEW x \in At("SYS"), w["SYS"][x] # med["SYS"][x]
                 PROVE  Tagged(w["SYS"][x]) = w["SYS"][x]
        BY Zenon
    <3>1. Target(c) = "SYS" /\ x \in Touched(c) /\ w["SYS"][x] = Shown(c, x)
        BY Zenon DEF Written, Spaces
    <3>2. c.op = "LBA_WRITE_10" /\ c.sp = "SYS"
        BY <3>1, Zenon DEF Target, Writes
    <3>3. x \in c.lba .. c.lba + c.n - 1 /\ c.lba \in Nat /\ c.n \in Nat /\ c.v \in Nat
        BY <3>1, <3>2, Zenon DEF Touched, Writes, CmdType
    <3>4. x < c.lba + c.n /\ x - c.lba + 1 \in Int
        BY <3>3
    <3>5. PICK i \in Int : i = x - c.lba + 1
        BY <3>4, Zenon
    <3>6. w["SYS"][x] = Tagged(<<c.v, i>>)
        BY <3>1, <3>2, <3>4, <3>5, Zenon DEF Shown, Stored
    <3> QED
        BY <3>3, <3>6, TaggedOnce, Zenon
  <2> USE <1>PassTakesData
  <2> DEFINE c == host.cmd
             n == host.cmd.n
  <2>1. LinkInv /\ Fitting /\ SysTagged /\ WrittenAsAnswered /\ WriteInv /\ GotPart
      BY DataParts, <1>ReadParts, Zenon DEF RInv
  <2>2. /\ DeviceOK /\ HostOK /\ OfSession /\ usbcmd.reset_flag \notin Reboots \cup {16}
        /\ Dev.u = usbcmd /\ Dev.med = medium /\ Dev.sec = sec
      BY <2>1, LinkParts, DevTyped, Zenon DEF Settled, Dev
  <2>3. PICK j \in Nat, a \in DevType, s \in DevType : Arrives(j, a, s)
      BY <2>2, DataArrives, Zenon
  <2> DEFINE d == j * BLOCK_MAX
             m == Min2(n - d, BLOCK_MAX)
             p == SubSeq(Payload(c), d + 1, d + m)
  <2>4. /\ d < n /\ usbcmd.d_bytes = d * UNIT /\ host.phase \in {"out", "csw"}
        /\ Received(Dev, a, d, m, n) /\ Stores(a, s) /\ s = MediaWrite(a, p) /\ Leaves(s)
        /\ pc' = "run"
      BY <2>3, Zenon DEF Arrives
  <2>5. /\ usbcmd.status = "RXDATA" /\ usbcmd.cbw = c /\ c.op \in Writes /\ host.got = << >>
      BY Zenon DEF Receiving, Serving
  <2>6. c \in CmdType /\ Fits(c) /\ n \in Nat /\ c.sp \in Spaces
      BY <2>1, <2>2, <2>5, <1>CommandFits, Zenon DEF CmdType
  <2>7. PartOf(c, p, d, m)
      BY <2>4, <2>6, <2>PayloadPart, Zenon
  <2> HIDE DEF d, m, p
  <2>8. d \in Nat /\ m \in Nat \ {0} /\ d + m <= n
      BY <2>7, Zenon DEF PartOf
  <2>9. /\ a.u.cbw = c /\ a.u.lba = usbcmd.lba /\ a.med = medium /\ a.sec = sec
        /\ d + m < n => a.u.status = "RXDATA" /\ a.u.d_bytes = (d + m) * UNIT
        /\ d + m = n => a.u.status = "IDLE"
      BY <2>2, <2>4, <2>5, Zenon DEF Received, SameRest, Answers
  <2>10. /\ s.u.status = a.u.status /\ s.u.d_bytes = a.u.d_bytes
      BY <2>4, StoresLink, Zenon
  <2>11. /\ usbcmd'.status = a.u.status /\ usbcmd'.d_bytes = a.u.d_bytes /\ medium' = s.med
         /\ usbcmd'.lba = s.u.lba /\ sec'.lock = s.sec.lock /\ UNCHANGED <<host, view>>
      BY <2>4, <2>10, Zenon DEF Leaves
  <2>12. GotPart' /\ ReadInv'
    <3>1. GotPart'
      BY <2>1, <2>4, <2>5, <2>11, Zenon DEF GotPart, ReadCorrect
    <3>2. (~(host.cmd.op \in Reads))'
      BY <2>5, <2>11, Zenon DEF Reads, Writes
    <3> QED
      BY <3>1, <3>2, <1>ReadPartsNext, Zenon
  <2>13. CASE ~Permitted(c)
    <3>1. a.sec.lock /\ ~(c.op = "LBA_WRITE_10" /\ c.sp # "LBA")
      BY <2>9, <2>13, Zenon DEF Permitted
    <3>2. s.med = a.med /\ s.sec = a.sec
      BY <2>4, <2>5, <2>6, <2>9, <3>1, <2>RefusedWrite, Zenon
    <3>3. UNCHANGED <<medium, view>> /\ sec'.lock
      BY <2>9, <2>11, <3>1, <3>2, Zenon
    <3>4. SysTagged' /\ WrittenAsAnswered'
      BY <2>1, <3>3, <1>MediumStays, Zenon
    <3>5. WriteInv'
      BY <2>11, <3>1, <3>3, Zenon DEF WriteInv, Permitted
    <3> QED
      BY <2>12, <3>4, <3>5, <1>DataPartsNext, Zenon
  <2>14. CASE Permitted(c)
    <3>1. usbcmd.d_bytes \div UNIT = d
      BY <2>4, <2>8 DEF UNIT
    <3>2. /\ \A x \in At(Target(c)) \cap Touched(c) : Shown(c, x) \in view[Target(c)][x]
          /\ c.sp # "UNLOCK" => usbcmd.lba = c.lba + d
          /\ \A i \in 1 .. d : InPlace(c, i)
      BY <2>1, <2>4, <2>5, <2>14, <3>1, Zenon DEF WriteInv
    <3>3. ~a.sec.lock \/ (c.op = "LBA_WRITE_10" /\ c.sp # "LBA")
      BY <2>9, <2>14, Zenon DEF Permitted
    <3>4. /\ Written(c, medium, medium', d, m)
          /\ c.sp # "UNLOCK" => usbcmd'.lba = c.lba + (d + m)
      BY <2>4, <2>5, <2>6, <2>7, <2>9, <2>11, <3>2, <3>3, <2>WritesPart
    <3>5. SysTagged'
      BY <2>1, <2>5, <2>6, <3>4, <2>WrittenTagged DEF SysTagged
    <3>6. WrittenAsAnswered'
      BY <2>1, <2>11, <3>2, <3>4, Zenon DEF WrittenAsAnswered, Written
    <3>7. \A i \in 1 .. d + m : medium'[Target(c)][c.lba + i - 1] = Stored(c, i)
      <4> SUFFICES ASSUME NEW i \in 1 .. d + m
                   PROVE  medium'[Target(c)][c.lba + i - 1] = Stored(c, i)
        BY Zenon
      <4>1. i \in 1 .. d \/ i \in d + 1 .. d + m
        BY <2>8
      <4> QED
        BY <3>2, <3>4, <4>1, Zenon DEF Written, InPlace
    <3>8. WriteInv'
      <4>1. (\A x \in At(Target(host.cmd)) \cap Touched(host.cmd) :
                Shown(host.cmd, x) \in view[Target(host.cmd)][x])'
        BY <2>11, <3>2, Zenon
      <4>2. d + m < n => usbcmd'.d_bytes \div UNIT = d + m
        <5>1. ((d + m) * UNIT) \div UNIT = d + m
          BY <2>8 DEF UNIT
        <5> QED
          BY <2>9, <2>11, <5>1, Zenon
      <4>3. \A i \in 1 .. d + m : InPlace(host.cmd, i)'
        BY <2>11, <3>7, Zenon DEF InPlace
      <4>4. (usbcmd.status = "RXDATA" =>
                LET e == usbcmd.d_bytes \div UNIT
                IN  /\ host.cmd.sp # "UNLOCK" => usbcmd.lba = host.cmd.lba + e
                    /\ \A i \in 1 .. e : InPlace(host.cmd, i))'
        <5>1. CASE d + m < n
          BY <2>11, <3>4, <4>2, <4>3, <5>1, Zenon
        <5>2. CASE d + m = n
          BY <2>9, <2>11, <5>2, Zenon
        <5> QED
          BY <2>6, <2>8, <5>1, <5>2
      <4>5. AwaitsCommand' => \A i \in 1 .. host'.cmd.n : InPlace(host.cmd, i)'
        <5>1. CASE d + m < n
          BY <2>9, <2>11, <5>1, Zenon DEF AwaitsCommand
        <5>2. CASE d + m = n
          BY <2>11, <4>3, <5>2, Zenon
        <5> QED
          BY <2>6, <2>8, <5>1, <5>2
      <4> QED
        BY <4>1, <4>4, <4>5, Zenon DEF WriteInv
    <3> QED
      BY <2>12, <3>5, <3>6, <3>8, <1>DataPartsNext, Zenon
  <2> QED
      BY <2>13, <2>14, Zenon
(* The host sends a command: from here on it expects what a write will     *)
(* leave, and what it has read before is settled.                          *)
<1>CbwData.
      ASSUME RInv, NEW c \in Cmds, SendCbw(c), UNCHANGED session
      PROVE  DataInv'
  <2> USE <1>CbwData
  <2> DEFINE d == [c EXCEPT !.tag = 1 - host.tag]
  <2>1. /\ LinkInv /\ SysTagged /\ WrittenAsAnswered /\ DeviceOK /\ HostOK /\ Settled /\ Orderly
      BY DataParts, LinkParts, Zenon DEF RInv
  <2>2. c \in CmdType /\ host.tag \in 0 .. 1
      BY <2>1, RockUsbAssumption, Zenon DEF HostOK, Cmds, HostType
  <2>3. /\ d \in CmdType /\ d.op = c.op /\ d.n = c.n /\ d.sp = c.sp /\ d.lba = c.lba /\ d.v = c.v
      BY <2>2 DEF CmdType
  <2>4. pc = "run" /\ pc' = "run" /\ host.phase = "idle" /\ Started(ep_out) /\ view' = Announced(c)
        /\ Deliver(1, Cbw(d))
      BY Zenon DEF SendCbw
  <2>5. Ready
      BY <2>1, <2>4, Zenon DEF Settled, Situation, Detached, Commanded, FirstPhase, Receiving, Uploading,
         Finishing, Answering, Failed, Hung, Writes, Reads, Small
  <2> DEFINE ph == FirstPhase(c)
  <2>6. host' = [NoHost EXCEPT !.cmd = d, !.tag = d.tag, !.phase = ph]
      BY Zenon DEF SendCbw, FirstPhase
  <2> HIDE DEF d, ph
  <2>7. host'.cmd = d /\ host'.got = << >>
      BY <2>6, Zenon DEF NoHost
  <2>8. Cbw(d) \in ContentType /\ 1 \in Nat
      BY <2>3, ContentTyped, Zenon
  <2> DEFINE k == Head(ep_out.queue).buf
  <2>9. /\ RestStays /\ usbcmd \in UsbcmdType
        /\ usbcmd' = [usbcmd EXCEPT !.rx = [status |-> "OK", actual |-> 1, buf |-> k]]
      BY <2>1, <2>4, <2>8, DeliverEffect, Zenon DEF HostOK, DeviceOK
  <2> HIDE DEF k
  <2>10. usbcmd'.status = "IDLE" /\ usbcmd'.tx = "OK" /\ usbcmd'.rx.status = "OK"
      BY <2>5, <2>9, Zenon DEF UsbcmdType, Ready, AwaitsCommand, InIdle
  <2>11. \A sp \in Spaces : \A a \in At(sp) :
           view'[sp][a] = IF Permitted(c) /\ sp = Target(c) /\ a \in Touched(c)
                          THEN view[sp][a] \cup {Shown(c, a)} ELSE view[sp][a]
      BY <2>1, <2>2, <2>4, AnnouncedIs, Zenon DEF HostOK
  <2>12. SysTagged' /\ WrittenAsAnswered'
      BY <2>1, <2>9, <2>11, Zenon DEF SysTagged, WrittenAsAnswered, RestStays
  <2>13. WriteInv'
    <3>1. Target(d) = Target(c) /\ Touched(d) = Touched(c)
      BY <2>3, Zenon DEF Target, Touched
    <3>2. Target(c) \in Spaces
      BY <2>2, TargetTyped, Zenon
    <3>3. Permitted(host.cmd)' => Permitted(c)
      BY <2>3, <2>7, <2>9, Zenon DEF Permitted, RestStays
    <3>4. \A a : Shown(d, a) = Shown(c, a)
      BY <2>3, Zenon DEF Shown, Stored
    <3>5. Permitted(c) => \A a \in At(Target(d)) \cap Touched(d) : Shown(d, a) \in view'[Target(d)][a]
      BY <2>11, <3>1, <3>2, <3>4, Zenon
    <3>6. Permitted(host.cmd)' =>
            (\A a \in At(Target(host.cmd)) \cap Touched(host.cmd) :
               Shown(host.cmd, a) \in view[Target(host.cmd)][a])'
      BY <2>7, <3>3, <3>5, Zenon
    <3>7. ~AwaitsCommand'
      BY <2>10, Zenon DEF AwaitsCommand, OutBusy
    <3> QED
      BY <2>10, <3>6, <3>7, Zenon DEF WriteInv
  <2>14. ReadInv'
    <3>1. GotPart'
      BY <2>7 DEF GotPart, ReadCorrect
    <3>2. SentPart' /\ AheadPart'
      BY <2>10, Zenon DEF SentPart, AheadPart
    <3> QED
      BY <3>1, <3>2, <1>ReadPartsNext, Zenon
  <2> QED
      BY <2>12, <2>13, <2>14, <1>DataPartsNext, Zenon
(* The host sends data of a write.                                         *)
<1>SendsData.
      ASSUME RInv, SendData, UNCHANGED session
      PROVE  DataInv'
  <2> USE <1>SendsData
  <2> DEFINE n == Min2(Head(ep_out.queue).len \div UNIT, host.cmd.n - host.sent)
             sent == host.sent + n
             p == SubSeq(Payload(host.cmd), host.sent + 1, sent)
             ph == IF sent = host.cmd.n THEN "csw" ELSE "out"
  <2>1. /\ LinkInv /\ SysTagged /\ WrittenAsAnswered /\ DeviceOK /\ HostOK /\ Settled /\ Orderly
        /\ WriteInv /\ GotPart
      BY DataParts, <1>ReadParts, LinkParts, Zenon DEF RInv
  <2>2. /\ pc = "run" /\ Started(ep_out) /\ Deliver(n * UNIT, Data(p)) /\ host.phase = "out"
        /\ host' = [host EXCEPT !.sent = sent, !.phase = ph] /\ UNCHANGED <<pc, view>>
      BY Zenon DEF SendData
  <2>3. Receiving
    <3>1. ~Commanded
      BY <2>2, IdleEndpoint, Zenon DEF Commanded, OutDone
    <3> QED
      BY <2>1, <2>2, <3>1, Zenon DEF Settled, Situation, Detached, Ready, Uploading, Finishing, Answering,
         Failed, Hung
  <2>4. host.cmd.op \in Writes /\ host.cmd.op \notin Reads /\ usbcmd.status = "RXDATA"
      BY <2>3, Zenon DEF Receiving, Serving, Reads, Writes
  <2>5. /\ host.cmd \in CmdType /\ host.cmd.n \in Nat /\ host.sent \in Nat /\ host \in HostType
        /\ host.sent <= host.cmd.n
      BY <2>1, Zenon DEF HostOK, HostType, CmdType
  <2>6. Head(ep_out.queue) \in ReqType
      BY <2>1, <2>2, HeadTailProperties, Zenon DEF DeviceOK, EpType, Started
  <2>7. Head(ep_out.queue).len \div UNIT \in Nat
      BY <2>6 DEF ReqType, UNIT
  <2>8. n \in Nat /\ sent \in Nat /\ sent <= host.cmd.n
      BY <2>5, <2>7 DEF Min2
  <2> HIDE DEF n
  <2>9. Data(p) \in ContentType /\ n * UNIT \in Nat
    <3>1. p \in Seq(BlockType)
      BY <2>5, <2>8, PieceTyped, Zenon
    <3> HIDE DEF p
    <3> QED
      BY <2>8, <3>1, ContentTyped DEF UNIT
  <2> HIDE DEF p, sent
  <2> DEFINE k == Head(ep_out.queue).buf
  <2>10. /\ RestStays /\ usbcmd \in UsbcmdType
         /\ usbcmd' = [usbcmd EXCEPT !.rx = [status |-> "OK", actual |-> n * UNIT, buf |-> k]]
      BY <2>1, <2>2, <2>9, DeliverEffect, Zenon DEF HostOK, DeviceOK
  <2> HIDE DEF k, ph
  <2>11. /\ usbcmd'.status = "RXDATA" /\ usbcmd'.d_bytes = usbcmd.d_bytes
         /\ usbcmd'.lba = usbcmd.lba
      BY <2>4, <2>10, Zenon DEF UsbcmdType
  <2>12. host'.cmd = host.cmd /\ host'.got = host.got
      BY <2>2, <2>5, Zenon DEF HostType
  <2>13. SysTagged' /\ WrittenAsAnswered'
      BY <2>1, <2>2, <2>10, <1>MediumStays, Zenon DEF RestStays
  <2>14. WriteInv'
    <3>1. UNCHANGED <<medium, view>> /\ sec'.lock = sec.lock
      BY <2>2, <2>10, Zenon DEF RestStays
    <3> QED
      BY <2>1, <2>2, <2>4, <2>11, <2>12, <3>1 DEF WriteInv, Permitted, InPlace, AwaitsCommand
  <2>15. ReadInv'
      BY <2>1, <2>2, <2>4, <2>12, Zenon DEF ReadInv, GotPart, ReadCorrect
  <2> QED
      BY <2>13, <2>14, <2>15, <1>DataPartsNext, Zenon
(* The host receives an answer or data.                                    *)
<1>ReceivedData.
      ASSUME RInv, RecvIn, UNCHANGED session
      PROVE  DataInv'
  (* What is received is added to what was.                                  *)
  <2>GotMore.
        ASSUME NEW got \in Seq(BlockType), NEW w \in Seq(BlockType), NEW lba \in Nat, NEW V,
               \A i \in DOMAIN got : got[i] \in V[lba + i - 1],
               \A i \in 1 .. Len(w) : w[i] \in V[lba + Len(got) + i - 1]
        PROVE  \A i \in DOMAIN (got \o w) : (got \o w)[i] \in V[lba + i - 1]
    <3> USE <2>GotMore
    <3> SUFFICES ASSUME NEW i \in DOMAIN (got \o w)
                 PROVE  (got \o w)[i] \in V[lba + i - 1]
        BY Zenon
    <3> DEFINE l == Len(got)
               b == i - l
    <3>1. l \in Nat /\ Len(w) \in Nat /\ i \in 1 .. l + Len(w)
        BY LenProperties, ConcatProperties
    <3>2. CASE i <= l
      <4>1. i \in DOMAIN got /\ (got \o w)[i] = got[i]
        BY <3>1, <3>2
      <4> QED
        BY <4>1, Zenon
    <3>3. CASE i > l
      <4>1. b \in 1 .. Len(w) /\ (got \o w)[i] = w[b]
        BY <3>1, <3>3
      <4>2. lba + l + b - 1 = lba + i - 1
        BY <3>1
      <4> HIDE DEF b
      <4>3. w[b] \in V[lba + Len(got) + b - 1]
        BY <4>1, Zenon
      <4> QED
        BY <4>1, <4>2, <4>3, Zenon
    <3> QED
        BY <3>1, <3>2, <3>3
  (* The host receives len units of an upload, which are fresh.              *)
  <2>UploadReceived.
        ASSUME DeviceOK, HostOK, GotPart, SentPart, RecvIn, NEW b \in Nat,
               host.cmd.op \in Reads, host.phase = "in", InBusy("data", b * UNIT), pc = "run"
        PROVE  GotPart' /\ UNCHANGED view /\ host'.cmd = host.cmd
    <3> USE <2>UploadReceived
    <3> DEFINE k == 1 - usbcmd.txbuf_num
               m == tx_buffer[k]
               len == b * UNIT
               tg == Target(host.cmd)
    <3>1. Busy(ep_in, k, len) /\ m.kind = "data" /\ usbcmd.tx = "IN_PROGRESS"
        BY Zenon DEF InBusy
    <3>2. k \in 0 .. 1
        BY DEF DeviceOK, UsbcmdType
    <3>3. m \in ContentType /\ len \in Nat /\ len \div UNIT = b
        BY <3>2 DEF DeviceOK, UNIT
    <3>4. Head(ep_in.queue).len = len
        BY <3>1, BusyEndpoint, Zenon
    <3>5. Fresh(k, host.cmd.lba + Len(host.got), b)
        BY <3>1, <3>3, <3>4, Zenon DEF SentPart
    <3>6. /\ b <= Len(m.blocks)
          /\ \A i \in 1 .. b : m.blocks[i] \in view[tg][host.cmd.lba + Len(host.got) + i - 1]
        BY <3>5, Zenon DEF Fresh
    <3> HIDE DEF len, k
    <3>7. /\ host'.cmd = host.cmd /\ pc' = pc /\ host'.got = host.got \o Wire(m, len)
          /\ UNCHANGED view
        BY <3>1, HostReceives, Zenon
    <3>8. host.got \in Seq(BlockType) /\ host.cmd.lba \in Nat
        BY Zenon DEF HostOK, HostType, CmdType
    <3>9. m.kind = "data"
        BY <3>1, Zenon
    <3> HIDE DEF m
    <3>10. Wire(m, len) \in Seq(BlockType) /\ Len(Wire(m, len)) = b
        BY <3>3, WireTyped, Zenon
    <3>11. \A i \in 1 .. b : Wire(m, len)[i] = m.blocks[i]
      <4> SUFFICES ASSUME NEW i \in 1 .. b PROVE Wire(m, len)[i] = m.blocks[i]
        BY Zenon
      <4>1. Wire(m, len)[i] = IF m.kind = "data" /\ i <= Len(m.blocks) THEN m.blocks[i] ELSE Junk
        BY <3>3, WireTyped, Zenon
      <4>2. m.blocks \in Seq(BlockType)
        BY <3>3, <3>9 DEF ContentType, SmallData, CswType
      <4>3. Len(m.blocks) \in Nat
        BY <4>2, LenProperties, Zenon
      <4>4. i <= Len(m.blocks)
        BY <3>6, <4>3
      <4> QED
        BY <3>9, <4>1, <4>4, Zenon
    <3>12. \A i \in DOMAIN host.got : host.got[i] \in view[tg][host.cmd.lba + i - 1]
        BY Zenon DEF GotPart, ReadCorrect
    <3> DEFINE w == Wire(m, len)
    <3> HIDE DEF w, tg
    <3>13. \A i \in 1 .. Len(w) : w[i] \in view[tg][host.cmd.lba + Len(host.got) + i - 1]
        BY <3>6, <3>10, <3>11, Zenon DEF w
    <3>14. \A i \in DOMAIN (host.got \o w) : (host.got \o w)[i] \in view[tg][host.cmd.lba + i - 1]
      <4>1. w \in Seq(BlockType)
        BY <3>10, Zenon DEF w
      <4> QED
        BY <3>8, <3>12, <3>13, <4>1, <2>GotMore, Zenon
    <3>15. ReadCorrect'
        BY <3>7, <3>14, Zenon DEF ReadCorrect, w, tg
    <3> QED
        BY <3>7, <3>15, Zenon DEF GotPart
  <2> USE <1>ReceivedData
  <2> DEFINE k == 1 - usbcmd.txbuf_num
             c == host.cmd
  <2>1. /\ SysTagged /\ WrittenAsAnswered /\ DeviceOK /\ HostOK /\ Settled /\ Orderly
        /\ WriteInv /\ GotPart
        /\ (c.op \in Reads /\ host.phase = "in" => SentPart /\ AheadPart)
      BY DataParts, <1>ReadParts, LinkParts, Zenon DEF RInv
  <2>2. /\ pc \in {"run", "delay"} /\ pc' = pc /\ Started(ep_in)
        /\ Becomes(dwc3_tx_handler([Dev EXCEPT !.in = TransferComplete(@)], TRUE))
      BY Zenon DEF RecvIn
  <2>3. Sends
      BY <2>1, <2>2, SendsWhenStarted, Zenon
  <2>4. /\ UNCHANGED tx_buffer /\ usbcmd'.tx = "OK" /\ usbcmd'.status = usbcmd.status
        /\ usbcmd'.txbuf_num = usbcmd.txbuf_num /\ usbcmd'.lba = usbcmd.lba
      BY <2>1, <2>2, SentLeaves, Zenon
  <2>5. UNCHANGED medium
      BY <2>1, OthersKeep, Zenon DEF RestStays
  <2>6. ASSUME c.op \in Reads, host.phase = "in", pc = "run", NEW b \in Nat, InBusy("data", b * UNIT)
        PROVE  DataInv'
    <3>1. GotPart' /\ UNCHANGED view /\ host'.cmd = c
      BY <2>1, <2>6, <2>UploadReceived, Zenon
    <3>2. SysTagged' /\ WrittenAsAnswered'
      BY <2>1, <2>5, <3>1, <1>MediumStays, Zenon
    <3>3. WriteInv'
      BY <2>6, <3>1, Zenon DEF WriteInv, Reads, Writes
    <3>4. SentPart'
      BY <2>4, Zenon DEF SentPart
    <3>5. AheadPart'
      BY <2>1, <2>4, <2>6, <3>1, Zenon DEF AheadPart, Fresh
    <3> QED
      BY <3>1, <3>2, <3>3, <3>4, <3>5, <1>ReadPartsNext, <1>DataPartsNext
  <2>7. CASE Uploading /\ InBusy("data", BLOCK_MAX * UNIT)
    <3>1. c.op \in Reads /\ host.phase = "in" /\ pc = "run" /\ BLOCK_MAX \in Nat
      BY <2>7, RockUsbAssumption, Zenon DEF Uploading, Serving
    <3> QED
      BY <2>6, <2>7, <3>1, Zenon
  <2>8. CASE Finishing /\ usbcmd.tx = "IN_PROGRESS"
    <3>1. /\ host.phase = "in" /\ pc = "run"
          /\ \/ c.op \in Small /\ InBusy("small", 1) /\ host.got = << >>
             \/ c.op \in Reads /\ \E b \in 1 .. BLOCK_MAX : InBusy("data", b * UNIT)
      BY <2>8, Zenon DEF Finishing, InIdle, Serving
    <3>2. CASE c.op \in Reads /\ \E b \in 1 .. BLOCK_MAX : InBusy("data", b * UNIT)
      BY <2>6, <3>1, <3>2, RockUsbAssumption
    <3>3. CASE c.op \in Small /\ InBusy("small", 1) /\ host.got = << >>
      <4>1. Busy(ep_in, k, 1) /\ tx_buffer[k].kind = "small"
        BY <3>3, Zenon DEF InBusy
      <4>2. /\ host'.cmd = c /\ host'.got = host.got \o Wire(tx_buffer[k], 1) /\ UNCHANGED view
            /\ Len(host'.got) = Len(host.got) + 1 \div UNIT
        <5> DEFINE m == tx_buffer[k]
        <5>1. m = tx_buffer[k] /\ m.kind \in {"data", "small"}
          BY <4>1, Zenon
        <5> HIDE DEF m
        <5>2. /\ host'.cmd = c /\ host'.got = host.got \o Wire(m, 1) /\ UNCHANGED view
              /\ Len(host'.got) = Len(host.got) + 1 \div UNIT
          <6>1. Busy(ep_in, k, 1) /\ m = tx_buffer[k] /\ DeviceOK /\ HostOK /\ RecvIn
            BY <2>1, <4>1, <5>1, Zenon
          <6> HIDE DEF k
          <6>2. host'.cmd = host.cmd
            BY <6>1, HostReceives, Zenon
          <6>3. host.phase = "in" /\ m.kind \in {"data", "small"} =>
                  /\ host'.got = host.got \o Wire(m, 1) /\ UNCHANGED view
                  /\ Len(host'.got) = Len(host.got) + 1 \div UNIT /\ Len(host.got) \in Nat
            BY <6>1, HostReceives, Zenon
          <6> QED
            BY <3>1, <5>1, <6>2, <6>3, Zenon
        <5> QED
          BY <5>1, <5>2, Zenon
      <4>3. host'.got = << >>
        <5>1. 1 \div UNIT = 0 /\ k \in 0 .. 1
          BY <2>1 DEF UNIT, DeviceOK, UsbcmdType
        <5>2. tx_buffer[k] \in ContentType
          BY <2>1, <5>1, Zenon DEF DeviceOK
        <5> DEFINE w == Wire(tx_buffer[k], 1)
        <5>3. w \in Seq(BlockType) /\ Len(w) = 0
          BY <5>1, <5>2, WireTyped, Zenon
        <5> HIDE DEF w
        <5>4. w = << >>
          BY <5>3, EmptySeq, Zenon
        <5> QED
          BY <3>3, <4>2, <5>4 DEF w
      <4>4. c.op \notin Reads /\ c.op \notin Writes
        BY <3>3, Zenon DEF Small, Reads, Writes
      <4>5. GotPart'
        BY <4>3 DEF GotPart, ReadCorrect
      <4>6. SysTagged' /\ WrittenAsAnswered'
        BY <2>1, <2>5, <4>2, <1>MediumStays, Zenon
      <4>7. WriteInv' /\ (~(host.cmd.op \in Reads))'
        BY <4>2, <4>4, Zenon DEF WriteInv
      <4> QED
        BY <4>5, <4>6, <4>7, <1>ReadPartsNext, <1>DataPartsNext, Zenon
    <3> QED
      BY <3>1, <3>2, <3>3, Zenon
  <2>9. CASE Answering
    <3>1. /\ Busy(ep_in, k, 1) /\ tx_buffer[k].kind = "csw" /\ host.phase = "csw" /\ AwaitsCommand
      BY <2>9, Zenon DEF Answering, InBusy
    <3>2. host'.cmd = c /\ host'.phase = "idle" /\ host'.got = host.got /\ view' = Answered(c)
      BY <2>1, <3>1, HostReceives, Zenon
    <3>3. c \in CmdType /\ c.lba \in Nat /\ c.n \in Nat /\ Target(c) \in Spaces
      BY <2>1, TargetTyped, Zenon DEF HostOK, HostType, CmdType
    <3>4. \A sp \in Spaces : \A a \in At(sp) :
            view'[sp][a] = IF c.op \in Writes /\ Permitted(c) /\ sp = Target(c)
                                /\ a \in c.lba .. c.lba + c.n - 1
                           THEN {Stored(c, a - c.lba + 1)} ELSE view[sp][a]
      BY <2>1, <3>2, <3>3, AnsweredIs, Zenon DEF HostOK
    <3>5. SysTagged'
      BY <2>1, <2>5, Zenon DEF SysTagged
    <3>6. WrittenAsAnswered'
      <4> SUFFICES ASSUME NEW sp \in Spaces, NEW a \in At(sp) PROVE medium[sp][a] \in view'[sp][a]
        BY <2>5, Zenon DEF WrittenAsAnswered
      <4>1. CASE c.op \in Writes /\ Permitted(c) /\ sp = Target(c) /\ a \in c.lba .. c.lba + c.n - 1
        <5> DEFINE i == a - c.lba + 1
        <5>1. i \in 1 .. c.n /\ c.lba + i - 1 = a
          BY <3>3, <4>1
        <5>2. view'[sp][a] = {Stored(c, i)}
          BY <3>4, <4>1, Zenon
        <5> HIDE DEF i
        <5>3. InPlace(c, i)
          BY <2>1, <3>1, <4>1, <5>1, Zenon DEF WriteInv
        <5> QED
          BY <4>1, <5>1, <5>2, <5>3, Zenon DEF InPlace
      <4>2. CASE ~(c.op \in Writes /\ Permitted(c) /\ sp = Target(c) /\ a \in c.lba .. c.lba + c.n - 1)
        BY <2>1, <3>4, <4>2, Zenon DEF WrittenAsAnswered
      <4> QED
        BY <4>1, <4>2, Zenon
    <3>7. WriteInv' /\ (~(host.phase = "in"))'
      BY <3>2, Zenon DEF WriteInv
    <3>8. GotPart'
      <4>1. CASE c.op \in Writes
        <5>1. host'.got = << >>
          BY <2>1, <3>2, <4>1, Zenon DEF GotPart, Reads, Writes
        <5> QED
          BY <5>1 DEF GotPart, ReadCorrect
      <4>2. CASE c.op \notin Writes
        <5>1. view' = view
          BY <3>2, <4>2, Zenon DEF Answered
        <5> QED
          BY <2>1, <2>2, <3>2, <5>1, Zenon DEF GotPart, ReadCorrect
      <4> QED
        BY <4>1, <4>2
    <3> QED
      BY <3>5, <3>6, <3>7, <3>8, <1>ReadPartsNext, <1>DataPartsNext
  <2> QED
      BY <2>3, <2>7, <2>8, <2>9, Zenon DEF Sends
(* Errors, control requests and bus events end the command.                *)
<1>GivenUpData.
      ASSUME RInv, UNCHANGED session,
             \/ InError \/ SetAddress \/ SetConfiguration
             \/ (\E f \in Clears : ClearFeature(f)) \/ BusReset
      PROVE  DataInv'
  (* A step that ends no part of a command changes no data.                  *)
  <2>DataQuiet.
        ASSUME DataInv, UNCHANGED <<medium, view, pc>>, host'.cmd = host.cmd, host'.got = host.got,
               host'.phase \notin {"out", "in", "csw"}
        PROVE  DataInv'
    <3> USE <2>DataQuiet
    <3>1. SysTagged /\ WrittenAsAnswered /\ GotPart
        BY DataParts, <1>ReadParts, Zenon
    <3>2. SysTagged' /\ WrittenAsAnswered'
        BY <3>1, <1>MediumStays, Zenon
    <3>3. WriteInv'
        BY Zenon DEF WriteInv
    <3>4. ReadInv'
        BY <3>1, Zenon DEF ReadInv, GotPart, ReadCorrect
    <3> QED
        BY <3>2, <3>3, <3>4, <1>DataPartsNext, Zenon
  <2> USE <1>GivenUpData
  <2>1. DataInv /\ DeviceOK /\ HostOK /\ Orderly
      BY LinkParts, Zenon DEF RInv
  <2>2. UNCHANGED <<medium, pc>>
      BY <2>1, OthersKeep, Zenon DEF RestStays
  <2>3. UNCHANGED view
      BY Zenon DEF InError, SetAddress, SetConfiguration, ClearFeature, BusReset
  <2>4. \/ host' = host /\ host.phase = "idle"
        \/ \E ph \in {"addressed", "idle", "attach"} : host' = [host EXCEPT !.phase = ph]
        \/ \E ph \in {"recover", "idle", "attach"} : host' = GivesUp(ph)
      BY Zenon DEF InError, SetAddress, SetConfiguration, ClearFeature, BusReset
  <2>5. /\ host'.cmd = host.cmd /\ host'.got = host.got
        /\ host'.phase \notin {"out", "in", "csw"}
    <3>1. CASE host' = host /\ host.phase = "idle"
      BY <3>1, Zenon
    <3>2. ASSUME NEW ph \in {"addressed", "idle", "attach"}, host' = [host EXCEPT !.phase = ph]
          PROVE  /\ host'.cmd = host.cmd /\ host'.got = host.got
                 /\ host'.phase \notin {"out", "in", "csw"}
      BY <2>1, <3>2, PhaseTyped, Zenon
    <3>3. ASSUME NEW ph \in {"recover", "idle", "attach"}, host' = GivesUp(ph)
          PROVE  /\ host'.cmd = host.cmd /\ host'.got = host.got
                 /\ host'.phase \notin {"out", "in", "csw"}
      BY <2>1, <3>3, GivesUpTyped, Zenon
    <3> QED
      BY <2>4, <3>1, <3>2, <3>3, Zenon
  <2> QED
      BY <2>1, <2>2, <2>3, <2>5, <2>DataQuiet, Zenon
(* After a reset the unlock key is gone and the rest of the medium kept.   *)
<1>CpuResetData.
      ASSUME RInv, reset_cpu
      PROVE  DataInv'
  <2> USE <1>CpuResetData
  <2>1. /\ SysTagged /\ WrittenAsAnswered /\ GotPart /\ DeviceOK /\ HostOK
      BY DataParts, <1>ReadParts, LinkParts, Zenon DEF RInv
  <2>2. /\ pc = "delay" /\ pc' = "run" /\ medium' = [medium EXCEPT !["UNLOCK"][0] = Zero]
        /\ view' = [view EXCEPT !["UNLOCK"][0] = {Zero}]
        /\ host' = IF host.phase = "idle" THEN [host EXCEPT !.phase = "attach"] ELSE GivesUp("attach")
      BY Zenon DEF reset_cpu
  <2>3. At("UNLOCK") = {0} /\ "UNLOCK" \in Spaces
      BY AtNumbers, Zenon DEF Spaces
  <2>4. medium'["UNLOCK"][0] = Zero /\ \A sp \in Spaces : sp # "UNLOCK" => medium'[sp] = medium[sp]
    <3>1. medium \in MediumType
      BY <2>1, Zenon DEF DeviceOK
    <3>2. DOMAIN medium = Spaces /\ DOMAIN medium["UNLOCK"] = {0}
      BY <2>3, <3>1, Zenon DEF MediumType
    <3> QED
      BY <2>2, <2>3, <3>2, Zenon
  <2>5. view'["UNLOCK"][0] = {Zero} /\ \A sp \in Spaces : sp # "UNLOCK" => view'[sp] = view[sp]
    <3>1. view = [sp \in Spaces |-> [a \in At(sp) |-> view[sp][a]]]
      BY <2>1, Zenon DEF HostOK, OnBlocks
    <3>2. DOMAIN view = Spaces
      BY <3>1, Zenon
    <3>3. view["UNLOCK"] = [a \in At("UNLOCK") |-> view["UNLOCK"][a]]
      BY <2>3, <3>1, Zenon
    <3>4. DOMAIN view["UNLOCK"] = {0}
      BY <2>3, <3>3, Zenon
    <3> HIDE <3>1, <3>3
    <3> QED
      BY <2>2, <2>3, <3>2, <3>4, Zenon
  <2>6. host'.got = host.got /\ host'.phase = "attach"
      BY <2>1, <2>2, PhaseTyped, GivesUpTyped, Zenon
  <2>7. SysTagged'
      BY <2>1, <2>4, Zenon DEF SysTagged, Spaces
  <2>8. WrittenAsAnswered'
      BY <2>1, <2>3, <2>4, <2>5, Zenon DEF WrittenAsAnswered
  <2>9. host'.got = << >>
      BY <2>1, <2>2, <2>6, Zenon DEF GotPart
  <2>10. WriteInv'
      BY <2>6, Zenon DEF WriteInv
  <2>11. GotPart' /\ (~(host.phase = "in"))'
      BY <2>6, <2>9 DEF GotPart, ReadCorrect
  <2> QED
      BY <2>7, <2>8, <2>10, <2>11, <1>ReadPartsNext, <1>DataPartsNext
(* A step that changes nothing keeps DataInv.                              *)
<1>DataStays.
      ASSUME DataInv, UNCHANGED vars
      PROVE  DataInv'
  <2> USE <1>DataStays
  <2>1. UNCHANGED <<usbcmd, tx_buffer, ep_in, ep_out, medium, sec, pc, host, view>>
      BY Zenon DEF vars, devVars
  <2>2. /\ SysTagged /\ WrittenAsAnswered /\ WriteInv /\ GotPart
        /\ (host.cmd.op \in Reads /\ host.phase = "in" => SentPart /\ AheadPart)
      BY DataParts, <1>ReadParts, Zenon
  <2>3. SysTagged' /\ WrittenAsAnswered'
      BY <2>1, <2>2, <1>MediumStays, Zenon
  <2>4. WriteInv'
      BY <2>1, <2>2, Zenon DEF WriteInv, Permitted, InPlace, AwaitsCommand, OutBusy, Busy
  <2>5. GotPart'
      BY <2>1, <2>2, Zenon DEF GotPart, ReadCorrect
  <2>6. (host.cmd.op \in Reads /\ host.phase = "in" => SentPart /\ AheadPart)'
      BY <2>1, <2>2, Zenon DEF SentPart, AheadPart, Fresh
  <2> QED
      BY <2>3, <2>4, <2>5, <2>6, <1>ReadPartsNext, <1>DataPartsNext
<1>1. LinkInv /\ Fitting /\ DataInv
    BY Zenon DEF RInv
<1>2. LinkInv'
    BY <1>1, LinkStep, Zenon
<1>3. UNCHANGED session
    BY Zenon DEF Next, vars
<1>4. Fitting'
    BY <1>1, <1>3, Zenon DEF Fitting, Cmds
<1>5. DataInv'
  <2>1. CASE UNCHANGED vars
    BY <1>1, <2>1, <1>DataStays, Zenon
  <2>2. CASE Pass
    BY <2>2, <1>PassData, <1>PassTakesData, Zenon
  <2>3. CASE reset_cpu
    BY <2>3, <1>CpuResetData, Zenon
  <2>4. CASE \E c \in Cmds : SendCbw(c)
    BY <1>3, <2>4, <1>CbwData, Zenon
  <2>5. CASE SendData
    BY <1>3, <2>5, <1>SendsData, Zenon
  <2>6. CASE RecvIn
    BY <1>3, <2>6, <1>ReceivedData, Zenon
  <2>7. CASE \/ InError \/ SetAddress \/ SetConfiguration
             \/ (\E f \in Clears : ClearFeature(f)) \/ BusReset
    BY <1>3, <2>7, <1>GivenUpData, Zenon
  <2> QED
    BY <2>1, <2>2, <2>3, <2>4, <2>5, <2>6, <2>7 DEF Next, Step
<1> QED
    BY <1>2, <1>4, <1>5, Zenon DEF RInv

(* With an orderly host whose commands stay on the medium the data of      *)
(* every command in progress are where RInv says, on the medium, in the    *)
(* buffers and at the host.                                                *)
THEOREM DataCorrect == Spec /\ Orderly /\ Fitting => []RInv
<1>1. Init /\ Orderly /\ Fitting => RInv
    BY InitTyped, LinkInit, LinkParts, DataInit, Zenon DEF RInv
<1>2. RInv /\ [Next]_vars => RInv'
    BY DataStep, Zenon
<1> QED
    BY <1>1, <1>2, PTL DEF Spec

(* Then every block a read returns is one that the host wrote there.       *)
THEOREM ReadsCorrect == Spec /\ Orderly /\ Fitting => []ReadCorrect
<1>1. RInv => ReadCorrect
    BY Zenon DEF RInv, DataInv, ReadInv
<1> QED
    BY <1>1, DataCorrect, PTL

(* And the medium holds what the host may expect: what rkusb_handle_datarx *)
(* writes lands where the command said, nothing else changes, and a write  *)
(* is in place when it has been answered.                                  *)
THEOREM WritesCorrect == Spec /\ Orderly /\ Fitting => []WrittenAsAnswered
<1>1. RInv => WrittenAsAnswered
    BY Zenon DEF RInv, DataInv
<1> QED
    BY <1>1, DataCorrect, PTL

=============================================================================
