--------------------------- MODULE RockUsbProofs ---------------------------
(***************************************************************************)
(* What the rockusb gadget keeps, for every session, buffer size and       *)
(* medium.                                                                 *)
(***************************************************************************)
EXTENDS RockUsb, SequenceTheorems, TLAPS

-----------------------------------------------------------------------------
(* The device record.                                                      *)
MediumType ==
    {m \in [Spaces -> UNION {[At(sp) -> BlockType] : sp \in Spaces}] :
        \A sp \in Spaces : m[sp] \in [At(sp) -> BlockType]}

SecType == [lock : BOOLEAN, drmLock : BOOLEAN]

DevType ==
    [u : UsbcmdType, tb : [0 .. 1 -> ContentType], in : EpType, out : EpType,
     med : MediumType, sec : SecType, ld : LoaderFlags, fmt : BOOLEAN]

(* t has the medium, the locks and the flags of s.                         *)
SameRest(s, t) == t.med = s.med /\ t.sec = s.sec /\ t.ld = s.ld /\ t.fmt = s.fmt

(* What two steps leave alone both together do.                            *)
LEMMA SameRestTwice ==
    ASSUME NEW r, NEW s, NEW t, SameRest(r, s), SameRest(s, t)
    PROVE  SameRest(r, t)
    BY Zenon DEF SameRest

(* The two ways of saying that every block of every space holds a block.   *)
LEMMA MediumTyped ==
    ASSUME NEW m
    PROVE  m \in MediumType <=>
             OnBlocks(m) /\ \A sp \in Spaces : \A a \in At(sp) : m[sp][a] \in BlockType
<1>1. ASSUME m \in MediumType
      PROVE  OnBlocks(m) /\ \A sp \in Spaces : \A a \in At(sp) : m[sp][a] \in BlockType
    BY <1>1, Zenon DEF MediumType, OnBlocks
<1>2. ASSUME OnBlocks(m), \A sp \in Spaces : \A a \in At(sp) : m[sp][a] \in BlockType
      PROVE  m \in MediumType
    BY <1>2 DEF MediumType, OnBlocks
<1> QED
    BY <1>1, <1>2, Zenon

(* An endpoint with one more request.                                      *)
LEMMA QueueTyped ==
    ASSUME NEW ep \in EpType, NEW r \in ReqType
    PROVE  dwc3_gadget_ep_queue(ep, r) \in EpType
<1>1. Append(ep.queue, r) \in Seq(ReqType)
    BY AppendProperties, Zenon DEF EpType
<1> QED
    BY <1>1, Zenon DEF dwc3_gadget_ep_queue, EpType

(* The buffers are used in turn.                                           *)
LEMMA Turn ==
    ASSUME NEW k \in 0 .. 1
    PROVE  (k + 1) % 2 = 1 - k /\ 1 - k \in 0 .. 1
    OBVIOUS

(* rkusb_write_bulk_ep queues a buffer and turns to the other.             *)
LEMMA WriteBulkEffect ==
    ASSUME NEW s \in DevType, NEW len \in Nat, NEW k \in 0 .. 1
    PROVE  LET t == rkusb_write_bulk_ep(s, len, k)
           IN  /\ t \in DevType
               /\ t.u = [s.u EXCEPT !.tx = "IN_PROGRESS", !.txbuf_num = 1 - @]
               /\ t.in = dwc3_gadget_ep_queue(s.in, [buf |-> k, len |-> len])
               /\ t.out = s.out /\ t.tb = s.tb /\ SameRest(s, t)
<1>1. dwc3_gadget_ep_queue(s.in, [buf |-> k, len |-> len]) \in EpType
    BY QueueTyped, Zenon DEF DevType, ReqType
<1>2. s.u \in UsbcmdType /\ s.u.txbuf_num \in 0 .. 1
    BY Zenon DEF DevType, UsbcmdType
<1>3. (s.u.txbuf_num + 1) % 2 = 1 - s.u.txbuf_num /\ 1 - s.u.txbuf_num \in 0 .. 1
    BY <1>2, Turn, Zenon
<1>4. [s.u EXCEPT !.tx = "IN_PROGRESS", !.txbuf_num = 1 - @] \in UsbcmdType
    BY <1>2, <1>3, Zenon DEF UsbcmdType
<1>5. rkusb_write_bulk_ep(s, len, k) =
        [s EXCEPT !.u = [s.u EXCEPT !.tx = "IN_PROGRESS", !.txbuf_num = 1 - s.u.txbuf_num],
                  !.in = dwc3_gadget_ep_queue(@, [buf |-> k, len |-> len])]
    BY <1>3, Zenon DEF rkusb_write_bulk_ep, DevType, UsbcmdType
<1> QED
    BY <1>1, <1>4, <1>5, Zenon DEF DevType, SameRest

(* rkusb_read_bulk_ep queues a buffer and turns to the other.              *)
ReadsBulk(s, t, len, k) ==
    /\ t \in DevType
    /\ t.u = [s.u EXCEPT !.rx = [status |-> "READY", actual |-> 0, buf |-> 0],
                         !.rxbuf_num = 1 - k]
    /\ t.out = dwc3_gadget_ep_queue(s.out, [buf |-> k, len |-> RoundUp(len)])
    /\ t.in = s.in /\ t.tb = s.tb /\ SameRest(s, t)

LEMMA ReadBulkEffect ==
    ASSUME NEW s \in DevType, NEW len \in Nat, NEW k \in 0 .. 1
    PROVE  ReadsBulk(s, rkusb_read_bulk_ep(s, len, k), len, k)
<1> DEFINE rx == [status |-> "READY", actual |-> 0, buf |-> 0]
           q == dwc3_gadget_ep_queue(s.out, [buf |-> k, len |-> RoundUp(len)])
<1>1. q \in EpType
    BY QueueTyped DEF DevType, ReqType, RoundUp, UNIT
<1>2. s.u \in UsbcmdType
    BY Zenon DEF DevType
<1>3. (k + 1) % 2 = 1 - k /\ 1 - k \in 0 .. 1
    BY Turn, Zenon
<1>4. [s.u EXCEPT !.rx = rx, !.rxbuf_num = 1 - k] \in UsbcmdType
  <2>1. rx \in RxType
    BY DEF RxType
  <2> HIDE DEF rx
  <2> QED
    BY <1>2, <1>3, <2>1, Zenon DEF UsbcmdType
<1>5. rkusb_read_bulk_ep(s, len, k) =
        [s EXCEPT !.u = [s.u EXCEPT !.rx = rx, !.rxbuf_num = 1 - k], !.out = q]
    BY <1>3, Zenon DEF rkusb_read_bulk_ep, ReadBulk, DevType, UsbcmdType
<1> HIDE DEF q
<1>6. /\ rkusb_read_bulk_ep(s, len, k) \in DevType
      /\ rkusb_read_bulk_ep(s, len, k).out = q
    BY <1>1, <1>4, <1>5, Zenon DEF DevType
<1> QED
    BY <1>5, <1>6, Zenon DEF DevType, SameRest, ReadsBulk, q

(* A step on usbcmd alone.                                                 *)
OnlyU(s, t, r) ==
    /\ t \in DevType /\ t.u = r
    /\ t.in = s.in /\ t.out = s.out /\ t.tb = s.tb /\ SameRest(s, t)

(* A step that changes no more than struct cmd_rockusb_interface.          *)
LEMMA SetU ==
    ASSUME NEW s \in DevType, NEW r \in UsbcmdType
    PROVE  OnlyU(s, [s EXCEPT !.u = r], r)
    BY Zenon DEF OnlyU, DevType, SameRest

(* A transfer completes, or its requests come back.                        *)
LEMMA RxDone ==
    ASSUME NEW s \in DevType, NEW actual \in Nat, NEW k \in 0 .. 1
    PROVE  OnlyU(s, dwc3_rx_handler(s, TRUE, actual, k),
                 [s.u EXCEPT !.rx = [status |-> "OK", actual |-> actual, buf |-> k]])
<1> DEFINE x == [status |-> "OK", actual |-> actual, buf |-> k]
           r == [s.u EXCEPT !.rx = x]
<1>1. s.u \in UsbcmdType /\ x \in RxType
    BY Zenon DEF DevType, RxType
<1>2. dwc3_rx_handler(s, TRUE, actual, k) = [s EXCEPT !.u = r]
    BY <1>1, Zenon DEF dwc3_rx_handler, DevType, UsbcmdType
<1> HIDE DEF x
<1>3. r \in UsbcmdType
    BY <1>1, Zenon DEF UsbcmdType
<1> HIDE DEF r
<1>4. OnlyU(s, dwc3_rx_handler(s, TRUE, actual, k), r)
    BY <1>2, <1>3, SetU, Zenon
<1> QED
    BY <1>4, Zenon DEF r, x

(* dwc3_rx_handler on an error.                                            *)
LEMMA RxFailed ==
    ASSUME NEW s \in DevType
    PROVE  OnlyU(s, dwc3_rx_handler(s, FALSE, 0, 0),
                 [s.u EXCEPT !.rx = [s.u.rx EXCEPT !.status = "ERROR"]])
<1> DEFINE x == [s.u.rx EXCEPT !.status = "ERROR"]
           r == [s.u EXCEPT !.rx = x]
<1>1. s.u \in UsbcmdType
    BY Zenon DEF DevType
<1>2. s.u.rx \in RxType
    BY <1>1, Zenon DEF UsbcmdType
<1>3. x \in RxType
    BY <1>2, Zenon DEF RxType
<1>4. dwc3_rx_handler(s, FALSE, 0, 0) = [s EXCEPT !.u = r]
    BY <1>1, Zenon DEF dwc3_rx_handler, DevType, UsbcmdType
<1> HIDE DEF x
<1>5. r \in UsbcmdType
    BY <1>1, <1>3, Zenon DEF UsbcmdType
<1> HIDE DEF r
<1>6. OnlyU(s, dwc3_rx_handler(s, FALSE, 0, 0), r)
    BY <1>4, <1>5, SetU, Zenon
<1> QED
    BY <1>6, Zenon DEF r, x

(* dwc3_tx_handler sets the transmit status.                               *)
LEMMA TxHandlerEffect ==
    ASSUME NEW s \in DevType, NEW ok \in BOOLEAN
    PROVE  OnlyU(s, dwc3_tx_handler(s, ok), [s.u EXCEPT !.tx = IF ok THEN "OK" ELSE "ERROR"])
<1> DEFINE r == [s.u EXCEPT !.tx = IF ok THEN "OK" ELSE "ERROR"]
<1>1. s.u \in UsbcmdType
    BY Zenon DEF DevType
<1>2. r \in UsbcmdType
    BY <1>1, Zenon DEF UsbcmdType
<1>3. dwc3_tx_handler(s, ok) = [s EXCEPT !.u = r]
    BY <1>1, Zenon DEF dwc3_tx_handler, DevType, UsbcmdType
<1> HIDE DEF r
<1>4. OnlyU(s, dwc3_tx_handler(s, ok), r)
    BY <1>2, <1>3, SetU, Zenon
<1> QED
    BY <1>4, Zenon DEF r

(* An endpoint with one request less, or none.                             *)
LEMMA CompleteTyped ==
    ASSUME NEW ep \in EpType
    PROVE  /\ Removed(ep) \in EpType
           /\ ep.queue # << >> => TransferComplete(ep) \in EpType
<1>1. ep.queue # << >> => Tail(ep.queue) \in Seq(ReqType)
    BY HeadTailProperties, Zenon DEF EpType
<1>2. << >> \in Seq(ReqType)
    OBVIOUS
<1> QED
    BY <1>1, <1>2, Zenon DEF EpType, Removed, TransferComplete

(* Of an endpoint, the queue.                                              *)
LEMMA SetEp ==
    ASSUME NEW s \in DevType, NEW ep \in EpType
    PROVE  /\ LET t == [s EXCEPT !.in = ep]
               IN  t \in DevType /\ t.in = ep /\ t.out = s.out /\ t.u = s.u /\ t.tb = s.tb /\ SameRest(s, t)
           /\ LET t == [s EXCEPT !.out = ep]
               IN  t \in DevType /\ t.out = ep /\ t.in = s.in /\ t.u = s.u /\ t.tb = s.tb /\ SameRest(s, t)
    BY Zenon DEF DevType, SameRest

(* usb_ep_disable on the IN endpoint.                                      *)
LEMMA DisableInEffect ==
    ASSUME NEW s \in DevType
    PROVE  LET t == DisableIn(s)
           IN  /\ t \in DevType /\ t.in = Removed(s.in) /\ t.out = s.out /\ t.tb = s.tb
               /\ t.u = IF s.in.queue = << >> THEN s.u ELSE [s.u EXCEPT !.tx = "ERROR"]
               /\ SameRest(s, t)
<1> DEFINE x == IF s.in.queue = << >> THEN s ELSE dwc3_tx_handler(s, FALSE)
           r == IF s.in.queue = << >> THEN s.u ELSE [s.u EXCEPT !.tx = "ERROR"]
<1>1. OnlyU(s, x, r)
  <2>1. OnlyU(s, dwc3_tx_handler(s, FALSE), [s.u EXCEPT !.tx = "ERROR"])
    BY TxHandlerEffect, Zenon
  <2> QED
    BY <2>1, Zenon DEF OnlyU, SameRest
<1>2. DisableIn(s) = [x EXCEPT !.in = Removed(x.in)]
    BY Zenon DEF DisableIn
<1> HIDE DEF x, r
<1>3. Removed(x.in) \in EpType
    BY <1>1, CompleteTyped, Zenon DEF OnlyU, DevType
<1>4. LET t == [x EXCEPT !.in = Removed(x.in)]
      IN  /\ t \in DevType /\ t.in = Removed(x.in) /\ t.out = x.out /\ t.u = x.u
          /\ t.tb = x.tb /\ SameRest(x, t)
    BY <1>1, <1>3, SetEp, Zenon DEF OnlyU
<1>5. LET t == DisableIn(s)
      IN  /\ t \in DevType /\ t.in = Removed(s.in) /\ t.out = s.out /\ t.tb = s.tb
          /\ t.u = r /\ SameRest(s, t)
    BY <1>1, <1>2, <1>4, Zenon DEF OnlyU, SameRest
<1> QED
    BY <1>5, Zenon DEF r

(* usb_ep_disable on the OUT endpoint.                                     *)
LEMMA DisableOutEffect ==
    ASSUME NEW s \in DevType
    PROVE  LET t == DisableOut(s)
           IN  /\ t \in DevType /\ t.out = Removed(s.out) /\ t.in = s.in /\ t.tb = s.tb
               /\ t.u = IF s.out.queue = << >> THEN s.u
                        ELSE [s.u EXCEPT !.rx = [s.u.rx EXCEPT !.status = "ERROR"]]
               /\ SameRest(s, t)
<1> DEFINE x == IF s.out.queue = << >> THEN s ELSE dwc3_rx_handler(s, FALSE, 0, 0)
           r == IF s.out.queue = << >> THEN s.u
                ELSE [s.u EXCEPT !.rx = [s.u.rx EXCEPT !.status = "ERROR"]]
<1>1. OnlyU(s, x, r)
    BY RxFailed, Zenon DEF OnlyU, SameRest
<1>2. DisableOut(s) = [x EXCEPT !.out = Removed(x.out)]
    BY Zenon DEF DisableOut
<1> HIDE DEF x, r
<1>3. Removed(x.out) \in EpType
    BY <1>1, CompleteTyped, Zenon DEF OnlyU, DevType
<1>4. LET t == [x EXCEPT !.out = Removed(x.out)]
      IN  /\ t \in DevType /\ t.out = Removed(x.out) /\ t.in = x.in /\ t.u = x.u
          /\ t.tb = x.tb /\ SameRest(x, t)
    BY <1>1, <1>3, SetEp, Zenon DEF OnlyU
<1>5. LET t == DisableOut(s)
      IN  /\ t \in DevType /\ t.out = Removed(s.out) /\ t.in = s.in /\ t.tb = s.tb
          /\ t.u = r /\ SameRest(s, t)
    BY <1>1, <1>2, <1>4, Zenon DEF OnlyU, SameRest
<1> QED
    BY <1>5, Zenon DEF r

-----------------------------------------------------------------------------
(* The medium.                                                             *)
LEMMA PutTyped ==
    ASSUME NEW D \in SUBSET Int, NEW f \in [D -> BlockType], NEW lba \in Nat,
           NEW blocks \in Seq(BlockType)
    PROVE  Put(f, lba, blocks) \in [D -> BlockType]
<1>1. Len(blocks) \in Nat /\ \A i \in 1 .. Len(blocks) : blocks[i] \in BlockType
    OBVIOUS
<1>2. ASSUME NEW a \in D, a \in lba .. lba + Len(blocks) - 1
      PROVE  blocks[a - lba + 1] \in BlockType
  <2>1. a - lba + 1 \in 1 .. Len(blocks)
    BY <1>1, <1>2
  <2> QED
    BY <1>1, <2>1, Zenon
<1> QED
    BY <1>2, Zenon DEF Put

(* The addresses of each space.                                            *)
LEMMA AtNumbers ==
    ASSUME NEW sp \in Spaces
    PROVE  /\ At(sp) \in SUBSET Int
           /\ sp = "PBA" => At(sp) = 0 .. Capacity + PBA_PAGE - 1
           /\ sp = "UNLOCK" => At(sp) = {0}
           /\ sp \notin {"PBA", "UNLOCK"} => At(sp) = 0 .. Capacity - 1
    BY RockUsbAssumption DEF At, Spaces

(* The medium with one space replaced.                                     *)
LEMMA SetSpace ==
    ASSUME NEW med \in MediumType, NEW sp \in Spaces, NEW f \in [At(sp) -> BlockType]
    PROVE  /\ [med EXCEPT ![sp] = f] \in MediumType /\ [med EXCEPT ![sp] = f][sp] = f
           /\ \A x \in Spaces : x # sp => [med EXCEPT ![sp] = f][x] = med[x]
<1>1. DOMAIN med = Spaces /\ \A x \in Spaces : med[x] \in [At(x) -> BlockType]
    BY Zenon DEF MediumType
<1> DEFINE m == [med EXCEPT ![sp] = f]
<1>2. DOMAIN m = Spaces /\ \A x \in Spaces : m[x] \in [At(x) -> BlockType]
    BY <1>1, Zenon
<1>3. m = [x \in Spaces |-> m[x]]
    BY <1>1, Zenon
<1> QED
    BY <1>1, <1>2, <1>3, Zenon DEF MediumType

(* A write to the user area leaves a medium.                               *)
LEMMA WriteLbaTyped ==
    ASSUME NEW med \in MediumType, NEW sp \in Spaces, NEW lba \in Nat,
           NEW blocks \in Seq(BlockType)
    PROVE  StorageWriteLba(med, sp, lba, blocks) \in MediumType
<1>1. med[sp] \in [At(sp) -> BlockType]
    BY Zenon DEF MediumType
<1>2. Put(med[sp], lba, blocks) \in [At(sp) -> BlockType]
    BY <1>1, AtNumbers, PutTyped, Zenon
<1>3. [med EXCEPT ![sp] = Put(med[sp], lba, blocks)] \in MediumType
    BY <1>2, SetSpace, Zenon
<1> QED
    BY <1>3, Zenon DEF StorageWriteLba

(* The blocks that StorageWritePba stores: whole pages.                    *)
PbaPages(blocks) ==
    [i \in 1 .. PbaBlocks(Len(blocks)) |-> IF i <= Len(blocks) THEN blocks[i] ELSE Junk]

(* What a write to the boot area puts there: whole pages.                  *)
LEMMA PagesTyped ==
    ASSUME NEW blocks \in Seq(BlockType)
    PROVE  PbaPages(blocks) \in Seq(BlockType) /\ Len(PbaPages(blocks)) = PbaBlocks(Len(blocks))
           /\ PbaBlocks(Len(blocks)) \in Nat
<1>1. Len(blocks) \in Nat /\ \A i \in 1 .. Len(blocks) : blocks[i] \in BlockType
    OBVIOUS
<1>2. PbaBlocks(Len(blocks)) \in Nat
  <2> DEFINE q == (Len(blocks) + PBA_PAGE - 1) \div PBA_PAGE
  <2>1. q \in Nat
    BY <1>1, RockUsbAssumption
  <2>2. q * PBA_PAGE \in Nat
    BY <2>1, RockUsbAssumption
  <2> QED
    BY <1>1, <2>2, Zenon DEF PbaBlocks
<1>3. Junk \in BlockType
    BY DEF Junk, BlockType
<1>4. PbaPages(blocks) \in [1 .. PbaBlocks(Len(blocks)) -> BlockType]
    BY <1>1, <1>2, <1>3 DEF PbaPages
<1> QED
    BY <1>2, <1>4

(* A write to the boot area leaves a medium.                               *)
LEMMA WritePbaTyped ==
    ASSUME NEW med \in MediumType, NEW lba \in Nat, NEW blocks \in Seq(BlockType)
    PROVE  StorageWritePba(med, lba, blocks) \in MediumType
<1>1. med["PBA"] \in [At("PBA") -> BlockType] /\ "PBA" \in Spaces
    BY Zenon DEF MediumType, Spaces
<1>2. Put(med["PBA"], lba, PbaPages(blocks)) \in [At("PBA") -> BlockType]
    BY <1>1, AtNumbers, PagesTyped, PutTyped, Zenon
<1>3. [med EXCEPT !["PBA"] = Put(med["PBA"], lba, PbaPages(blocks))] \in MediumType
    BY <1>1, <1>2, SetSpace, Zenon
<1> QED
    BY <1>3, Zenon DEF StorageWritePba, PbaPages

(* A sector with the vendor header is a block.                             *)
LEMMA TaggedTyped ==
    ASSUME NEW b \in BlockType
    PROVE  Tagged(b) \in BlockType
    BY DEF BlockType, Tagged

(* The header is there once it has been written.                           *)
LEMMA TaggedOnce ==
    ASSUME NEW v \in Nat, NEW i \in Int
    PROVE  Tagged(Tagged(<<v, i>>)) = Tagged(<<v, i>>)
    BY DEF Tagged

(* A write of vendor system sectors leaves a medium.                       *)
LEMMA SysStoreTyped ==
    ASSUME NEW med \in MediumType, NEW lba \in Nat, NEW blocks \in Seq(BlockType)
    PROVE  /\ StorageVendorSysDataStore(med, lba, blocks) \in MediumType
           /\ [i \in DOMAIN blocks |-> Tagged(blocks[i])] \in Seq(BlockType)
           /\ Len([i \in DOMAIN blocks |-> Tagged(blocks[i])]) = Len(blocks)
<1> DEFINE t == [i \in DOMAIN blocks |-> Tagged(blocks[i])]
<1>1. DOMAIN blocks = 1 .. Len(blocks) /\ Len(blocks) \in Nat
      /\ \A i \in 1 .. Len(blocks) : blocks[i] \in BlockType
    OBVIOUS
<1>2. t \in [1 .. Len(blocks) -> BlockType]
    BY <1>1, TaggedTyped, Zenon
<1>3. t \in Seq(BlockType) /\ Len(t) = Len(blocks)
    BY <1>1, <1>2
<1>4. "SYS" \in Spaces
    BY Zenon DEF Spaces
<1> HIDE DEF t
<1>5. StorageWriteLba(med, "SYS", lba, t) \in MediumType
    BY <1>3, <1>4, WriteLbaTyped, Zenon
<1> QED
    BY <1>3, <1>5, Zenon DEF StorageVendorSysDataStore, t

(* The unlock command changes the key and the lock, and nothing else.      *)
LEMMA UnlockEffect ==
    ASSUME NEW s \in DevType, NEW key
    PROVE  LET t == SecureBootUnlock(s, key)
           IN  /\ t \in DevType /\ t.u = s.u /\ t.in = s.in /\ t.out = s.out /\ t.tb = s.tb
               /\ t.ld = s.ld /\ t.fmt = s.fmt /\ t.sec.drmLock = s.sec.drmLock
               /\ t.med["UNLOCK"][0] = IF key = <<GoodKey, 1>> THEN key ELSE Junk
               /\ \A sp \in Spaces : sp # "UNLOCK" => t.med[sp] = s.med[sp]
<1> DEFINE b == IF key = <<GoodKey, 1>> THEN key ELSE Junk
           f == [s.med["UNLOCK"] EXCEPT ![0] = b]
           m == [s.med EXCEPT !["UNLOCK"] = f]
           l == IF key = <<GoodKey, 1>> THEN [s.sec EXCEPT !.lock = FALSE] ELSE s.sec
<1>1. "UNLOCK" \in Spaces /\ At("UNLOCK") = {0}
    BY AtNumbers, Zenon DEF Spaces
<1>2. s.med \in MediumType /\ s.sec \in SecType
    BY Zenon DEF DevType
<1>3. b \in BlockType
    BY RockUsbAssumption DEF BlockType, Junk
<1>4. s.med["UNLOCK"] \in [{0} -> BlockType]
    BY <1>1, <1>2, Zenon DEF MediumType
<1>5. f \in [{0} -> BlockType] /\ f[0] = b
    BY <1>3, <1>4, Zenon
<1>6. l \in SecType /\ l.drmLock = s.sec.drmLock
    BY <1>2, Zenon DEF SecType
<1>7. SecureBootUnlock(s, key) = [s EXCEPT !.med = m, !.sec = l]
    BY <1>2, <1>4, Zenon DEF SecureBootUnlock, DevType, MediumType, SecType
<1> HIDE DEF l, f, b
<1>8. /\ m \in MediumType /\ m["UNLOCK"] = f
      /\ \A sp \in Spaces : sp # "UNLOCK" => m[sp] = s.med[sp]
  <2>1. f \in [At("UNLOCK") -> BlockType]
    BY <1>1, <1>5, Zenon
  <2>2. m \in MediumType
    BY <1>1, <1>2, <2>1, SetSpace, Zenon
  <2> QED
    BY <1>1, <1>2, <2>2, Zenon DEF MediumType
<1> HIDE DEF m
<1>9. LET t == SecureBootUnlock(s, key)
      IN  /\ t \in DevType /\ t.u = s.u /\ t.in = s.in /\ t.out = s.out /\ t.tb = s.tb
          /\ t.ld = s.ld /\ t.fmt = s.fmt /\ t.sec = l /\ t.med = m
    BY <1>6, <1>7, <1>8, Zenon DEF DevType
<1> QED
    BY <1>5, <1>6, <1>8, <1>9, Zenon DEF b

(* What MediaWrite leaves alone.                                           *)
Stores(s, t) ==
    /\ t \in DevType /\ \E x \in Nat : t.u = [s.u EXCEPT !.lba = x]
    /\ t.in = s.in /\ t.out = s.out /\ t.tb = s.tb /\ t.fmt = s.fmt
    /\ t.sec.drmLock = s.sec.drmLock
    /\ s.u.cbw.sp # "UNLOCK" => t.sec = s.sec

(* The step that most writes to the medium end in.                         *)
LEMMA StoresMedium ==
    ASSUME NEW s \in DevType, NEW m \in MediumType, NEW n \in Nat
    PROVE  LET t == [s EXCEPT !.med = m, !.u.lba = @ + n]
           IN  /\ Stores(s, t) /\ t.med = m /\ t.ld = s.ld /\ t.sec = s.sec
               /\ t.u = [s.u EXCEPT !.lba = @ + n]
<1> DEFINE r == [s.u EXCEPT !.lba = @ + n]
           t == [s EXCEPT !.med = m, !.u.lba = @ + n]
<1>1. s.u \in UsbcmdType /\ s.u.lba \in Nat /\ s.u.lba + n \in Nat
    BY DEF DevType, UsbcmdType
<1>2. r \in UsbcmdType
    BY <1>1, Zenon DEF UsbcmdType
<1>3. t = [s EXCEPT !.med = m, !.u = r]
    BY <1>1, Zenon DEF DevType, UsbcmdType
<1> HIDE DEF r
<1>4. /\ t \in DevType /\ t.u = r /\ t.in = s.in /\ t.out = s.out /\ t.tb = s.tb
      /\ t.fmt = s.fmt /\ t.sec = s.sec /\ t.ld = s.ld /\ t.med = m
    BY <1>2, <1>3, Zenon DEF DevType
<1>5. r = [s.u EXCEPT !.lba = s.u.lba + n]
    BY Zenon DEF r
<1> QED
    BY <1>1, <1>4, <1>5, Zenon DEF Stores, r

(* FW_Write10 also sets the loader flag.                                   *)
LEMMA MarksLoader ==
    ASSUME NEW s, NEW t, Stores(s, t)
    PROVE  LET w == [t EXCEPT !.ld = "LOADER_ERR"]
           IN  Stores(s, w) /\ w.u = t.u /\ w.med = t.med /\ w.sec = t.sec
    BY Zenon DEF Stores, DevType, LoaderFlags

(* A write that is refused is such a step.                                 *)
LEMMA StoresNothing ==
    ASSUME NEW s \in DevType
    PROVE  Stores(s, s)
<1>1. s.u.lba \in Nat /\ s.u = [s.u EXCEPT !.lba = s.u.lba]
    BY Zenon DEF DevType, UsbcmdType
<1> QED
    BY <1>1, Zenon DEF Stores

(* A write to the medium, whatever its space.                              *)
LEMMA MediaWriteStores ==
    ASSUME NEW s \in DevType, NEW blocks \in Seq(BlockType)
    PROVE  Stores(s, MediaWrite(s, blocks))
<1> DEFINE n == Len(blocks)
           sp == s.u.cbw.sp
           to(med) == [s EXCEPT !.med = med, !.u.lba = @ + n]
<1>1. /\ n \in Nat /\ sp \in Spaces /\ s.u.lba \in Nat /\ s.med \in MediumType
    BY DEF DevType, UsbcmdType, CmdType
<1>2. /\ StorageWritePba(s.med, s.u.lba, blocks) \in MediumType
      /\ StorageVendorSysDataStore(s.med, s.u.lba, blocks) \in MediumType
      /\ StorageWriteLba(s.med, sp, s.u.lba, blocks) \in MediumType
    BY <1>1, WritePbaTyped, SysStoreTyped, WriteLbaTyped, Zenon
<1>3. ASSUME NEW m \in MediumType PROVE Stores(s, to(m))
    BY <1>1, <1>3, StoresMedium, Zenon
<1>4. Stores(s, SecureBootUnlock(s, blocks[1])) \/ sp # "UNLOCK"
  <2>1. s.u.lba \in Nat /\ s.u = [s.u EXCEPT !.lba = s.u.lba]
    BY Zenon DEF DevType, UsbcmdType
  <2> DEFINE w == SecureBootUnlock(s, blocks[1])
  <2>2. /\ w \in DevType /\ w.u = s.u /\ w.in = s.in /\ w.out = s.out /\ w.tb = s.tb
        /\ w.fmt = s.fmt /\ w.sec.drmLock = s.sec.drmLock
    BY UnlockEffect
  <2> HIDE DEF w
  <2>3. CASE sp = "UNLOCK"
    <3>1. \E x \in Nat : w.u = [s.u EXCEPT !.lba = x]
      BY <2>1, <2>2, Zenon
    <3>2. ~(s.u.cbw.sp # "UNLOCK")
      BY <2>3, Zenon
    <3>3. Stores(s, w)
      BY <2>2, <3>1, <3>2, Zenon DEF Stores
    <3> QED
      BY <3>3, Zenon DEF w
  <2> QED
    BY <2>3, Zenon DEF w
<1> HIDE DEF n, sp
<1>5. CASE s.u.cbw.op = "WRITE_10"
  <2> DEFINE t == IF s.sec.lock THEN s ELSE to(StorageWritePba(s.med, s.u.lba, blocks))
  <2>1. Stores(s, t)
    BY <1>2, <1>3, StoresNothing, Zenon
  <2>2. MediaWrite(s, blocks) = [t EXCEPT !.ld = "LOADER_ERR"]
    BY <1>5, Zenon DEF MediaWrite, n
  <2> HIDE DEF t
  <2> QED
    BY <2>1, <2>2, MarksLoader
<1>6. CASE s.u.cbw.op # "WRITE_10" /\ sp = "SYS"
  <2>1. MediaWrite(s, blocks) = to(StorageVendorSysDataStore(s.med, s.u.lba, blocks))
    BY <1>6, Zenon DEF MediaWrite, n, sp
  <2> QED
    BY <1>2, <1>3, <2>1, Zenon
<1>7. CASE s.u.cbw.op # "WRITE_10" /\ sp = "UNLOCK"
  <2>1. MediaWrite(s, blocks) = SecureBootUnlock(s, blocks[1])
    BY <1>7, Zenon DEF MediaWrite, n, sp
  <2> QED
    BY <1>4, <1>7, <2>1, Zenon
<1>8. CASE s.u.cbw.op # "WRITE_10" /\ sp \notin {"SYS", "UNLOCK"}
  <2>1. MediaWrite(s, blocks) \in {s, to(StorageWriteLba(s.med, sp, s.u.lba, blocks))}
    BY <1>8, Zenon DEF MediaWrite, n, sp
  <2> QED
    BY <1>2, <1>3, <2>1, StoresNothing, Zenon
<1> QED
    BY <1>5, <1>6, <1>7, <1>8, Zenon

(* What a read of the user area returns.                                   *)
LEMMA ReadLbaTyped ==
    ASSUME NEW med \in MediumType, NEW sp \in Spaces \ {"UNLOCK"}, NEW lba \in Nat, NEW n \in Nat
    PROVE  /\ StorageReadLba(med, sp, lba, n) \in [1 .. n -> BlockType]
           /\ \A i \in 1 .. n : lba + n <= Capacity =>
                 /\ StorageReadLba(med, sp, lba, n)[i] = med[sp][lba + i - 1]
                 /\ lba + i - 1 \in At(sp)
<1>1. med[sp] \in [At(sp) -> BlockType]
    BY Zenon DEF MediumType
<1>2. Zero \in BlockType
    BY DEF Zero, BlockType
<1>3. ASSUME NEW i \in 1 .. n, lba + n <= Capacity PROVE lba + i - 1 \in At(sp)
  <2>1. lba + i - 1 \in 0 .. Capacity - 1
    BY <1>3, RockUsbAssumption
  <2>2. 0 .. Capacity - 1 \subseteq 0 .. Capacity + PBA_PAGE - 1
    BY RockUsbAssumption
  <2>3. sp \in Spaces /\ sp # "UNLOCK"
    BY Zenon
  <2>4. At(sp) = 0 .. Capacity + PBA_PAGE - 1 \/ At(sp) = 0 .. Capacity - 1
    BY <2>3, AtNumbers, Zenon
  <2> QED
    BY <2>1, <2>2, <2>4, Zenon
<1>4. \A i \in 1 .. n : lba + n <= Capacity => med[sp][lba + i - 1] \in BlockType
    BY <1>1, <1>3, Zenon
<1> QED
    BY <1>2, <1>3, <1>4, Zenon DEF StorageReadLba

(* What a read of the boot area returns.                                   *)
LEMMA ReadPbaTyped ==
    ASSUME NEW med \in MediumType, NEW lba \in Nat, NEW n \in Nat
    PROVE  /\ StorageReadPba(med, lba, n) \in [1 .. n -> BlockType]
           /\ \A i \in 1 .. n : lba + n < Capacity =>
                 /\ StorageReadPba(med, lba, n)[i] = med["PBA"][lba + i - 1]
                 /\ lba + i - 1 \in At("PBA")
<1>1. med["PBA"] \in [At("PBA") -> BlockType] /\ "PBA" \in Spaces
    BY Zenon DEF MediumType, Spaces
<1>2. Zero \in BlockType
    BY DEF Zero, BlockType
<1>3. ASSUME NEW i \in 1 .. n, lba + n < Capacity PROVE lba + i - 1 \in At("PBA")
  <2>1. At("PBA") = 0 .. Capacity + PBA_PAGE - 1
    BY <1>1, AtNumbers, Zenon
  <2> QED
    BY <1>3, <2>1, RockUsbAssumption
<1>4. \A i \in 1 .. n : lba + n < Capacity => med["PBA"][lba + i - 1] \in BlockType
    BY <1>1, <1>3, Zenon
<1> QED
    BY <1>2, <1>3, <1>4, RockUsbAssumption DEF StorageReadPba

(* A read returns as many blocks as it was asked for.                      *)
LEMMA MediaReadTyped ==
    ASSUME NEW s \in DevType, NEW lba \in Nat, NEW n \in Nat
    PROVE  MediaRead(s, lba, n) \in Seq(BlockType) /\ Len(MediaRead(s, lba, n)) = n
<1> DEFINE sp == s.u.cbw.sp
           b == MediaRead(s, lba, n)
<1>1. sp \in Spaces /\ s.med \in MediumType
    BY Zenon DEF DevType, UsbcmdType, CmdType
<1>2. b \in [1 .. n -> BlockType]
  <2>1. CASE s.u.cbw.op = "READ_10"
    BY <1>1, <2>1, ReadPbaTyped, Zenon DEF MediaRead
  <2>2. CASE s.u.cbw.op # "READ_10" /\ sp = "SYS"
    <3> DEFINE raw == StorageReadLba(s.med, "SYS", lba, n)
    <3>1. raw \in [1 .. n -> BlockType]
      BY <1>1, <2>2, ReadLbaTyped, Zenon
    <3> HIDE DEF raw
    <3>2. \A i \in 1 .. n : (IF lba + i - 1 < 2 THEN Tagged(raw[i]) ELSE raw[i]) \in BlockType
      BY <3>1, TaggedTyped, Zenon
    <3>3. b = [i \in 1 .. n |-> IF lba + i - 1 < 2 THEN Tagged(raw[i]) ELSE raw[i]]
      BY <2>2, Zenon DEF MediaRead, StorageVendorSysDataLoad, raw
    <3> QED
      BY <3>2, <3>3, Zenon
  <2>3. CASE s.u.cbw.op # "READ_10" /\ sp = "UNLOCK"
    <3>1. s.med["UNLOCK"][0] \in BlockType
      BY <1>1, <2>3, AtNumbers DEF MediumType
    <3>2. Zero \in BlockType
      BY DEF Zero, BlockType
    <3>3. b = [i \in 1 .. n |-> IF i = 1 THEN s.med["UNLOCK"][0] ELSE Zero]
      BY <2>3, Zenon DEF MediaRead
    <3> QED
      BY <3>1, <3>2, <3>3, Zenon
  <2>4. CASE s.u.cbw.op # "READ_10" /\ sp \notin {"SYS", "UNLOCK"}
    <3>1. b = StorageReadLba(s.med, sp, lba, n)
      BY <2>4, Zenon DEF MediaRead
    <3> QED
      BY <1>1, <2>4, <3>1, ReadLbaTyped
  <2> QED
    BY <2>1, <2>2, <2>3, <2>4, Zenon
<1> QED
    BY <1>2

-----------------------------------------------------------------------------
(* The handlers keep the types.                                            *)
LEMMA ContentTyped ==
    /\ \A b \in Seq(BlockType) : Data(b) \in ContentType
    /\ SmallData \in ContentType
    /\ \A tag \in 0 .. 1, st \in {"GOOD", "FAIL", "NONE"} : Csw(tag, st) \in ContentType
    /\ \A c \in CmdType : Cbw(c) \in ContentType
    BY Zenon DEF Data, Csw, Cbw, ContentType, CswType

(* What a buffer holds, by its kind.                                       *)
LEMMA ContentKinds ==
    ASSUME NEW m \in ContentType
    PROVE  /\ m.kind = "data" => m.blocks \in Seq(BlockType)
           /\ m.kind = "cbw" => m.cmd \in CmdType /\ [m EXCEPT !.used = TRUE] \in ContentType
           /\ m.kind = "csw" => m.tag \in 0 .. 1
<1>1. CASE m \in [kind : {"data"}, blocks : Seq(BlockType)]
    BY <1>1, Zenon
<1>2. CASE m = SmallData
    BY <1>2, Zenon DEF SmallData
<1>3. CASE m \in CswType
    BY <1>3, Zenon DEF CswType
<1>4. CASE m \in [kind : {"cbw"}, cmd : CmdType, used : BOOLEAN]
  <2>1. [m EXCEPT !.used = TRUE] \in [kind : {"cbw"}, cmd : CmdType, used : BOOLEAN]
    BY <1>4, Zenon
  <2> QED
    BY <1>4, <2>1, Zenon DEF ContentType
<1> QED
    BY <1>1, <1>2, <1>3, <1>4, Zenon DEF ContentType

(* A step that fills a transmit buffer.                                    *)
LEMMA SetTb ==
    ASSUME NEW s \in DevType, NEW k \in 0 .. 1, NEW c \in ContentType
    PROVE  LET t == [s EXCEPT !.tb[k] = c]
           IN  /\ t \in DevType /\ t.tb = [s.tb EXCEPT ![k] = c] /\ t.u = s.u
               /\ t.in = s.in /\ t.out = s.out /\ SameRest(s, t)
<1> DEFINE b == [s.tb EXCEPT ![k] = c]
           t == [s EXCEPT !.tb[k] = c]
<1>1. b \in [0 .. 1 -> ContentType]
    BY Zenon DEF DevType
<1>2. t = [s EXCEPT !.tb = b]
    BY Zenon
<1> HIDE DEF b
<1>3. /\ t \in DevType /\ t.tb = b /\ t.u = s.u
      /\ t.in = s.in /\ t.out = s.out /\ SameRest(s, t)
    BY <1>1, <1>2, Zenon DEF DevType, SameRest
<1> QED
    BY <1>3, Zenon DEF b

(* The status goes out and the next command is listened for, in one step.  *)
LEMMA SendCswEffect ==
    ASSUME NEW s \in DevType, NEW tag \in 0 .. 1
    PROVE  LET t == SendCsw(s, tag)
               rx == [status |-> "READY", actual |-> 0, buf |-> 0]
               k == s.u.txbuf_num
               n == s.u.rxbuf_num
           IN  /\ t \in DevType
               /\ t.u = [s.u EXCEPT !.tx = "IN_PROGRESS", !.txbuf_num = 1 - k, !.rx = rx,
                                    !.rxbuf_num = 1 - n, !.status = "IDLE"]
               /\ t.tb = [s.tb EXCEPT ![k] = Csw(tag, s.u.csw)]
               /\ t.in = dwc3_gadget_ep_queue(s.in, [buf |-> k, len |-> 1])
               /\ t.out = dwc3_gadget_ep_queue(s.out, [buf |-> n, len |-> UNIT])
               /\ SameRest(s, t)
<1> DEFINE rx == [status |-> "READY", actual |-> 0, buf |-> 0]
           k == s.u.txbuf_num
           n == s.u.rxbuf_num
           a == [s EXCEPT !.tb[k] = Csw(tag, s.u.csw)]
           b == rkusb_write_bulk_ep(a, 1, k)
           c == rkusb_read_bulk_ep(b, 1, n)
           r == [s.u EXCEPT !.tx = "IN_PROGRESS", !.txbuf_num = 1 - k, !.rx = rx,
                            !.rxbuf_num = 1 - n, !.status = "IDLE"]
<1>1. s.u \in UsbcmdType /\ k \in 0 .. 1 /\ n \in 0 .. 1 /\ s.u.csw \in {"GOOD", "FAIL"}
    BY Zenon DEF DevType, UsbcmdType
<1>2. Csw(tag, s.u.csw) \in ContentType
    BY <1>1, ContentTyped, Zenon
<1>3. /\ a \in DevType /\ a.tb = [s.tb EXCEPT ![k] = Csw(tag, s.u.csw)] /\ a.u = s.u
      /\ a.in = s.in /\ a.out = s.out /\ SameRest(s, a)
    BY <1>1, <1>2, SetTb, Zenon
<1> HIDE DEF a
<1>4. /\ b \in DevType
      /\ b.u = [s.u EXCEPT !.tx = "IN_PROGRESS", !.txbuf_num = 1 - @]
      /\ b.in = dwc3_gadget_ep_queue(s.in, [buf |-> k, len |-> 1])
      /\ b.out = s.out /\ b.tb = a.tb /\ SameRest(s, b)
  <2>1. a \in DevType /\ 1 \in Nat /\ k \in 0 .. 1
    BY <1>1, <1>3, Zenon
  <2> HIDE DEF k
  <2>2. /\ b \in DevType
        /\ b.u = [a.u EXCEPT !.tx = "IN_PROGRESS", !.txbuf_num = 1 - @]
        /\ b.in = dwc3_gadget_ep_queue(a.in, [buf |-> k, len |-> 1])
        /\ b.out = a.out /\ b.tb = a.tb /\ SameRest(a, b)
    BY <2>1, WriteBulkEffect, Zenon
  <2>3. SameRest(s, b)
    BY <1>3, <2>2, SameRestTwice, Zenon
  <2> QED
    BY <1>3, <2>2, <2>3, Zenon
<1> HIDE DEF b
<1>5. RoundUp(1) = UNIT
    BY DEF RoundUp, UNIT
<1>6. /\ c \in DevType /\ c.u = [b.u EXCEPT !.rx = rx, !.rxbuf_num = 1 - n]
      /\ c.out = dwc3_gadget_ep_queue(s.out, [buf |-> n, len |-> UNIT])
      /\ c.in = b.in /\ c.tb = b.tb /\ SameRest(s, c)
  <2>1. b \in DevType /\ 1 \in Nat /\ n \in 0 .. 1
    BY <1>1, <1>4, Zenon
  <2> HIDE DEF n
  <2>2. /\ c \in DevType /\ c.u = [b.u EXCEPT !.rx = rx, !.rxbuf_num = 1 - n]
        /\ c.out = dwc3_gadget_ep_queue(b.out, [buf |-> n, len |-> RoundUp(1)])
        /\ c.in = b.in /\ c.tb = b.tb /\ SameRest(b, c)
    <3>1. ReadsBulk(b, c, 1, n)
      BY <2>1, ReadBulkEffect, Zenon
    <3> HIDE DEF c
    <3> QED
      BY <3>1, Zenon DEF ReadsBulk
  <2>3. SameRest(s, c)
    BY <1>4, <2>2, SameRestTwice, Zenon
  <2> QED
    BY <1>4, <1>5, <2>2, <2>3, Zenon
<1> HIDE DEF c
<1>7. b.u.rxbuf_num = n
    BY <1>1, <1>4, Zenon DEF UsbcmdType
<1>8. SendCsw(s, tag) = [c EXCEPT !.u.status = "IDLE"]
    BY <1>7, Zenon DEF SendCsw, a, b, c
<1>9. [c EXCEPT !.u.status = "IDLE"] = [c EXCEPT !.u = r]
    BY <1>1, <1>4, <1>6 DEF UsbcmdType, DevType
<1>10. r \in UsbcmdType
  <2>1. rx \in RxType /\ 1 - k \in 0 .. 1 /\ 1 - n \in 0 .. 1
    BY <1>1 DEF RxType
  <2> HIDE DEF rx, k, n
  <2> QED
    BY <1>1, <2>1, Zenon DEF UsbcmdType
<1> HIDE DEF r
<1>11. OnlyU(c, SendCsw(s, tag), r)
    BY <1>6, <1>8, <1>9, <1>10, SetU
<1>12. LET t == SendCsw(s, tag)
       IN  /\ t \in DevType /\ t.u = r
           /\ t.tb = [s.tb EXCEPT ![k] = Csw(tag, s.u.csw)]
           /\ t.in = dwc3_gadget_ep_queue(s.in, [buf |-> k, len |-> 1])
           /\ t.out = dwc3_gadget_ep_queue(s.out, [buf |-> n, len |-> UNIT])
           /\ SameRest(s, t)
    BY <1>3, <1>4, <1>6, <1>11, Zenon DEF OnlyU, SameRest
<1> QED
    BY <1>12, Zenon DEF r

(* A command that ends with its status.                                    *)
LEMMA WithCswEffect ==
    ASSUME NEW s \in DevType, NEW st \in {"GOOD", "FAIL"}
    PROVE  OnlyU(s, WithCsw(s, st), [s.u EXCEPT !.csw = st, !.status = "CSW"])
<1> DEFINE r == [s.u EXCEPT !.csw = st, !.status = "CSW"]
<1>1. s.u \in UsbcmdType
    BY Zenon DEF DevType
<1>2. r \in UsbcmdType
    BY <1>1, Zenon DEF UsbcmdType
<1>3. WithCsw(s, st) = [s EXCEPT !.u = r]
    BY <1>1, Zenon DEF WithCsw, DevType, UsbcmdType
<1> HIDE DEF r
<1>4. OnlyU(s, WithCsw(s, st), r)
    BY <1>2, <1>3, SetU, Zenon
<1> QED
    BY <1>4, Zenon DEF r

(* What was read ahead is dropped.                                         *)
LEMMA ClearPreReadEffect ==
    ASSUME NEW s \in DevType
    PROVE  OnlyU(s, ClearPreRead(s), [s.u EXCEPT !.pre_lba = 0, !.pre_blocks = 0])
<1> DEFINE r == [s.u EXCEPT !.pre_lba = 0, !.pre_blocks = 0]
<1>1. s.u \in UsbcmdType
    BY DEF DevType
<1>2. r \in UsbcmdType
    BY <1>1, Zenon DEF UsbcmdType
<1>3. ClearPreRead(s) = [s EXCEPT !.u = r]
    BY <1>1, Zenon DEF ClearPreRead, DevType, UsbcmdType
<1> HIDE DEF r
<1>4. OnlyU(s, ClearPreRead(s), r)
    BY <1>2, <1>3, SetU, Zenon
<1> QED
    BY <1>4, Zenon DEF r

(* b blocks read ahead, size units, are queued for sending.                *)
SendsAhead(s, t, b, size) ==
    /\ t \in DevType
    /\ t.u = [s.u EXCEPT !.u_bytes = s.u.u_bytes + size, !.lba = s.u.lba + b,
                         !.pre_blocks = s.u.pre_blocks - b,
                         !.tx = "IN_PROGRESS", !.txbuf_num = 1 - s.u.txbuf_num]
    /\ t.in = dwc3_gadget_ep_queue(s.in, [buf |-> s.u.txbuf_num, len |-> size])
    /\ t.out = s.out /\ t.tb = s.tb /\ SameRest(s, t)

(* Blocks read ahead are sent.                                             *)
LEMMA TxSendEffect ==
    ASSUME NEW s \in DevType, NEW b \in Nat, NEW size \in Nat, s.u.pre_blocks >= b
    PROVE  SendsAhead(s, TxSend(s, b, size), b, size)
<1> DEFINE r == [s.u EXCEPT !.u_bytes = s.u.u_bytes + size, !.lba = s.u.lba + b,
                            !.pre_blocks = s.u.pre_blocks - b]
           a == [s EXCEPT !.u = r]
           k == s.u.txbuf_num
           z == [s.u EXCEPT !.u_bytes = s.u.u_bytes + size, !.lba = s.u.lba + b,
                            !.pre_blocks = s.u.pre_blocks - b,
                            !.tx = "IN_PROGRESS", !.txbuf_num = 1 - k]
<1>1. s.u \in UsbcmdType /\ k \in 0 .. 1
    BY Zenon DEF DevType, UsbcmdType
<1>2. /\ s.u.u_bytes + size \in Nat /\ s.u.lba + b \in Nat /\ s.u.pre_blocks - b \in Nat
    BY <1>1 DEF UsbcmdType
<1>3. r \in UsbcmdType
    BY <1>1, <1>2, Zenon DEF UsbcmdType
<1>4. TxSend(s, b, size) = rkusb_write_bulk_ep(a, size, k)
    BY <1>1, Zenon DEF TxSend, DevType, UsbcmdType
<1>5. [r EXCEPT !.tx = "IN_PROGRESS", !.txbuf_num = 1 - r.txbuf_num] = z
    BY <1>1, Zenon DEF UsbcmdType
<1> HIDE DEF r, z, k
<1>6. OnlyU(s, a, r)
    BY <1>3, SetU, Zenon
<1> HIDE DEF a
<1>7. LET t == rkusb_write_bulk_ep(a, size, k)
      IN  /\ t \in DevType
          /\ t.u = [a.u EXCEPT !.tx = "IN_PROGRESS", !.txbuf_num = 1 - @]
          /\ t.in = dwc3_gadget_ep_queue(a.in, [buf |-> k, len |-> size])
          /\ t.out = a.out /\ t.tb = a.tb /\ SameRest(a, t)
    BY <1>1, <1>6, WriteBulkEffect, Zenon DEF OnlyU
<1>8. LET t == TxSend(s, b, size)
      IN  /\ t \in DevType /\ t.u = z
          /\ t.in = dwc3_gadget_ep_queue(s.in, [buf |-> k, len |-> size])
          /\ t.out = s.out /\ t.tb = s.tb /\ SameRest(s, t)
    BY <1>4, <1>5, <1>6, <1>7, Zenon DEF OnlyU, SameRest
<1> QED
    BY <1>8, Zenon DEF SendsAhead, z, k

(* Blocks are read ahead into the buffer that comes next.                  *)
LEMMA ReadAheadEffect ==
    ASSUME NEW s \in DevType, NEW b \in Nat
    PROVE  LET t == ReadAhead(s, b)
               k == s.u.txbuf_num
           IN  /\ t \in DevType
               /\ t.u = [s.u EXCEPT !.pre_lba = s.u.lba, !.pre_blocks = b, !.pre_buffer = k]
               /\ t.tb = IF b = 0 THEN s.tb
                         ELSE [s.tb EXCEPT ![k] = Data(MediaRead(s, s.u.lba, b))]
               /\ t.in = s.in /\ t.out = s.out /\ SameRest(s, t)
<1> DEFINE k == s.u.txbuf_num
           r == [s.u EXCEPT !.pre_lba = s.u.lba, !.pre_blocks = b, !.pre_buffer = k]
           a == [s EXCEPT !.u = r]
           d == Data(MediaRead(s, s.u.lba, b))
<1>1. s.u \in UsbcmdType /\ k \in 0 .. 1 /\ s.u.lba \in Nat
    BY Zenon DEF DevType, UsbcmdType
<1>2. r \in UsbcmdType /\ r.cbw = s.u.cbw /\ r.lba = s.u.lba
    BY <1>1, Zenon DEF UsbcmdType
<1>3. [s EXCEPT !.u.pre_lba = s.u.lba, !.u.pre_blocks = b, !.u.pre_buffer = k] = a
    BY <1>1, Zenon DEF DevType, UsbcmdType
<1>4. d \in ContentType
    BY <1>1, MediaReadTyped, ContentTyped, Zenon
<1> HIDE DEF r, k
<1>5. OnlyU(s, a, r)
    BY <1>2, SetU, Zenon
<1>7. ReadAhead(s, b) = IF b = 0 THEN a ELSE [a EXCEPT !.tb[k] = d]
    BY <1>3, Zenon DEF ReadAhead, k
<1> HIDE DEF a, d
<1>8. LET t == [a EXCEPT !.tb[k] = d]
      IN  /\ t \in DevType /\ t.tb = [a.tb EXCEPT ![k] = d] /\ t.u = a.u
          /\ t.in = a.in /\ t.out = a.out /\ SameRest(a, t)
    BY <1>1, <1>4, <1>5, SetTb, Zenon DEF OnlyU
<1>9. LET t == ReadAhead(s, b)
      IN  /\ t \in DevType /\ t.u = r
          /\ t.tb = IF b = 0 THEN s.tb ELSE [s.tb EXCEPT ![k] = d]
          /\ t.in = s.in /\ t.out = s.out /\ SameRest(s, t)
    BY <1>5, <1>7, <1>8, Zenon DEF OnlyU, SameRest
<1> QED
    BY <1>9, Zenon DEF r, k, d

(* One pass of rkusb_handle_datatx.                                        *)
LEMMA TxPassTyped ==
    ASSUME NEW s \in DevType
    PROVE  TxPass(s) \in DevType /\ SameRest(s, TxPass(s))
<1> DEFINE left == s.u.u_size - s.u.u_bytes
           b == TxBlocks(s)
           size == TxSize(s)
           s1 == IF TxHit(s) THEN TxSend(s, b, size) ELSE s
<1>1. /\ s.u.u_size \in Nat /\ s.u.u_bytes \in Nat /\ left \in Int /\ s.u.pre_blocks \in Nat
    BY DEF DevType, UsbcmdType
<1>2. left \div UNIT \in Int /\ (left >= 0 => left \div UNIT >= 0)
      /\ (left <= 0 => left \div UNIT <= 0)
    BY <1>1 DEF UNIT
<1>3. b \in Int /\ (b > 0 => left > 0) /\ (left >= 0 => b >= 0)
    BY <1>1, <1>2, RockUsbAssumption DEF TxBlocks, Min2
<1>4. TxHit(s) => b \in Nat /\ size \in Nat /\ s.u.pre_blocks >= b
    BY <1>1, <1>2, <1>3, RockUsbAssumption DEF TxHit, TxSize, UNIT
<1>5. s1 \in DevType /\ SameRest(s, s1)
  <2>1. SameRest(s, s)
    BY Zenon DEF SameRest
  <2> QED
    BY <1>4, <2>1, TxSendEffect, Zenon DEF SendsAhead
<1>6. s1.u.u_bytes = 0 => b \in Nat
  <2>1. CASE TxHit(s)
    BY <1>4, <2>1, Zenon
  <2>2. CASE ~TxHit(s)
    BY <1>1, <1>3, <2>2
  <2> QED
    BY <2>1, <2>2, Zenon
<1>7. b = BLOCK_MAX => b \in Nat
    BY RockUsbAssumption, Zenon
<1>8. TxPass(s) = TxGoOn(s1, b)
    BY Zenon DEF TxPass
<1> HIDE DEF s1, b
<1>9. ClearPreRead(s1) \in DevType /\ SameRest(s1, ClearPreRead(s1))
    BY <1>5, ClearPreReadEffect, Zenon DEF OnlyU
<1>10. b \in Nat => ReadAhead(s1, b) \in DevType /\ SameRest(s1, ReadAhead(s1, b))
    BY <1>5, ReadAheadEffect, Zenon
<1>11. TxPass(s) \in DevType /\ (TxPass(s) = s1 \/ SameRest(s1, TxPass(s)))
    BY <1>5, <1>6, <1>7, <1>8, <1>9, <1>10, Zenon DEF TxGoOn
<1> QED
    BY <1>5, <1>11, Zenon DEF SameRest

(* The passes of rkusb_handle_datatx.                                      *)
LEMMA DatatxTyped ==
    ASSUME NEW s \in DevType
    PROVE  rkusb_handle_datatx(s) \in DevType /\ SameRest(s, rkusb_handle_datatx(s))
<1> DEFINE p == TxPass(s)
           q == IF p.u.u_bytes = 0 THEN TxPass(p) ELSE p
           r == [q.u EXCEPT !.status = "HUNG"]
<1>1. q \in DevType /\ SameRest(s, q)
  <2>1. p \in DevType /\ SameRest(s, p)
    BY TxPassTyped, Zenon
  <2> HIDE DEF p
  <2>2. TxPass(p) \in DevType /\ SameRest(p, TxPass(p))
    BY <2>1, TxPassTyped, Zenon
  <2> QED
    BY <2>1, <2>2, Zenon DEF SameRest
<1> HIDE DEF q
<1>2. q.u \in UsbcmdType
    BY <1>1, Zenon DEF DevType
<1>3. r \in UsbcmdType /\ [q EXCEPT !.u.status = "HUNG"] = [q EXCEPT !.u = r]
    BY <1>1, <1>2, Zenon DEF DevType, UsbcmdType
<1>4. WithCsw(q, "GOOD") \in DevType /\ SameRest(q, WithCsw(q, "GOOD"))
    BY <1>1, WithCswEffect, Zenon DEF OnlyU
<1> HIDE DEF r
<1>5. LET t == [q EXCEPT !.u.status = "HUNG"] IN t \in DevType /\ SameRest(q, t)
    BY <1>1, <1>3, SetU DEF OnlyU
<1>6. LET t == rkusb_handle_datatx(s) IN t \in DevType /\ (t = q \/ SameRest(q, t))
    BY <1>1, <1>4, <1>5, Zenon DEF rkusb_handle_datatx, q
<1> QED
    BY <1>1, <1>6, Zenon DEF SameRest

(* A command block is taken.                                               *)
LEMMA TakenEffect ==
    ASSUME NEW s \in DevType, NEW c \in CmdType
    PROVE  OnlyU(s, Taken(s, c), [s.u EXCEPT !.cbw = c, !.status = "CMD"])
<1> DEFINE r == [s.u EXCEPT !.cbw = c, !.status = "CMD"]
<1>1. s.u \in UsbcmdType
    BY Zenon DEF DevType
<1>2. r \in UsbcmdType
    BY <1>1, Zenon DEF UsbcmdType
<1>3. Taken(s, c) = [s EXCEPT !.u = r]
    BY <1>1, Zenon DEF Taken, DevType, UsbcmdType
<1> HIDE DEF r
<1>4. OnlyU(s, Taken(s, c), r)
    BY <1>2, <1>3, SetU, Zenon
<1> QED
    BY <1>4, Zenon DEF r

(* Whatever is taken for a command block is one.                           *)
LEMMA FetchedTyped ==
    ASSUME NEW s \in DevType, NEW rb \in [0 .. 1 -> ContentType]
    PROVE  Fetched(s, rb) \in CmdType
<1>1. s.u.rx.buf \in 0 .. 1
    BY Zenon DEF DevType, UsbcmdType, RxType
<1>2. rb[s.u.rx.buf] \in ContentType
    BY <1>1, Zenon
<1>3. NoCmd \in CmdType
  <2>1. "NONE" \in Ops /\ "LBA" \in Spaces /\ 0 \in Nat /\ 0 \in 0 .. 1
    BY DEF Ops, Spaces
  <2> QED
    BY <2>1, Zenon DEF NoCmd, CmdType
<1> QED
    BY <1>2, <1>3, ContentKinds, Zenon DEF Fetched

(* The commands that only have a status.                                   *)
Control(op) == op \notin Small \cup Reads \cup Writes

ControlDone(s, t) ==
    /\ t \in DevType
    /\ \E st \in {"GOOD", "FAIL"}, f \in Nat :
          t.u = [s.u EXCEPT !.csw = st, !.reset_flag = f, !.status = "CSW"]
    /\ t.in = s.in /\ t.out = s.out /\ t.tb = s.tb
    /\ t.med = s.med /\ t.sec = s.sec /\ t.ld = s.ld

(* The commands that move no data end in one of three ways.                *)
LEMMA ControlStep ==
    ASSUME NEW s \in DevType, NEW st \in {"GOOD", "FAIL"}, NEW f \in Nat, NEW b \in BOOLEAN
    PROVE  /\ ControlDone(s, WithCsw(s, st))
           /\ ControlDone(s, WithCsw([s EXCEPT !.fmt = b], st))
           /\ ControlDone(s, WithCsw([s EXCEPT !.u.reset_flag = f], st))
<1>1. s.u \in UsbcmdType /\ s.u.reset_flag \in Nat
    BY Zenon DEF DevType, UsbcmdType
<1>2. [s.u EXCEPT !.csw = st, !.status = "CSW"] =
        [s.u EXCEPT !.csw = st, !.reset_flag = s.u.reset_flag, !.status = "CSW"]
    BY <1>1, Zenon DEF UsbcmdType
<1>3. ControlDone(s, WithCsw(s, st))
  <2>1. OnlyU(s, WithCsw(s, st), [s.u EXCEPT !.csw = st, !.status = "CSW"])
    BY WithCswEffect, Zenon
  <2> QED
    BY <1>1, <1>2, <2>1, Zenon DEF OnlyU, SameRest, ControlDone
<1>4. ControlDone(s, WithCsw([s EXCEPT !.fmt = b], st))
  <2> DEFINE a == [s EXCEPT !.fmt = b]
  <2>1. /\ a \in DevType /\ a.u = s.u /\ a.in = s.in /\ a.out = s.out /\ a.tb = s.tb
        /\ a.med = s.med /\ a.sec = s.sec /\ a.ld = s.ld
    BY Zenon DEF DevType
  <2> HIDE DEF a
  <2>2. OnlyU(a, WithCsw(a, st), [s.u EXCEPT !.csw = st, !.status = "CSW"])
    BY <2>1, WithCswEffect, Zenon
  <2>3. ControlDone(s, WithCsw(a, st))
    <3> DEFINE t == WithCsw(a, st)
    <3>1. /\ t \in DevType /\ t.in = s.in /\ t.out = s.out /\ t.tb = s.tb
          /\ t.med = s.med /\ t.sec = s.sec /\ t.ld = s.ld
      BY <2>1, <2>2, Zenon DEF OnlyU, SameRest
    <3>2. t.u = [s.u EXCEPT !.csw = st, !.reset_flag = s.u.reset_flag, !.status = "CSW"]
      BY <1>2, <2>2, Zenon DEF OnlyU
    <3> HIDE DEF t
    <3>3. ControlDone(s, t)
      BY <1>1, <3>1, <3>2, Zenon DEF ControlDone
    <3> QED
      BY <3>3, Zenon DEF t
  <2> QED
    BY <2>3, Zenon DEF a
<1>5. ControlDone(s, WithCsw([s EXCEPT !.u.reset_flag = f], st))
  <2> DEFINE r == [s.u EXCEPT !.reset_flag = f]
             a == [s EXCEPT !.u = r]
  <2>1. r \in UsbcmdType
    BY <1>1, Zenon DEF UsbcmdType
  <2>2. [s EXCEPT !.u.reset_flag = f] = a
    BY <1>1, Zenon DEF DevType, UsbcmdType
  <2>3. [r EXCEPT !.csw = st, !.status = "CSW"] =
          [s.u EXCEPT !.csw = st, !.reset_flag = f, !.status = "CSW"]
    BY <1>1, Zenon DEF UsbcmdType
  <2> HIDE DEF r
  <2>4. OnlyU(s, a, r)
    BY <2>1, SetU, Zenon
  <2> HIDE DEF a
  <2>5. OnlyU(a, WithCsw(a, st), [r EXCEPT !.csw = st, !.status = "CSW"])
    BY <2>4, WithCswEffect, Zenon DEF OnlyU
  <2>6. ControlDone(s, WithCsw(a, st))
    <3> DEFINE t == WithCsw(a, st)
    <3>1. /\ t \in DevType /\ t.in = s.in /\ t.out = s.out /\ t.tb = s.tb
          /\ t.med = s.med /\ t.sec = s.sec /\ t.ld = s.ld
      BY <2>4, <2>5, Zenon DEF OnlyU, SameRest
    <3>2. t.u = [s.u EXCEPT !.csw = st, !.reset_flag = f, !.status = "CSW"]
      BY <2>3, <2>5, Zenon DEF OnlyU
    <3> HIDE DEF t
    <3>3. ControlDone(s, t)
      BY <3>1, <3>2, Zenon DEF ControlDone
    <3> QED
      BY <3>3, Zenon DEF t
  <2> QED
    BY <2>2, <2>6, Zenon
<1> QED
    BY <1>3, <1>4, <1>5, Zenon

(* FW_TestUnitReady is one of them.                                        *)
LEMMA TestUnitReadyStep ==
    ASSUME NEW s \in DevType
    PROVE  ControlDone(s, FW_TestUnitReady(s))
<1>1. /\ ControlDone(s, WithCsw([s EXCEPT !.fmt = TRUE], "FAIL"))
      /\ ControlDone(s, WithCsw([s EXCEPT !.u.reset_flag = 16], "GOOD"))
      /\ ControlDone(s, WithCsw(s, "GOOD"))
      /\ ControlDone(s, WithCsw(s, "FAIL"))
    BY ControlStep, Zenon
<1> QED
    BY <1>1 DEF FW_TestUnitReady

(* And so are the others.                                                  *)
LEMMA ControlCommand ==
    ASSUME NEW s \in DevType, NEW rb \in [0 .. 1 -> ContentType],
           NEW c, c = Fetched(s, rb), Control(c.op)
    PROVE  ControlDone(Taken(s, c), do_rockusb_cmd(s, rb))
<1> DEFINE a == Taken(s, c)
<1>1. c \in CmdType
    BY FetchedTyped, Zenon
<1>2. s.u \in UsbcmdType
    BY Zenon DEF DevType
<1>3. a \in DevType /\ a.u.cbw = c
  <2>1. OnlyU(s, a, [s.u EXCEPT !.cbw = c, !.status = "CMD"])
    BY <1>1, TakenEffect, Zenon
  <2> HIDE DEF a
  <2> QED
    BY <1>2, <2>1, Zenon DEF OnlyU, UsbcmdType
<1>4. ControlDone(a, FW_TestUnitReady(a))
    BY <1>3, TestUnitReadyStep, Zenon
<1>5. /\ ControlDone(a, WithCsw([a EXCEPT !.fmt = TRUE], "GOOD"))
      /\ ControlDone(a, WithCsw([a EXCEPT !.u.reset_flag = 1], "GOOD"))
      /\ ControlDone(a, WithCsw(a, "GOOD"))
      /\ ControlDone(a, WithCsw(a, "FAIL"))
    BY <1>3, ControlStep, Zenon
<1>6. ControlDone(a, FW_Reset(a))
  <2> DEFINE f == IF a.u.cbw.mod # 0 THEN a.u.cbw.mod ELSE 255
  <2>1. f \in Nat
    BY <1>1, <1>3 DEF CmdType
  <2> HIDE DEF f
  <2>2. ControlDone(a, WithCsw([a EXCEPT !.u.reset_flag = f], "GOOD"))
    BY <1>3, <2>1, ControlStep, Zenon
  <2> QED
    BY <2>2, Zenon DEF FW_Reset, f
<1>7. c.op \notin Small /\ c.op \notin Reads /\ c.op \notin Writes
    BY Zenon DEF Control
<1>8. do_rockusb_cmd(s, rb) \in
        {FW_TestUnitReady(a), FW_EraseData(a), FW_LowFormat(a), FW_SetResetFlag(a), FW_Reset(a),
         FW_HandleUnknownCmd(a)}
  <2>1. do_rockusb_cmd(s, rb) = Execute(a)
    BY Zenon DEF do_rockusb_cmd
  <2> HIDE DEF a
  <2> QED
    BY <1>3, <1>7, <2>1, Zenon DEF Execute
<1> HIDE DEF a
<1>9. ControlDone(a, do_rockusb_cmd(s, rb))
    BY <1>4, <1>5, <1>6, <1>8, Zenon
       DEF FW_EraseData, FW_LowFormat, FW_SetResetFlag, FW_HandleUnknownCmd
<1> QED
    BY <1>9, Zenon DEF a

(* The short answer to c is in the transmit buffer.                        *)
ShortReady(s, t, c) ==
    /\ t \in DevType
    /\ t.u = [s.u EXCEPT !.cbw = c, !.csw = "GOOD", !.status = "TXDATA"]
    /\ t.tb = [s.tb EXCEPT ![s.u.txbuf_num] = SmallData]
    /\ t.in = s.in /\ t.out = s.out /\ SameRest(s, t)

(* A command with a short answer prepares it.                              *)
LEMMA ShortAnswerCommand ==
    ASSUME NEW s \in DevType, NEW rb \in [0 .. 1 -> ContentType],
           NEW c, c = Fetched(s, rb), c.op \in Small
    PROVE  ShortReady(s, do_rockusb_cmd(s, rb), c)
<1> DEFINE a == Taken(s, c)
           k == s.u.txbuf_num
           r == [s.u EXCEPT !.cbw = c, !.csw = "GOOD", !.status = "TXDATA"]
           b == [s.tb EXCEPT ![k] = SmallData]
<1>1. c \in CmdType
    BY FetchedTyped, Zenon
<1>2. s.u \in UsbcmdType /\ k \in 0 .. 1
    BY Zenon DEF DevType, UsbcmdType
<1>3. r \in UsbcmdType /\ b \in [0 .. 1 -> ContentType]
    BY <1>1, <1>2, ContentTyped, Zenon DEF UsbcmdType, DevType
<1>4. OnlyU(s, a, [s.u EXCEPT !.cbw = c, !.status = "CMD"]) /\ a.u.cbw = c
  <2>1. OnlyU(s, a, [s.u EXCEPT !.cbw = c, !.status = "CMD"])
    BY <1>1, TakenEffect, Zenon
  <2> HIDE DEF a
  <2> QED
    BY <1>2, <2>1, Zenon DEF OnlyU, UsbcmdType
<1>5. do_rockusb_cmd(s, rb) = FW_ShortAnswer(a)
  <2>1. do_rockusb_cmd(s, rb) = Execute(a)
    BY Zenon DEF do_rockusb_cmd
  <2> HIDE DEF a
  <2> QED
    BY <1>4, <2>1, Zenon DEF Execute, Small, Reads, Writes, Erases
<1> HIDE DEF a
<1>6. FW_ShortAnswer(a) = [a EXCEPT !.u = r, !.tb = b]
  <2> DEFINE z == [a.u EXCEPT !.csw = "GOOD", !.status = "TXDATA"]
  <2>1. a \in DevType /\ a.u.txbuf_num = k /\ a.tb = s.tb /\ z = r
    BY <1>2, <1>4, Zenon DEF OnlyU, UsbcmdType
  <2>2. FW_ShortAnswer(a) = [a EXCEPT !.u = z, !.tb = b]
    BY <2>1, Zenon DEF FW_ShortAnswer, DevType, UsbcmdType
  <2> QED
    BY <2>1, <2>2, Zenon
<1> HIDE DEF r, b
<1>7. LET t == do_rockusb_cmd(s, rb)
      IN  /\ t \in DevType /\ t.u = r /\ t.tb = b
          /\ t.in = s.in /\ t.out = s.out /\ SameRest(s, t)
  <2> DEFINE w == [a EXCEPT !.u = r, !.tb = b]
  <2>1. /\ a \in DevType /\ a.in = s.in /\ a.out = s.out /\ SameRest(s, a)
    BY <1>4, Zenon DEF OnlyU
  <2>2. w \in DevType /\ w.u = r /\ w.tb = b
    BY <1>3, <2>1, Zenon DEF DevType
  <2>3. w.in = a.in /\ w.out = a.out /\ SameRest(a, w)
    BY <2>1, Zenon DEF DevType, SameRest
  <2>4. do_rockusb_cmd(s, rb) = w
    BY <1>5, <1>6, Zenon
  <2> HIDE DEF w
  <2>5. SameRest(s, w)
    BY <2>1, <2>3, SameRestTwice, Zenon
  <2> QED
    BY <2>1, <2>2, <2>3, <2>4, <2>5, Zenon
<1> QED
    BY <1>7, Zenon DEF ShortReady, r, b

(* FW_LBARead10 starts at the first block.                                 *)
LEMMA ReadCommand ==
    ASSUME NEW s \in DevType, NEW rb \in [0 .. 1 -> ContentType],
           NEW c, c = Fetched(s, rb), c.op \in Reads
    PROVE  OnlyU(s, do_rockusb_cmd(s, rb),
                 [s.u EXCEPT !.cbw = c, !.u_size = c.n * UNIT, !.u_bytes = 0, !.lba = c.lba,
                             !.status = "TXDATA_PREPARE"])
<1> DEFINE a == Taken(s, c)
           r == [s.u EXCEPT !.cbw = c, !.u_size = c.n * UNIT, !.u_bytes = 0, !.lba = c.lba,
                            !.status = "TXDATA_PREPARE"]
<1>1. c \in CmdType
    BY FetchedTyped
<1>2. s.u \in UsbcmdType
    BY Zenon DEF DevType
<1>3. r \in UsbcmdType
  <2>1. c.n * UNIT \in Nat /\ c.lba \in Nat
    BY <1>1 DEF CmdType, UNIT
  <2> QED
    BY <1>1, <1>2, <2>1, Zenon DEF UsbcmdType
<1>4. OnlyU(s, a, [s.u EXCEPT !.cbw = c, !.status = "CMD"]) /\ a.u.cbw = c
  <2>1. OnlyU(s, a, [s.u EXCEPT !.cbw = c, !.status = "CMD"])
    BY <1>1, TakenEffect, Zenon
  <2> HIDE DEF a
  <2> QED
    BY <1>2, <2>1, Zenon DEF OnlyU, UsbcmdType
<1>5. do_rockusb_cmd(s, rb) = FW_LBARead10(a)
  <2>1. do_rockusb_cmd(s, rb) = Execute(a)
    BY DEF do_rockusb_cmd
  <2> HIDE DEF a
  <2> QED
    BY <1>4, <2>1, Zenon DEF Execute, Small, Reads, Writes, Erases
<1> HIDE DEF a
<1>6. FW_LBARead10(a) = [a EXCEPT !.u = r]
  <2> DEFINE z == [a.u EXCEPT !.u_size = c.n * UNIT, !.u_bytes = 0, !.lba = c.lba,
                              !.status = "TXDATA_PREPARE"]
  <2>1. a \in DevType /\ z = r
    BY <1>2, <1>4, Zenon DEF OnlyU, UsbcmdType
  <2>2. FW_LBARead10(a) = [a EXCEPT !.u = z]
    BY <1>4, <2>1, Zenon DEF FW_LBARead10, DevType, UsbcmdType
  <2> QED
    BY <2>1, <2>2, Zenon
<1> HIDE DEF r
<1>7. OnlyU(s, do_rockusb_cmd(s, rb), r)
    BY <1>3, <1>4, <1>5, <1>6, SetU DEF OnlyU, SameRest
<1> QED
    BY <1>7, Zenon DEF r

(* What is left of the blocks read ahead when a write begins.              *)
Kept(u, c) == c.lba + c.n < u.pre_lba \/ c.lba > u.pre_lba + u.pre_blocks

(* FW_LBAWrite10 starts at the first block and drops what was read ahead,  *)
(* unless the write is clear of it.                                        *)
LEMMA WriteCommand ==
    ASSUME NEW s \in DevType, NEW rb \in [0 .. 1 -> ContentType],
           NEW c, c = Fetched(s, rb), c.op \in Writes
    PROVE  OnlyU(s, do_rockusb_cmd(s, rb),
                 [s.u EXCEPT !.cbw = c, !.d_size = c.n * UNIT, !.d_bytes = 0, !.lba = c.lba,
                             !.rx = [s.u.rx EXCEPT !.actual = 0], !.status = "RXDATA_PREPARE",
                             !.pre_lba = IF Kept(s.u, c) THEN s.u.pre_lba ELSE 0,
                             !.pre_blocks = IF Kept(s.u, c) THEN s.u.pre_blocks ELSE 0])
<1> DEFINE a == Taken(s, c)
           x == [s.u.rx EXCEPT !.actual = 0]
           l == IF Kept(s.u, c) THEN s.u.pre_lba ELSE 0
           b == IF Kept(s.u, c) THEN s.u.pre_blocks ELSE 0
           d == [s.u EXCEPT !.cbw = c, !.status = "CMD", !.pre_lba = l, !.pre_blocks = b]
           r == [s.u EXCEPT !.cbw = c, !.d_size = c.n * UNIT, !.d_bytes = 0, !.lba = c.lba,
                            !.rx = x, !.status = "RXDATA_PREPARE", !.pre_lba = l, !.pre_blocks = b]
<1>1. c \in CmdType
    BY FetchedTyped
<1>2. s.u \in UsbcmdType
    BY DEF DevType
<1>3. r \in UsbcmdType
  <2>1. c.n * UNIT \in Nat /\ c.lba \in Nat
    BY <1>1 DEF CmdType, UNIT
  <2>2. s.u.rx \in RxType /\ l \in Nat /\ b \in Nat
    BY <1>2, Zenon DEF UsbcmdType
  <2>3. x \in RxType
    BY <2>2, Zenon DEF RxType
  <2> HIDE DEF x, l, b
  <2> QED
    BY <1>1, <1>2, <2>1, <2>2, <2>3, Zenon DEF UsbcmdType
<1>4. OnlyU(s, a, [s.u EXCEPT !.cbw = c, !.status = "CMD"]) /\ a.u.cbw = c
  <2>1. OnlyU(s, a, [s.u EXCEPT !.cbw = c, !.status = "CMD"])
    BY <1>1, TakenEffect, Zenon
  <2> HIDE DEF a
  <2> QED
    BY <1>2, <2>1 DEF OnlyU, UsbcmdType
<1>5. do_rockusb_cmd(s, rb) = FW_LBAWrite10(a)
  <2>1. do_rockusb_cmd(s, rb) = Execute(a)
    BY DEF do_rockusb_cmd
  <2> HIDE DEF a
  <2> QED
    BY <1>4, <2>1, Zenon DEF Execute, Small, Reads, Writes, Erases
<1> HIDE DEF a
<1>6. OnlyU(a, DropPreRead(a, c.lba, c.n), d)
  <2>1. /\ a \in DevType /\ a.u = [s.u EXCEPT !.cbw = c, !.status = "CMD"]
        /\ a.u.pre_lba = s.u.pre_lba /\ a.u.pre_blocks = s.u.pre_blocks
    BY <1>2, <1>4, Zenon DEF OnlyU, UsbcmdType
  <2>2. CASE Kept(s.u, c)
    <3>1. d = a.u
      BY <1>2, <2>1, <2>2, Zenon DEF UsbcmdType
    <3> HIDE DEF d
    <3>2. DropPreRead(a, c.lba, c.n) = a
      BY <2>1, <2>2, Zenon DEF DropPreRead, Kept
    <3> QED
      BY <2>1, <3>1, <3>2, Zenon DEF OnlyU, SameRest
  <2>3. CASE ~Kept(s.u, c)
    <3>1. d = [a.u EXCEPT !.pre_lba = 0, !.pre_blocks = 0]
      BY <1>2, <2>1, <2>3, Zenon DEF UsbcmdType
    <3> HIDE DEF d
    <3>2. DropPreRead(a, c.lba, c.n) = ClearPreRead(a)
      BY <2>1, <2>3, Zenon DEF DropPreRead, Kept
    <3> QED
      BY <2>1, <3>1, <3>2, ClearPreReadEffect, Zenon
  <2> QED
    BY <2>2, <2>3, Zenon
<1>7. OnlyU(s, FW_LBAWrite10(a), r)
  <2> DEFINE e == DropPreRead(a, c.lba, c.n)
             y == [e.u.rx EXCEPT !.actual = 0]
             z == [e.u EXCEPT !.d_size = c.n * UNIT, !.d_bytes = 0, !.lba = c.lba,
                              !.rx = y, !.status = "RXDATA_PREPARE"]
  <2>1. FW_LBAWrite10(a) =
          [e EXCEPT !.u.d_size = c.n * UNIT, !.u.d_bytes = 0, !.u.lba = c.lba,
                    !.u.rx.actual = 0, !.u.status = "RXDATA_PREPARE"]
    BY <1>4, Zenon DEF FW_LBAWrite10
  <2> HIDE DEF e, l, b
  <2>2. e \in DevType /\ e.u = d
    BY <1>6, Zenon DEF OnlyU, e
  <2>3. e.u \in UsbcmdType
    BY <2>2, Zenon DEF DevType
  <2>4. FW_LBAWrite10(a) = [e EXCEPT !.u = z]
    BY <2>1, <2>2, <2>3, Zenon DEF DevType, UsbcmdType
  <2>5. y = x
    BY <1>2, <2>2, Zenon DEF UsbcmdType
  <2> HIDE DEF x, y
  <2>6. z = r
    BY <1>2, <2>2, <2>5, Zenon DEF UsbcmdType
  <2> HIDE DEF z, r, d
  <2>7. OnlyU(e, FW_LBAWrite10(a), r)
    BY <1>3, <2>2, <2>4, <2>6, SetU, Zenon
  <2> QED
    BY <1>4, <1>6, <2>7, Zenon DEF OnlyU, SameRest, e
<1> HIDE DEF r
<1>8. OnlyU(s, do_rockusb_cmd(s, rb), r)
    BY <1>5, <1>7, Zenon
<1> QED
    BY <1>8, Zenon DEF r, x, l, b

(* do_rockusb_cmd keeps the device's type.                                 *)
LEMMA CommandTyped ==
    ASSUME NEW s \in DevType, NEW rb \in [0 .. 1 -> ContentType]
    PROVE  do_rockusb_cmd(s, rb) \in DevType
    BY ControlCommand, ShortAnswerCommand, ReadCommand, WriteCommand, Zenon
       DEF Control, ControlDone, OnlyU, ShortReady

(* rkusb_send_csw keeps the device's type.                                 *)
LEMMA SendCswTyped ==
    ASSUME NEW s \in DevType
    PROVE  /\ rkusb_send_csw(s) \in DevType /\ SameRest(s, rkusb_send_csw(s))
           /\ s.u.status = "CSW" => rkusb_send_csw(s).u.status # "HUNG"
<1> DEFINE t == SendCsw(s, s.u.cbw.tag)
<1>1. s.u.cbw.tag \in 0 .. 1 /\ s.u \in UsbcmdType
    BY Zenon DEF DevType, UsbcmdType, CmdType
<1>2. t \in DevType /\ SameRest(s, t) /\ t.u.status = "IDLE"
  <2> DEFINE rx == [status |-> "READY", actual |-> 0, buf |-> 0]
             r == [s.u EXCEPT !.tx = "IN_PROGRESS", !.txbuf_num = 1 - s.u.txbuf_num, !.rx = rx,
                              !.rxbuf_num = 1 - s.u.rxbuf_num, !.status = "IDLE"]
  <2>1. t \in DevType /\ SameRest(s, t) /\ t.u = r
    BY <1>1, SendCswEffect, Zenon
  <2>2. r.status = "IDLE"
    BY <1>1, Zenon DEF UsbcmdType
  <2> QED
    BY <2>1, <2>2, Zenon
<1>3. SameRest(s, s)
    BY DEF SameRest
<1> QED
    BY <1>2, <1>3, Zenon DEF rkusb_send_csw

(* A short answer is sent.                                                 *)
LEMMA ShortAnswerEffect ==
    ASSUME NEW s \in DevType
    PROVE  LET t == SendShortAnswer(s)
               k == s.u.txbuf_num
           IN  /\ t \in DevType
               /\ t.u = [s.u EXCEPT !.tx = "IN_PROGRESS", !.txbuf_num = 1 - k,
                                    !.csw = "GOOD", !.status = "CSW"]
               /\ t.in = dwc3_gadget_ep_queue(s.in, [buf |-> k, len |-> 1])
               /\ t.out = s.out /\ t.tb = s.tb /\ SameRest(s, t)
<1> DEFINE k == s.u.txbuf_num
           a == rkusb_write_bulk_ep(s, 1, k)
           z == [s.u EXCEPT !.tx = "IN_PROGRESS", !.txbuf_num = 1 - k]
           r == [s.u EXCEPT !.tx = "IN_PROGRESS", !.txbuf_num = 1 - k,
                            !.csw = "GOOD", !.status = "CSW"]
<1>1. s.u \in UsbcmdType /\ k \in 0 .. 1 /\ 1 \in Nat
    BY Zenon DEF DevType, UsbcmdType
<1>2. /\ a \in DevType
      /\ a.u = [s.u EXCEPT !.tx = "IN_PROGRESS", !.txbuf_num = 1 - @]
      /\ a.in = dwc3_gadget_ep_queue(s.in, [buf |-> k, len |-> 1])
      /\ a.out = s.out /\ a.tb = s.tb /\ SameRest(s, a)
  <2> HIDE DEF k
  <2> QED
    BY <1>1, WriteBulkEffect, Zenon
<1>3. a.u = z
    BY <1>2, Zenon
<1>4. r = [z EXCEPT !.csw = "GOOD", !.status = "CSW"]
    BY <1>1, Zenon
<1> HIDE DEF a, z
<1>5. OnlyU(a, WithCsw(a, "GOOD"), [z EXCEPT !.csw = "GOOD", !.status = "CSW"])
    BY <1>2, <1>3, WithCswEffect, Zenon
<1>6. OnlyU(a, WithCsw(a, "GOOD"), r)
    BY <1>4, <1>5, Zenon
<1> HIDE DEF r
<1>7. SendShortAnswer(s) = WithCsw(a, "GOOD")
    BY Zenon DEF SendShortAnswer, a
<1>8. LET t == SendShortAnswer(s)
      IN  /\ t \in DevType /\ t.u = r
          /\ t.in = dwc3_gadget_ep_queue(s.in, [buf |-> k, len |-> 1])
          /\ t.out = s.out /\ t.tb = s.tb /\ SameRest(s, t)
    BY <1>2, <1>6, <1>7, Zenon DEF OnlyU, SameRest
<1> QED
    BY <1>8, Zenon DEF r

(* The data that have arrived are counted.                                 *)
LEMMA CountedEffect ==
    ASSUME NEW s \in DevType
    PROVE  OnlyU(s, Counted(s), [s.u EXCEPT !.d_bytes = s.u.d_bytes + s.u.rx.actual])
<1> DEFINE r == [s.u EXCEPT !.d_bytes = s.u.d_bytes + s.u.rx.actual]
<1>1. s.u \in UsbcmdType /\ s.u.d_bytes + s.u.rx.actual \in Nat
    BY DEF DevType, UsbcmdType, RxType
<1>2. r \in UsbcmdType
    BY <1>1, Zenon DEF UsbcmdType
<1>3. Counted(s) = [s EXCEPT !.u = r]
    BY <1>1, Zenon DEF Counted, DevType, UsbcmdType
<1> HIDE DEF r
<1>4. OnlyU(s, Counted(s), r)
    BY <1>2, <1>3, SetU
<1> QED
    BY <1>4, Zenon DEF r

(* More blocks are to come, or all have.                                   *)
LEMMA RxMoreEffect ==
    ASSUME NEW s \in DevType, s.u.d_bytes < s.u.d_size
    PROVE  LET t == RxGoOn(s)
               rx == [status |-> "READY", actual |-> 0, buf |-> 0]
               k == s.u.rxbuf_num
               left == (s.u.d_size - s.u.d_bytes) \div UNIT
           IN  /\ t \in DevType
               /\ t.u = [s.u EXCEPT !.rx = rx, !.rxbuf_num = 1 - k, !.status = "RXDATA"]
               /\ t.out = dwc3_gadget_ep_queue(s.out,
                              [buf |-> k, len |-> RoundUp(Min2(left, BLOCK_MAX) * UNIT)])
               /\ t.in = s.in /\ t.tb = s.tb /\ SameRest(s, t)
<1> DEFINE rx == [status |-> "READY", actual |-> 0, buf |-> 0]
           k == s.u.rxbuf_num
           left == (s.u.d_size - s.u.d_bytes) \div UNIT
           n == Min2(left, BLOCK_MAX) * UNIT
           a == rkusb_read_bulk_ep(s, n, k)
           z == [s.u EXCEPT !.rx = rx, !.rxbuf_num = 1 - k]
           r == [s.u EXCEPT !.rx = rx, !.rxbuf_num = 1 - k, !.status = "RXDATA"]
<1>1. s.u \in UsbcmdType /\ k \in 0 .. 1 /\ s.u.d_size \in Nat /\ s.u.d_bytes \in Nat
    BY Zenon DEF DevType, UsbcmdType
<1>2. left \in Nat
    BY <1>1 DEF UNIT
<1>3. n \in Nat
  <2> HIDE DEF left
  <2> QED
    BY <1>2, RockUsbAssumption DEF Min2, UNIT
<1>4. RxGoOn(s) = [a EXCEPT !.u.status = "RXDATA"]
    BY Zenon DEF RxGoOn
<1> HIDE DEF n, k
<1>5. /\ a \in DevType /\ a.u = z
      /\ a.out = dwc3_gadget_ep_queue(s.out, [buf |-> k, len |-> RoundUp(n)])
      /\ a.in = s.in /\ a.tb = s.tb /\ SameRest(s, a)
  <2>1. ReadsBulk(s, a, n, k)
    BY <1>1, <1>3, ReadBulkEffect, Zenon
  <2> HIDE DEF a
  <2> QED
    BY <2>1, Zenon DEF ReadsBulk
<1> HIDE DEF a, rx
<1>6. a.u \in UsbcmdType
    BY <1>5, Zenon DEF DevType
<1>7. [a.u EXCEPT !.status = "RXDATA"] = r
    BY <1>1, <1>5, Zenon DEF UsbcmdType
<1>8. [a.u EXCEPT !.status = "RXDATA"] \in UsbcmdType
    BY <1>6, Zenon DEF UsbcmdType
<1> HIDE DEF r, z
<1>9. RxGoOn(s) = [a EXCEPT !.u = r]
  <2>1. [a EXCEPT !.u.status = "RXDATA"] = [a EXCEPT !.u = [a.u EXCEPT !.status = "RXDATA"]]
    BY Zenon
  <2> QED
    BY <1>4, <1>7, <2>1, Zenon
<1>10. OnlyU(a, RxGoOn(s), r)
    BY <1>5, <1>7, <1>8, <1>9, SetU
<1>11. LET t == RxGoOn(s)
       IN  /\ t \in DevType /\ t.u = r
           /\ t.out = dwc3_gadget_ep_queue(s.out, [buf |-> k, len |-> RoundUp(n)])
           /\ t.in = s.in /\ t.tb = s.tb /\ SameRest(s, t)
    BY <1>5, <1>10, Zenon DEF OnlyU, SameRest
<1> QED
    BY <1>11, Zenon DEF r, rx, k, n

(* No more data are wanted: the status is sent.                            *)
LEMMA RxLastEffect ==
    ASSUME NEW s \in DevType, ~(s.u.d_bytes < s.u.d_size)
    PROVE  \E a \in DevType : /\ OnlyU(s, a, [s.u EXCEPT !.csw = "GOOD"])
                              /\ RxGoOn(s) = rkusb_send_csw(a)
<1> DEFINE r == [s.u EXCEPT !.csw = "GOOD"]
           a == [s EXCEPT !.u = r]
<1>1. s.u \in UsbcmdType
    BY Zenon DEF DevType
<1>2. r \in UsbcmdType
    BY <1>1, Zenon DEF UsbcmdType
<1>3. RxGoOn(s) = rkusb_send_csw(a)
    BY Zenon DEF RxGoOn
<1> HIDE DEF r
<1>4. OnlyU(s, a, r)
    BY <1>2, SetU, Zenon
<1> HIDE DEF a
<1> QED
    BY <1>3, <1>4, Zenon DEF OnlyU, r

(* rkusb_handle_datarx keeps the device's type.                            *)
LEMMA DatarxTyped ==
    ASSUME NEW s \in DevType, NEW rb \in [0 .. 1 -> ContentType]
    PROVE  rkusb_handle_datarx(s, rb) \in DevType /\ rkusb_handle_datarx(s, rb).fmt = s.fmt
<1> DEFINE c == Counted(s)
           t == RxGoOn(c)
<1>1. c \in DevType /\ c.fmt = s.fmt
    BY CountedEffect, Zenon DEF OnlyU, SameRest
<1> HIDE DEF c
<1>2. t \in DevType /\ t.fmt = s.fmt
  <2>1. CASE c.u.d_bytes < c.u.d_size
    BY <1>1, <2>1, RxMoreEffect, Zenon DEF SameRest
  <2>2. CASE ~(c.u.d_bytes < c.u.d_size)
    <3>1. PICK a \in DevType : OnlyU(c, a, [c.u EXCEPT !.csw = "GOOD"]) /\ t = rkusb_send_csw(a)
      BY <1>1, <2>2, RxLastEffect, Zenon
    <3>2. a.fmt = s.fmt
      BY <1>1, <3>1, Zenon DEF OnlyU, SameRest
    <3> QED
      BY <3>1, <3>2, SendCswTyped DEF SameRest
  <2> QED
    BY <2>1, <2>2, Zenon
<1>3. s.u.rx.buf \in 0 .. 1
    BY DEF DevType, UsbcmdType, RxType
<1>4. rb[s.u.rx.buf].kind = "data" => rb[s.u.rx.buf].blocks \in Seq(BlockType)
    BY <1>3, ContentKinds, Zenon
<1>5. rkusb_handle_datarx(s, rb) \in {t, MediaWrite(t, rb[s.u.rx.buf].blocks)}
      /\ (rb[s.u.rx.buf].kind # "data" => rkusb_handle_datarx(s, rb) = t)
    BY Zenon DEF rkusb_handle_datarx, c
<1> HIDE DEF t
<1>6. rb[s.u.rx.buf].kind = "data" => Stores(t, MediaWrite(t, rb[s.u.rx.buf].blocks))
    BY <1>2, <1>4, MediaWriteStores, Zenon
<1> QED
    BY <1>2, <1>5, <1>6, Zenon DEF Stores

(* So does the body of the loop.                                           *)
LEMMA ServeTyped ==
    ASSUME NEW s \in DevType, NEW rb \in [0 .. 1 -> ContentType]
    PROVE  /\ Serve(s, rb) \in DevType
           /\ Serve(s, rb).u.status = "HUNG" => Serve(s, rb).fmt = s.fmt
<1> DEFINE s1 == IF HasCommand(s.u) THEN do_rockusb_cmd(s, rb) ELSE s
           s2 == IF Responds(s1.u) THEN rkusb_handle_response(s1, rb) ELSE s1
<1>1. /\ s1 \in DevType
      /\ s1.fmt = s.fmt \/ (s1.u.status = "CSW" /\ ~Responds(s1.u))
  <2>1. CASE ~HasCommand(s.u)
    BY <2>1, Zenon
  <2>2. CASE HasCommand(s.u) /\ ~Control(Fetched(s, rb).op)
    BY <2>2, ShortAnswerCommand, ReadCommand, WriteCommand, Zenon
       DEF Control, OnlyU, SameRest, ShortReady
  <2>3. CASE HasCommand(s.u) /\ Control(Fetched(s, rb).op)
    <3> DEFINE c == Fetched(s, rb)
    <3>1. c \in CmdType /\ ControlDone(Taken(s, c), s1)
      BY <2>3, FetchedTyped, ControlCommand, Zenon
    <3>2. OnlyU(s, Taken(s, c), [s.u EXCEPT !.cbw = c, !.status = "CMD"])
      BY <3>1, TakenEffect, Zenon
    <3> HIDE DEF c, s1
    <3>3. Taken(s, c).u \in UsbcmdType
      BY <3>2, Zenon DEF OnlyU, DevType
    <3>4. s1 \in DevType /\ s1.u.status = "CSW"
      BY <3>1, <3>3, Zenon DEF ControlDone, UsbcmdType
    <3> QED
      BY <3>4, Zenon DEF Responds
  <2> QED
    BY <2>1, <2>2, <2>3, Zenon
<1> HIDE DEF s1
<1>2. Responds(s1.u) =>
        LET t == rkusb_handle_response(s1, rb) IN t \in DevType /\ t.fmt = s1.fmt
  <2>1. Responds(s1.u) => rkusb_handle_response(s1, rb) \in
           {SendShortAnswer(s1), rkusb_handle_datarx(s1, rb), rkusb_handle_datatx(s1)}
    BY Zenon DEF Responds, rkusb_handle_response
  <2>2. SendShortAnswer(s1) \in DevType /\ SendShortAnswer(s1).fmt = s1.fmt
    BY <1>1, ShortAnswerEffect, Zenon DEF SameRest
  <2>3. rkusb_handle_datarx(s1, rb) \in DevType /\ rkusb_handle_datarx(s1, rb).fmt = s1.fmt
    BY <1>1, DatarxTyped, Zenon
  <2>4. rkusb_handle_datatx(s1) \in DevType /\ rkusb_handle_datatx(s1).fmt = s1.fmt
    BY <1>1, DatatxTyped, Zenon DEF SameRest
  <2> QED
    BY <2>1, <2>2, <2>3, <2>4, Zenon
<1>3. s2 \in DevType /\ (s2.fmt = s.fmt \/ s2.u.status = "CSW")
    BY <1>1, <1>2, Zenon
<1>4. Serve(s, rb) = IF s2.u.status = "CSW" THEN rkusb_send_csw(s2) ELSE s2
    BY Zenon DEF Serve, s1
<1> HIDE DEF s2
<1>5. s2.u.status = "CSW" => rkusb_send_csw(s2) \in DevType /\ rkusb_send_csw(s2).u.status # "HUNG"
    BY <1>3, SendCswTyped, Zenon
<1> QED
    BY <1>3, <1>4, <1>5, Zenon

(* The end of the loop body.                                               *)
LEMMA ResetCheckEffect ==
    ASSUME NEW s \in DevType, NEW signed \in BOOLEAN, signed = Signed
    PROVE  LET t == rkusb_reset_check(s)
           IN  /\ t \in DevType
               /\ t.u = IF s.u.reset_flag \in Reboots \cup {16}
                        THEN [s.u EXCEPT !.reset_flag = 0] ELSE s.u
               /\ t.in = s.in /\ t.out = s.out /\ t.tb = s.tb /\ t.med = s.med
               /\ t.sec.lock = s.sec.lock /\ t.fmt = s.fmt
<1> DEFINE r == [s.u EXCEPT !.reset_flag = 0]
           done == [s EXCEPT !.u = r]
           f == s.u.reset_flag
<1>1. s.u \in UsbcmdType /\ s.sec \in SecType /\ f \in Nat
    BY Zenon DEF DevType, UsbcmdType
<1>2. r \in UsbcmdType
    BY <1>1, Zenon DEF UsbcmdType
<1>3. [s EXCEPT !.u.reset_flag = 0] = done
    BY <1>1, Zenon DEF DevType, UsbcmdType
<1> HIDE DEF r
<1>4. OnlyU(s, done, r)
    BY <1>2, SetU, Zenon
<1>5. rkusb_reset_check(s) =
        CASE f = 3   -> [done EXCEPT !.ld = "MASKROM"]
          [] f = 16  -> [done EXCEPT !.sec.drmLock = @ \/ Signed]
          [] f = 255 -> done
          [] f = 1   -> [done EXCEPT !.ld = "NORECOVER"]
          [] OTHER -> s
    BY <1>3, Zenon DEF rkusb_reset_check
<1> HIDE DEF done
<1>6. done \in DevType /\ done.sec = s.sec
    BY <1>4, Zenon DEF OnlyU, SameRest
<1>7. ASSUME NEW l \in {"MASKROM", "NORECOVER"}
      PROVE  LET t == [done EXCEPT !.ld = l]
             IN  /\ t \in DevType /\ t.u = r
                 /\ t.in = s.in /\ t.out = s.out /\ t.tb = s.tb /\ t.med = s.med
                 /\ t.sec.lock = s.sec.lock /\ t.fmt = s.fmt
    BY <1>4, Zenon DEF OnlyU, SameRest, DevType, LoaderFlags
<1>8. LET t == [done EXCEPT !.sec.drmLock = @ \/ Signed]
      IN  /\ t \in DevType /\ t.u = r
          /\ t.in = s.in /\ t.out = s.out /\ t.tb = s.tb /\ t.med = s.med
          /\ t.sec.lock = s.sec.lock /\ t.fmt = s.fmt
  <2> DEFINE l == [s.sec EXCEPT !.drmLock = (s.sec.drmLock \/ signed)]
  <2>1. (s.sec.drmLock \/ signed) \in BOOLEAN
    BY Zenon
  <2>2. l \in SecType /\ l.lock = s.sec.lock
    BY <1>1, <2>1, Zenon DEF SecType
  <2>3. [done EXCEPT !.sec.drmLock = @ \/ Signed] = [done EXCEPT !.sec = l]
    BY <1>1, <1>6, Zenon DEF DevType, SecType
  <2> HIDE DEF l
  <2> QED
    BY <1>4, <2>2, <2>3, Zenon DEF OnlyU, SameRest, DevType
<1>9. CASE f = 3
  <2>1. rkusb_reset_check(s) = [done EXCEPT !.ld = "MASKROM"]
    BY <1>5, <1>9
  <2>2. f \in Reboots
    BY <1>9, Zenon DEF Reboots
  <2> QED
    BY <1>7, <2>1, <2>2, Zenon DEF r
<1>10. CASE f = 16
  <2>1. rkusb_reset_check(s) = [done EXCEPT !.sec.drmLock = @ \/ Signed]
    BY <1>5, <1>10
  <2> QED
    BY <1>8, <1>10, <2>1, Zenon DEF r
<1>11. CASE f = 255
    BY <1>4, <1>5, <1>11 DEF OnlyU, SameRest, Reboots, r
<1>12. CASE f = 1
  <2>1. rkusb_reset_check(s) = [done EXCEPT !.ld = "NORECOVER"]
    BY <1>5, <1>12
  <2>2. f \in Reboots
    BY <1>12, Zenon DEF Reboots
  <2> QED
    BY <1>7, <2>1, <2>2, Zenon DEF r
<1>13. CASE f \notin Reboots \cup {16}
  <2>1. f # 3 /\ f # 16 /\ f # 255 /\ f # 1
    BY <1>13, Zenon DEF Reboots
  <2>2. rkusb_reset_check(s) = s
    BY <1>5, <2>1, Zenon
  <2> QED
    BY <1>13, <2>2, Zenon
<1> QED
    BY <1>9, <1>10, <1>11, <1>12, <1>13, Zenon DEF Reboots

(* rkusb_lowformat_check takes the flag back.                              *)
LEMMA LowformatEffect ==
    ASSUME NEW s \in DevType
    PROVE  LET t == rkusb_lowformat_check(s)
           IN  /\ t \in DevType /\ t.u = s.u /\ t.in = s.in /\ t.out = s.out /\ t.tb = s.tb
               /\ t.med = s.med /\ t.sec = s.sec /\ t.fmt = FALSE
    BY Zenon DEF rkusb_lowformat_check, DevType

-----------------------------------------------------------------------------
(* The actions, as steps of the device and of the host.                    *)
DeviceOK ==
    /\ usbcmd \in UsbcmdType /\ ep_in \in EpType /\ ep_out \in EpType
    /\ tx_buffer \in [0 .. 1 -> ContentType] /\ medium \in MediumType
    /\ sec \in SecType /\ loader \in LoaderFlags /\ FWLowFormatEn = FALSE

HostOK ==
    /\ rx_buffer \in [0 .. 1 -> ContentType]
    /\ pc \in {"run", "delay", "hung"} /\ session \in Sessions
    /\ host \in HostType /\ host.sent <= host.cmd.n /\ OnBlocks(view)

(* TypeOK by its parts: the device and the host.                           *)
LEMMA TypeParts == TypeOK <=> DeviceOK /\ HostOK
<1>1. medium \in MediumType <=>
        OnBlocks(medium) /\ \A sp \in Spaces : \A a \in At(sp) : medium[sp][a] \in BlockType
    BY MediumTyped, Zenon
<1> QED
    BY <1>1, Zenon DEF TypeOK, DeviceOK, HostOK, SecType

(* The same in the next state.                                             *)
LEMMA TypePartsNext ==
    ASSUME DeviceOK', HostOK'
    PROVE  TypeOK'
<1>1. medium' \in MediumType
    BY Zenon DEF DeviceOK
<1>2. OnBlocks(medium') /\ \A sp \in Spaces : \A a \in At(sp) : medium'[sp][a] \in BlockType
    BY <1>1, MediumTyped, Zenon
<1>3. OnBlocks(medium)' /\ (\A sp \in Spaces : \A a \in At(sp) : medium[sp][a] \in BlockType)'
    BY <1>2, Zenon DEF OnBlocks
<1> QED
    BY <1>3, Zenon DEF TypeOK, DeviceOK, HostOK, SecType

(* The device record of a typed state.                                     *)
LEMMA DevTyped ==
    ASSUME DeviceOK
    PROVE  /\ Dev \in DevType /\ Dev.u = usbcmd /\ Dev.tb = tx_buffer /\ Dev.in = ep_in
           /\ Dev.out = ep_out /\ Dev.med = medium /\ Dev.sec = sec /\ Dev.ld = loader
           /\ Dev.fmt = FALSE
    BY Zenon DEF DeviceOK, Dev, DevType

(* A step of the device to a typed record.                                 *)
LEMMA BecomesTyped ==
    ASSUME NEW t \in DevType, t.fmt = FALSE, Becomes(t)
    PROVE  DeviceOK'
    BY Zenon DEF Becomes, DeviceOK, DevType

(* The medium, the locks and the flags stay.                               *)
RestStays == UNCHANGED <<medium, sec, loader, FWLowFormatEn>>

(* A step of the device that leaves the medium, the locks and the flags.   *)
LEMMA RestStaysStep ==
    ASSUME DeviceOK, NEW t \in DevType, SameRest(Dev, t), Becomes(t)
    PROVE  /\ DeviceOK' /\ RestStays
           /\ usbcmd' = t.u /\ tx_buffer' = t.tb /\ ep_in' = t.in /\ ep_out' = t.out
<1>1. t.fmt = FALSE
    BY DevTyped, Zenon DEF SameRest
<1>2. DeviceOK'
    BY <1>1, BecomesTyped, Zenon
<1>3. RestStays
    BY <1>1, DevTyped, Zenon DEF SameRest, Becomes, RestStays, DeviceOK
<1> QED
    BY <1>2, <1>3, Zenon DEF Becomes

(* The controller completes an OUT request.                                *)
LEMMA DeliverEffect ==
    ASSUME DeviceOK, rx_buffer \in [0 .. 1 -> ContentType], Started(ep_out),
           NEW units \in Nat, NEW content \in ContentType, Deliver(units, content)
    PROVE  LET k == Head(ep_out.queue).buf
           IN  /\ DeviceOK' /\ RestStays /\ UNCHANGED <<ep_in, tx_buffer>>
               /\ k \in 0 .. 1
               /\ usbcmd' = [usbcmd EXCEPT !.rx = [status |-> "OK", actual |-> units, buf |-> k]]
               /\ ep_out' = TransferComplete(ep_out)
               /\ rx_buffer' = [rx_buffer EXCEPT ![k] = content]
               /\ rx_buffer' \in [0 .. 1 -> ContentType]
<1> DEFINE k == Head(ep_out.queue).buf
           e == TransferComplete(ep_out)
           a == [Dev EXCEPT !.out = e]
           t == dwc3_rx_handler(a, TRUE, units, k)
           r == [usbcmd EXCEPT !.rx = [status |-> "OK", actual |-> units, buf |-> k]]
<1>1. ep_out \in EpType /\ ep_out.queue # << >>
    BY Zenon DEF DeviceOK, Started
<1>2. Head(ep_out.queue) \in ReqType
    BY <1>1, HeadTailProperties, Zenon DEF EpType
<1>3. k \in 0 .. 1
    BY <1>2, Zenon DEF ReqType
<1>4. e \in EpType
    BY <1>1, CompleteTyped, Zenon
<1>5. Becomes(t) /\ rx_buffer' = [rx_buffer EXCEPT ![k] = content]
  <2>1. [Dev EXCEPT !.out = TransferComplete(@)] = a
    BY DevTyped, Zenon DEF DevType
  <2> QED
    BY <2>1, Zenon DEF Deliver
<1> HIDE DEF k, e
<1>6. /\ a \in DevType /\ a.out = e /\ a.in = ep_in /\ a.u = usbcmd
      /\ a.tb = tx_buffer /\ SameRest(Dev, a)
  <2>1. Dev \in DevType /\ Dev.u = usbcmd /\ Dev.tb = tx_buffer /\ Dev.in = ep_in
    BY DevTyped, Zenon
  <2> HIDE DEF Dev
  <2> QED
    BY <1>4, <2>1, SetEp, Zenon
<1> HIDE DEF a
<1>7. OnlyU(a, t, r)
    BY <1>3, <1>6, RxDone, Zenon
<1> HIDE DEF t, r
<1>8. t \in DevType /\ t.u = r /\ t.in = ep_in /\ t.out = e /\ t.tb = tx_buffer /\ SameRest(Dev, t)
    BY <1>6, <1>7, Zenon DEF OnlyU, SameRest
<1>9. /\ DeviceOK' /\ RestStays /\ UNCHANGED <<ep_in, tx_buffer>>
      /\ usbcmd' = r /\ ep_out' = e
    BY <1>5, <1>8, RestStaysStep, Zenon
<1>10. rx_buffer' \in [0 .. 1 -> ContentType]
    BY <1>3, <1>5, Zenon
<1> QED
    BY <1>3, <1>5, <1>9, <1>10, Zenon DEF k, e, r

(* The controller completes an IN request.                                 *)
LEMMA SentEffect ==
    ASSUME DeviceOK, Started(ep_in), NEW ok \in BOOLEAN,
           Becomes(dwc3_tx_handler([Dev EXCEPT !.in = TransferComplete(@)], ok))
    PROVE  /\ DeviceOK' /\ RestStays /\ UNCHANGED <<ep_out, tx_buffer>>
           /\ Head(ep_in.queue) \in ReqType
           /\ usbcmd' = [usbcmd EXCEPT !.tx = IF ok THEN "OK" ELSE "ERROR"]
           /\ ep_in' = TransferComplete(ep_in)
<1> DEFINE e == TransferComplete(ep_in)
           a == [Dev EXCEPT !.in = e]
           t == dwc3_tx_handler(a, ok)
           r == [usbcmd EXCEPT !.tx = IF ok THEN "OK" ELSE "ERROR"]
<1>1. ep_in \in EpType /\ ep_in.queue # << >>
    BY Zenon DEF DeviceOK, Started
<1>2. Head(ep_in.queue) \in ReqType
    BY <1>1, HeadTailProperties, Zenon DEF EpType
<1>4. e \in EpType
    BY <1>1, CompleteTyped, Zenon
<1>5. Becomes(t)
  <2>1. [Dev EXCEPT !.in = TransferComplete(@)] = a
    BY DevTyped, Zenon DEF DevType
  <2> QED
    BY <2>1, Zenon
<1> HIDE DEF e
<1>6. /\ a \in DevType /\ a.in = e /\ a.out = ep_out /\ a.u = usbcmd
      /\ a.tb = tx_buffer /\ SameRest(Dev, a)
  <2>1. Dev \in DevType /\ Dev.u = usbcmd /\ Dev.tb = tx_buffer /\ Dev.out = ep_out
    BY DevTyped, Zenon
  <2> HIDE DEF Dev
  <2> QED
    BY <1>4, <2>1, SetEp, Zenon
<1> HIDE DEF a
<1>7. OnlyU(a, t, r)
    BY <1>6, TxHandlerEffect, Zenon
<1> HIDE DEF t, r
<1>8. t \in DevType /\ t.u = r /\ t.in = e /\ t.out = ep_out /\ t.tb = tx_buffer /\ SameRest(Dev, t)
    BY <1>6, <1>7, Zenon DEF OnlyU, SameRest
<1>9. /\ DeviceOK' /\ RestStays /\ UNCHANGED <<ep_out, tx_buffer>>
      /\ usbcmd' = r /\ ep_in' = e
    BY <1>5, <1>8, RestStaysStep, Zenon
<1> QED
    BY <1>2, <1>9, Zenon DEF e, r

(* A control request makes the gadget idle.                                *)
LEMMA IdleEffect ==
    ASSUME NEW s \in DevType
    PROVE  OnlyU(s, [s EXCEPT !.u.status = "IDLE"], [s.u EXCEPT !.status = "IDLE"])
<1> DEFINE r == [s.u EXCEPT !.status = "IDLE"]
<1>1. s.u \in UsbcmdType
    BY DEF DevType
<1>2. r \in UsbcmdType
    BY <1>1, Zenon DEF UsbcmdType
<1>3. [s EXCEPT !.u.status = "IDLE"] = [s EXCEPT !.u = r]
    BY <1>1, Zenon DEF DevType, UsbcmdType
<1> HIDE DEF r
<1>4. OnlyU(s, [s EXCEPT !.u.status = "IDLE"], r)
    BY <1>2, <1>3, SetU, Zenon
<1> QED
    BY <1>4, Zenon DEF r

(* The receive side starts again: a request for a command block in buffer 0.*)
FreshRx == [status |-> "READY", actual |-> 0, buf |-> 0]

(* The first request for a command block.                                  *)
LEMMA ListenEffect ==
    ASSUME NEW s \in DevType
    PROVE  LET t == rkusb_read_bulk_ep(s, 1, 0)
           IN  /\ t \in DevType /\ t.u = [s.u EXCEPT !.rx = FreshRx, !.rxbuf_num = 1]
               /\ t.out = dwc3_gadget_ep_queue(s.out, [buf |-> 0, len |-> UNIT])
               /\ t.in = s.in /\ t.tb = s.tb /\ SameRest(s, t)
<1>1. RoundUp(1) = UNIT
    BY DEF RoundUp, UNIT
<1>2. 1 \in Nat /\ 0 \in 0 .. 1 /\ 1 - 0 = 1
    OBVIOUS
<1>3. LET t == rkusb_read_bulk_ep(s, 1, 0)
      IN  /\ t \in DevType /\ t.u = [s.u EXCEPT !.rx = FreshRx, !.rxbuf_num = 1 - 0]
          /\ t.out = dwc3_gadget_ep_queue(s.out, [buf |-> 0, len |-> RoundUp(1)])
          /\ t.in = s.in /\ t.tb = s.tb /\ SameRest(s, t)
  <2>1. ReadsBulk(s, rkusb_read_bulk_ep(s, 1, 0), 1, 0)
    BY <1>2, ReadBulkEffect, Zenon
  <2> QED
    BY <2>1, Zenon DEF FreshRx, ReadsBulk
<1> QED
    BY <1>1, <1>2, <1>3, Zenon

(* The transmit side starts afresh.                                        *)
LEMMA TxReset ==
    ASSUME NEW u \in UsbcmdType
    PROVE  [u EXCEPT !.txbuf_num = 0, !.tx = "OK"] \in UsbcmdType
<1> DEFINE k == 0
<1>1. k \in 0 .. 1
    OBVIOUS
<1> HIDE DEF k
<1>2. [u EXCEPT !.txbuf_num = k, !.tx = "OK"] \in UsbcmdType
    BY <1>1, Zenon DEF UsbcmdType
<1> QED
    BY <1>2, Zenon DEF k

(* SET_CONFIGURATION enables both endpoints and listens.                   *)
LEMMA ConfiguredEffect ==
    ASSUME NEW s \in DevType
    PROVE  LET t == Configured(s)
           IN  /\ t \in DevType
               /\ t.u = [s.u EXCEPT !.configured = TRUE, !.txbuf_num = 0, !.tx = "OK",
                                    !.rx = FreshRx, !.rxbuf_num = 1]
               /\ t.in = [s.in EXCEPT !.enabled = TRUE]
               /\ t.out = dwc3_gadget_ep_queue([s.out EXCEPT !.enabled = TRUE],
                                               [buf |-> 0, len |-> UNIT])
               /\ t.tb = s.tb /\ SameRest(s, t)
<1> DEFINE z == [s.u EXCEPT !.configured = TRUE, !.txbuf_num = 0, !.tx = "OK"]
           r == [s.u EXCEPT !.configured = TRUE, !.txbuf_num = 0, !.tx = "OK",
                            !.rx = FreshRx, !.rxbuf_num = 1]
           i == [s.in EXCEPT !.enabled = TRUE]
           o == [s.out EXCEPT !.enabled = TRUE]
           a == [s EXCEPT !.u = z, !.in = i, !.out = o]
<1>1. s.u \in UsbcmdType /\ s.in \in EpType /\ s.out \in EpType
    BY Zenon DEF DevType
<1>2. z \in UsbcmdType /\ i \in EpType /\ o \in EpType
  <2>1. [s.u EXCEPT !.configured = TRUE] \in UsbcmdType
    BY <1>1, Zenon DEF UsbcmdType
  <2>2. z = [[s.u EXCEPT !.configured = TRUE] EXCEPT !.txbuf_num = 0, !.tx = "OK"]
    BY Zenon
  <2>3. z \in UsbcmdType
    BY <2>1, <2>2, TxReset, Zenon
  <2>4. i \in EpType /\ o \in EpType
    BY <1>1, Zenon DEF EpType
  <2> QED
    BY <2>3, <2>4, Zenon
<1>3. Configured(s) = rkusb_read_bulk_ep(a, 1, 0)
  <2>1. [s EXCEPT !.u.configured = TRUE, !.u.txbuf_num = 0, !.u.tx = "OK",
                  !.in.enabled = TRUE, !.out.enabled = TRUE] = a
    BY <1>1, Zenon DEF DevType, UsbcmdType, EpType
  <2> QED
    BY <2>1, Zenon DEF Configured
<1>4. [z EXCEPT !.rx = FreshRx, !.rxbuf_num = 1] = r
    BY <1>1, Zenon DEF UsbcmdType
<1> HIDE DEF z, i, o
<1>5. /\ a \in DevType /\ a.u = z /\ a.in = i /\ a.out = o /\ a.tb = s.tb /\ SameRest(s, a)
    BY <1>2, Zenon DEF DevType, SameRest
<1> HIDE DEF a, r
<1>6. LET t == rkusb_read_bulk_ep(a, 1, 0)
      IN  /\ t \in DevType /\ t.u = r
          /\ t.out = dwc3_gadget_ep_queue(o, [buf |-> 0, len |-> UNIT])
          /\ t.in = i /\ t.tb = s.tb /\ SameRest(a, t)
    BY <1>4, <1>5, ListenEffect, Zenon
<1>7. SameRest(s, Configured(s))
    BY <1>3, <1>5, <1>6, Zenon DEF SameRest
<1> QED
    BY <1>3, <1>6, <1>7, Zenon DEF r, i, o

(* The IN endpoint is cleared.                                             *)
LEMMA ClearInEffect ==
    ASSUME NEW s \in DevType
    PROVE  LET t == ClearIn(s)
           IN  /\ t \in DevType /\ t.u = [s.u EXCEPT !.txbuf_num = 0, !.tx = "OK"]
               /\ t.in = Removed(s.in) /\ t.out = s.out /\ t.tb = s.tb /\ SameRest(s, t)
<1> DEFINE a == DisableIn(s)
           z == [a.u EXCEPT !.txbuf_num = 0, !.tx = "OK"]
           r == [s.u EXCEPT !.txbuf_num = 0, !.tx = "OK"]
<1>1. /\ a \in DevType /\ a.in = Removed(s.in) /\ a.out = s.out /\ a.tb = s.tb
      /\ a.u = IF s.in.queue = << >> THEN s.u ELSE [s.u EXCEPT !.tx = "ERROR"]
      /\ SameRest(s, a)
    BY DisableInEffect, Zenon
<1>2. s.u \in UsbcmdType
    BY DEF DevType
<1>3. ClearIn(s) = [a EXCEPT !.u.txbuf_num = 0, !.u.tx = "OK"]
    BY Zenon DEF ClearIn
<1> HIDE DEF a
<1>4. z = r
    BY <1>1, <1>2, Zenon DEF UsbcmdType
<1>5. r \in UsbcmdType
    BY <1>2, TxReset, Zenon
<1>6. ClearIn(s) = [a EXCEPT !.u = z]
    BY <1>1, <1>3, Zenon DEF DevType, UsbcmdType
<1> HIDE DEF z, r
<1>7. OnlyU(a, ClearIn(s), r)
    BY <1>1, <1>4, <1>5, <1>6, SetU
<1>8. LET t == ClearIn(s)
      IN  /\ t \in DevType /\ t.u = r
          /\ t.in = Removed(s.in) /\ t.out = s.out /\ t.tb = s.tb /\ SameRest(s, t)
    BY <1>1, <1>7, Zenon DEF OnlyU, SameRest
<1> QED
    BY <1>8, Zenon DEF r

(* The OUT endpoint is cleared and listens.                                *)
LEMMA ClearOutEffect ==
    ASSUME NEW s \in DevType
    PROVE  LET t == ClearOut(s)
           IN  /\ t \in DevType /\ t.u = [s.u EXCEPT !.rx = FreshRx, !.rxbuf_num = 1]
               /\ t.out = dwc3_gadget_ep_queue(Removed(s.out), [buf |-> 0, len |-> UNIT])
               /\ t.in = s.in /\ t.tb = s.tb /\ SameRest(s, t)
<1> DEFINE a == DisableOut(s)
           r == [s.u EXCEPT !.rx = FreshRx, !.rxbuf_num = 1]
<1>1. /\ a \in DevType /\ a.out = Removed(s.out) /\ a.in = s.in /\ a.tb = s.tb
      /\ a.u = IF s.out.queue = << >> THEN s.u
               ELSE [s.u EXCEPT !.rx = [s.u.rx EXCEPT !.status = "ERROR"]]
      /\ SameRest(s, a)
    BY DisableOutEffect, Zenon
<1>2. s.u \in UsbcmdType
    BY DEF DevType
<1>3. ClearOut(s) = rkusb_read_bulk_ep(a, 1, 0)
    BY Zenon DEF ClearOut
<1> HIDE DEF a
<1>4. [a.u EXCEPT !.rx = FreshRx, !.rxbuf_num = 1] = r
    BY <1>1, <1>2, Zenon DEF UsbcmdType
<1>5. LET t == ClearOut(s)
      IN  /\ t \in DevType /\ t.u = r
          /\ t.out = dwc3_gadget_ep_queue(a.out, [buf |-> 0, len |-> UNIT])
          /\ t.in = a.in /\ t.tb = a.tb /\ SameRest(a, t)
    BY <1>1, <1>3, <1>4, ListenEffect, Zenon
<1> HIDE DEF r
<1>6. SameRest(s, ClearOut(s))
    BY <1>1, <1>5, Zenon DEF SameRest
<1> QED
    BY <1>1, <1>5, <1>6, Zenon DEF r

(* Both endpoints are cleared.                                             *)
LEMMA ClearBothEffect ==
    ASSUME NEW s \in DevType
    PROVE  LET t == rockusb_clear_feature(s, "clear_both")
           IN  /\ t \in DevType
               /\ t.u = [s.u EXCEPT !.status = "IDLE", !.txbuf_num = 0, !.tx = "OK",
                                    !.rx = FreshRx, !.rxbuf_num = 1]
               /\ t.in = Removed(s.in)
               /\ t.out = dwc3_gadget_ep_queue(Removed(s.out), [buf |-> 0, len |-> UNIT])
               /\ t.tb = s.tb /\ SameRest(s, t)
<1> DEFINE a == [s EXCEPT !.u.status = "IDLE"]
           b == ClearIn(a)
           r == [s.u EXCEPT !.status = "IDLE", !.txbuf_num = 0, !.tx = "OK",
                            !.rx = FreshRx, !.rxbuf_num = 1]
<1>1. OnlyU(s, a, [s.u EXCEPT !.status = "IDLE"]) /\ s.u \in UsbcmdType
    BY IdleEffect, Zenon DEF DevType
<1>2. rockusb_clear_feature(s, "clear_both") = ClearOut(b)
    BY Zenon DEF rockusb_clear_feature
<1> HIDE DEF a
<1>3. /\ b \in DevType /\ b.u = [a.u EXCEPT !.txbuf_num = 0, !.tx = "OK"]
      /\ b.in = Removed(a.in) /\ b.out = a.out /\ b.tb = a.tb /\ SameRest(a, b)
    BY <1>1, ClearInEffect, Zenon DEF OnlyU
<1> HIDE DEF b
<1>4. LET t == ClearOut(b)
      IN  /\ t \in DevType /\ t.u = [b.u EXCEPT !.rx = FreshRx, !.rxbuf_num = 1]
          /\ t.out = dwc3_gadget_ep_queue(Removed(b.out), [buf |-> 0, len |-> UNIT])
          /\ t.in = b.in /\ t.tb = b.tb /\ SameRest(b, t)
    BY <1>3, ClearOutEffect, Zenon
<1>5. [b.u EXCEPT !.rx = FreshRx, !.rxbuf_num = 1] = r
    BY <1>1, <1>3, Zenon DEF OnlyU, UsbcmdType
<1> HIDE DEF r
<1>6. LET t == ClearOut(b)
      IN  /\ t \in DevType /\ t.u = r
          /\ t.out = dwc3_gadget_ep_queue(Removed(s.out), [buf |-> 0, len |-> UNIT])
          /\ t.in = Removed(s.in) /\ t.tb = s.tb /\ SameRest(s, t)
    BY <1>1, <1>3, <1>4, <1>5, Zenon DEF OnlyU, SameRest
<1> QED
    BY <1>2, <1>6, Zenon DEF r

(* t is s with both endpoints disabled.                                    *)
Disabled(s, t) ==
    /\ t \in DevType
    /\ \E x \in {"IN_PROGRESS", "OK", "ERROR"}, y \in RxType :
          /\ t.u = [s.u EXCEPT !.tx = x, !.rx = y, !.configured = FALSE]
          /\ y.actual = s.u.rx.actual
    /\ t.in = [Removed(s.in) EXCEPT !.enabled = FALSE]
    /\ t.out = [Removed(s.out) EXCEPT !.enabled = FALSE]
    /\ t.tb = s.tb /\ SameRest(s, t)

(* What a bus reset does.                                                  *)
LEMMA DisableEffect ==
    ASSUME NEW s \in DevType
    PROVE  Disabled(s, [rockusb_disable(s) EXCEPT !.u.configured = FALSE])
<1> DEFINE a == DisableOut(s)
           b == DisableIn(a)
           i == [b.in EXCEPT !.enabled = FALSE]
           o == [b.out EXCEPT !.enabled = FALSE]
           y == IF s.out.queue = << >> THEN s.u.rx ELSE [s.u.rx EXCEPT !.status = "ERROR"]
           x == IF a.in.queue = << >> THEN s.u.tx ELSE "ERROR"
           r == [s.u EXCEPT !.tx = x, !.rx = y, !.configured = FALSE]
           t == [rockusb_disable(s) EXCEPT !.u.configured = FALSE]
<1>1. s.u \in UsbcmdType /\ s.u.rx \in RxType /\ s.u.tx \in {"IN_PROGRESS", "OK", "ERROR"}
    BY Zenon DEF DevType, UsbcmdType
<1>2. y \in RxType /\ y.actual = s.u.rx.actual /\ x \in {"IN_PROGRESS", "OK", "ERROR"}
    BY <1>1, Zenon DEF RxType
<1>3. /\ a \in DevType /\ a.out = Removed(s.out) /\ a.in = s.in /\ a.tb = s.tb
      /\ a.u = IF s.out.queue = << >> THEN s.u
               ELSE [s.u EXCEPT !.rx = [s.u.rx EXCEPT !.status = "ERROR"]]
      /\ SameRest(s, a)
    BY DisableOutEffect
<1>4. t = [b EXCEPT !.in.enabled = FALSE, !.out.enabled = FALSE, !.u.configured = FALSE]
    BY Zenon DEF rockusb_disable
<1>5. a.u = [s.u EXCEPT !.rx = y]
    BY <1>1, <1>3, Zenon DEF UsbcmdType
<1> HIDE DEF a, y
<1>6. /\ b \in DevType /\ b.in = Removed(a.in) /\ b.out = a.out /\ b.tb = a.tb
      /\ b.u = IF a.in.queue = << >> THEN a.u ELSE [a.u EXCEPT !.tx = "ERROR"]
      /\ SameRest(a, b)
    BY <1>3, DisableInEffect, Zenon
<1>7. b.u = [s.u EXCEPT !.tx = x, !.rx = y]
    BY <1>1, <1>5, <1>6, Zenon DEF UsbcmdType
<1> HIDE DEF b, x
<1>8. r = [b.u EXCEPT !.configured = FALSE]
    BY <1>1, <1>7, Zenon DEF UsbcmdType
<1>9. b.in \in EpType /\ b.out \in EpType
    BY <1>6, Zenon DEF DevType
<1>10. i \in EpType /\ o \in EpType
    BY <1>9, Zenon DEF EpType
<1>11. r \in UsbcmdType
    BY <1>1, <1>2, Zenon DEF UsbcmdType
<1>12. t = [b EXCEPT !.in = i, !.out = o, !.u = r]
    BY <1>4, <1>6, <1>8, <1>9, Zenon DEF DevType, UsbcmdType, EpType
<1>13. i = [Removed(s.in) EXCEPT !.enabled = FALSE] /\ o = [Removed(s.out) EXCEPT !.enabled = FALSE]
    BY <1>3, <1>6, Zenon
<1> HIDE DEF i, o, r, t
<1>14. t \in DevType /\ t.u = r /\ t.in = i /\ t.out = o /\ t.tb = s.tb /\ SameRest(s, t)
    BY <1>3, <1>6, <1>10, <1>11, <1>12, Zenon DEF DevType, SameRest
<1> QED
    BY <1>2, <1>13, <1>14, Zenon DEF Disabled, r, t

-----------------------------------------------------------------------------
(* The host's expectations.                                                *)
LEMMA ViewSet ==
    ASSUME NEW v, OnBlocks(v), NEW sp \in Spaces, NEW g, g = [a \in At(sp) |-> g[a]]
    PROVE  LET w == [v EXCEPT ![sp] = g]
           IN  OnBlocks(w) /\ w[sp] = g /\ \A x \in Spaces : x # sp => w[x] = v[x]
<1> DEFINE w == [v EXCEPT ![sp] = g]
<1>1. DOMAIN v = Spaces /\ \A x \in Spaces : v[x] = [a \in At(x) |-> v[x][a]]
    BY Zenon DEF OnBlocks
<1>2. DOMAIN w = Spaces /\ w[sp] = g /\ \A x \in Spaces : x # sp => w[x] = v[x]
    BY <1>1, Zenon
<1>3. \A x \in Spaces : w[x] = [a \in At(x) |-> w[x][a]]
    BY <1>1, <1>2, Zenon
<1>4. w = [x \in Spaces |-> w[x]]
    BY <1>1, Zenon
<1> HIDE DEF w
<1>5. w = [x \in Spaces |-> [a \in At(x) |-> w[x][a]]]
    BY <1>3, <1>4, Zenon
<1>6. OnBlocks(w)
    BY <1>5, Zenon DEF OnBlocks
<1> QED
    BY <1>2, <1>6, Zenon DEF w

(* The space a command reaches.                                            *)
LEMMA TargetTyped ==
    ASSUME NEW c \in CmdType
    PROVE  Target(c) \in Spaces
    BY Zenon DEF Target, CmdType, Spaces

(* What the host may expect once a command is announced.                   *)
LEMMA AnnouncedIs ==
    ASSUME OnBlocks(view), NEW c \in CmdType
    PROVE  /\ OnBlocks(Announced(c))
           /\ \A sp \in Spaces : \A a \in At(sp) :
                 Announced(c)[sp][a] =
                    IF Permitted(c) /\ sp = Target(c) /\ a \in Touched(c)
                    THEN view[sp][a] \cup {Shown(c, a)} ELSE view[sp][a]
<1>1. CASE ~Permitted(c)
    BY <1>1, Zenon DEF Announced
<1>2. CASE Permitted(c)
  <2> DEFINE tg == Target(c)
             g == [a \in At(tg) |-> IF a \notin Touched(c) THEN view[tg][a]
                                    ELSE view[tg][a] \cup {Shown(c, a)}]
             w == [view EXCEPT ![tg] = g]
  <2>1. tg \in Spaces
    BY TargetTyped, Zenon
  <2>2. DOMAIN view = Spaces /\ DOMAIN view[tg] = At(tg)
    BY <2>1, Zenon DEF OnBlocks
  <2>3. Announced(c) = w
    BY <1>2, <2>1, <2>2, Zenon DEF Announced
  <2>4. g = [a \in At(tg) |-> g[a]]
    BY Zenon
  <2>5. \A a \in At(tg) : g[a] = IF a \notin Touched(c) THEN view[tg][a]
                                 ELSE view[tg][a] \cup {Shown(c, a)}
    BY Zenon
  <2> HIDE DEF g, tg
  <2>6. OnBlocks(w) /\ w[tg] = g /\ \A x \in Spaces : x # tg => w[x] = view[x]
    BY <2>1, <2>4, ViewSet
  <2> HIDE DEF w
  <2> QED
    BY <1>2, <2>1, <2>3, <2>5, <2>6, Zenon DEF tg
<1> QED
    BY <1>1, <1>2, Zenon

(* What the host must expect once it is answered.                          *)
LEMMA AnsweredIs ==
    ASSUME OnBlocks(view), NEW c \in CmdType
    PROVE  /\ OnBlocks(Answered(c))
           /\ \A sp \in Spaces : \A a \in At(sp) :
                 Answered(c)[sp][a] =
                    IF c.op \in Writes /\ Permitted(c) /\ sp = Target(c)
                         /\ a \in c.lba .. c.lba + c.n - 1
                    THEN {Stored(c, a - c.lba + 1)} ELSE view[sp][a]
<1>1. CASE c.op \notin Writes \/ ~Permitted(c)
    BY <1>1, Zenon DEF Answered
<1>2. CASE c.op \in Writes /\ Permitted(c)
  <2> DEFINE tg == Target(c)
             g == [a \in At(tg) |-> IF a \in c.lba .. c.lba + c.n - 1
                                    THEN {Stored(c, a - c.lba + 1)} ELSE view[tg][a]]
             w == [view EXCEPT ![tg] = g]
  <2>1. tg \in Spaces
    BY TargetTyped
  <2>2. DOMAIN view = Spaces /\ DOMAIN view[tg] = At(tg)
    BY <2>1 DEF OnBlocks
  <2>3. Answered(c) = w
    BY <1>2, <2>1, <2>2, Zenon DEF Answered
  <2>4. g = [a \in At(tg) |-> g[a]]
    BY Zenon
  <2>5. \A a \in At(tg) : g[a] = IF a \in c.lba .. c.lba + c.n - 1
                                 THEN {Stored(c, a - c.lba + 1)} ELSE view[tg][a]
    BY Zenon
  <2> HIDE DEF g, tg
  <2>6. OnBlocks(w) /\ w[tg] = g /\ \A x \in Spaces : x # tg => w[x] = view[x]
    BY <2>1, <2>4, ViewSet
  <2> HIDE DEF w
  <2> QED
    BY <1>2, <2>1, <2>3, <2>5, <2>6, Zenon DEF tg
<1> QED
    BY <1>1, <1>2, Zenon

(* What goes over the wire.                                                *)
LEMMA WireTyped ==
    ASSUME NEW m \in ContentType, NEW units \in Nat
    PROVE  /\ Wire(m, units) \in Seq(BlockType) /\ Len(Wire(m, units)) = units \div UNIT
           /\ units \div UNIT \in Nat
           /\ \A i \in 1 .. units \div UNIT : Wire(m, units)[i] =
                 IF m.kind = "data" /\ i <= Len(m.blocks) THEN m.blocks[i] ELSE Junk
<1> DEFINE n == units \div UNIT
<1>1. n \in Nat
    BY DEF UNIT
<1>2. Wire(m, units) = [i \in 1 .. n |->
         IF m.kind = "data" /\ i <= Len(m.blocks) THEN m.blocks[i] ELSE Junk]
    BY Zenon DEF Wire
<1> HIDE DEF n
<1>3. Junk \in BlockType
    BY DEF Junk, BlockType
<1>4. m.kind = "data" => m.blocks \in Seq(BlockType)
    BY ContentKinds, Zenon
<1>5. \A i \in 1 .. n :
        (IF m.kind = "data" /\ i <= Len(m.blocks) THEN m.blocks[i] ELSE Junk) \in BlockType
    BY <1>1, <1>3, <1>4
<1>6. Wire(m, units) \in [1 .. n -> BlockType]
    BY <1>2, <1>5, Zenon
<1>7. Wire(m, units) \in Seq(BlockType) /\ Len(Wire(m, units)) = n
    BY <1>1, <1>6
<1> QED
    BY <1>1, <1>2, <1>7, Zenon DEF n

(* The data of a write.                                                    *)
LEMMA PayloadTyped ==
    ASSUME NEW c \in CmdType
    PROVE  /\ Payload(c) \in Seq(BlockType) /\ Len(Payload(c)) = c.n
           /\ \A i \in 1 .. c.n : Payload(c)[i] = <<c.v, i>>
<1>1. c.n \in Nat /\ c.v \in Nat
    BY Zenon DEF CmdType
<1>2. \A i \in 1 .. c.n : <<c.v, i>> \in BlockType
    BY <1>1 DEF BlockType
<1>3. Payload(c) \in [1 .. c.n -> BlockType]
    BY <1>2, Zenon DEF Payload
<1>4. Payload(c) \in Seq(BlockType) /\ Len(Payload(c)) = c.n
    BY <1>1, <1>3
<1> QED
    BY <1>4, Zenon DEF Payload

(* A piece of the payload, as the host sends it.                           *)
LEMMA PieceTyped ==
    ASSUME NEW c \in CmdType, NEW d \in Nat, NEW m \in Nat, d + m <= c.n
    PROVE  LET p == SubSeq(Payload(c), d + 1, d + m)
           IN  /\ p \in Seq(BlockType) /\ Len(p) = m
               /\ \A i \in 1 .. m : p[i] = <<c.v, d + i>>
<1> DEFINE q == Payload(c)
           p == SubSeq(q, d + 1, d + m)
<1>1. c.n \in Nat
    BY Zenon DEF CmdType
<1>2. q \in Seq(BlockType) /\ Len(q) = c.n /\ \A i \in 1 .. c.n : q[i] = <<c.v, i>>
    BY PayloadTyped, Zenon
<1> HIDE DEF q
<1>3. d + 1 \in 1 .. Len(q) + 1 /\ d + m \in (d + 1) - 1 .. Len(q)
    BY <1>1, <1>2
<1>4. p \in Seq(BlockType) /\ Len(p) = m
    BY <1>1, <1>2, <1>3, SubSeqProperties
<1>5. \A i \in 1 .. m : p[i] = q[d + i] /\ d + i \in 1 .. c.n
    BY <1>1, <1>2, <1>3, SubSeqProperties
<1> QED
    BY <1>2, <1>4, <1>5, Zenon DEF q

-----------------------------------------------------------------------------
(* The types, whatever the host does.                                      *)
LEMMA GivesUpTyped ==
    ASSUME HostOK, NEW ph \in {"attach", "recover", "idle"}
    PROVE  /\ GivesUp(ph) \in HostType
           /\ GivesUp(ph).sent = host.sent /\ GivesUp(ph).cmd = host.cmd
           /\ GivesUp(ph).phase = ph /\ GivesUp(ph).got = host.got
           /\ GivesUp(ph).answer = Csw(host.cmd.tag, "NONE")
<1> DEFINE m == Csw(host.cmd.tag, "NONE")
<1>1. host \in HostType /\ host.cmd.tag \in 0 .. 1
    BY Zenon DEF HostOK, HostType, CmdType
<1>2. m \in ContentType
    BY <1>1, ContentTyped, Zenon
<1>3. GivesUp(ph) = [host EXCEPT !.phase = ph, !.answer = m]
    BY Zenon DEF GivesUp
<1> HIDE DEF m
<1>4. /\ GivesUp(ph) \in HostType
      /\ GivesUp(ph).sent = host.sent /\ GivesUp(ph).cmd = host.cmd
      /\ GivesUp(ph).phase = ph /\ GivesUp(ph).got = host.got /\ GivesUp(ph).answer = m
    BY <1>1, <1>2, <1>3, Zenon DEF HostType
<1> QED
    BY <1>4, Zenon DEF m



(* The state do_rockusb starts in is typed.                                *)
LEMMA ZeroTyped ==
    /\ ZeroUsbcmd \in UsbcmdType /\ Buffers \in [0 .. 1 -> ContentType] /\ NoEp \in EpType
    /\ NoHost \in HostType /\ NoCmd \in CmdType
<1>1. NoCmd \in CmdType
  <2>1. "NONE" \in Ops /\ "LBA" \in Spaces /\ 0 \in Nat /\ 0 \in 0 .. 1
    BY DEF Ops, Spaces
  <2> QED
    BY <2>1, Zenon DEF NoCmd, CmdType
<1>2. [status |-> "READY", actual |-> 0, buf |-> 0] \in RxType
    BY DEF RxType
<1>3. ZeroUsbcmd \in UsbcmdType
  <2> DEFINE rx == [status |-> "READY", actual |-> 0, buf |-> 0]
  <2>1. 0 \in Nat /\ 0 \in 0 .. 1
    OBVIOUS
  <2>2. rx \in RxType
    BY <1>2, Zenon
  <2> HIDE DEF rx
  <2>3. ZeroUsbcmd =
          [status |-> "IDLE", configured |-> FALSE, rxbuf_num |-> 0, txbuf_num |-> 0,
           d_size |-> 0, d_bytes |-> 0, u_size |-> 0, u_bytes |-> 0, lba |-> 0,
           cbw |-> NoCmd, csw |-> "GOOD", reset_flag |-> 0, pre_lba |-> 0, pre_blocks |-> 0,
           pre_buffer |-> 0, rx |-> rx, tx |-> "IN_PROGRESS"]
    BY Zenon DEF ZeroUsbcmd, rx
  <2> QED
    BY <1>1, <2>1, <2>2, <2>3, Zenon DEF UsbcmdType
<1>4. << >> \in Seq(BlockType) /\ << >> \in Seq(ReqType)
    OBVIOUS
<1>5. Buffers \in [0 .. 1 -> ContentType]
    BY <1>4, ContentTyped, Zenon DEF Buffers
<1>6. NoEp \in EpType
    BY <1>4, Zenon DEF NoEp, EpType
<1>7. NoHost \in HostType
  <2>1. Csw(0, "GOOD") \in ContentType /\ 0 \in Nat /\ 0 \in 0 .. 1
    BY ContentTyped
  <2> QED
    BY <1>1, <1>4, <2>1, Zenon DEF NoHost, HostType
<1> QED
    BY <1>1, <1>3, <1>5, <1>6, <1>7, Zenon









(* A new phase of the host.                                                *)
LEMMA PhaseTyped ==
    ASSUME HostOK, NEW ph \in {"attach", "addressed", "idle", "out", "in", "csw", "recover"}
    PROVE  LET h == [host EXCEPT !.phase = ph]
           IN  /\ h \in HostType /\ h.sent = host.sent /\ h.cmd = host.cmd /\ h.phase = ph
               /\ h.got = host.got /\ h.answer = host.answer
    BY Zenon DEF HostOK, HostType

(* The initial states are typed.                                           *)
LEMMA InitTyped ==
    ASSUME Init
    PROVE  DeviceOK /\ HostOK
<1>1. medium \in MediumType
  <2> DEFINE g(sp) == [a \in At(sp) |-> CASE sp = "UNLOCK" -> Zero [] sp = "SYS" -> Tagged(<<0, a>>)
                                          [] OTHER -> <<0, a>>]
  <2>1. medium = [sp \in Spaces |-> g(sp)]
    BY Zenon DEF Init
  <2>2. ASSUME NEW sp \in Spaces PROVE g(sp) \in [At(sp) -> BlockType]
    <3>1. \A a \in At(sp) : a \in Int
      BY AtNumbers, Zenon
    <3>2. Zero \in BlockType /\ \A a \in At(sp) : <<0, a>> \in BlockType
      BY <3>1 DEF Zero, BlockType
    <3>3. \A a \in At(sp) : Tagged(<<0, a>>) \in BlockType
      BY <3>2, TaggedTyped, Zenon
    <3>4. \A a \in At(sp) : (CASE sp = "UNLOCK" -> Zero [] sp = "SYS" -> Tagged(<<0, a>>)
                              [] OTHER -> <<0, a>>) \in BlockType
      BY <3>2, <3>3, Zenon
    <3> QED
      BY <3>4, Zenon
  <2> HIDE DEF g
  <2> QED
    BY <2>1, <2>2, Zenon DEF MediumType
<1>2. sec \in SecType
  <2>1. PICK l \in (IF Signed THEN BOOLEAN ELSE {FALSE}) : sec = [lock |-> l, drmLock |-> l]
    BY Zenon DEF Init
  <2>2. l \in BOOLEAN
    BY <2>1, Zenon
  <2> QED
    BY <2>1, <2>2, Zenon DEF SecType
<1>3. OnBlocks(view)
    BY Zenon DEF Init, OnBlocks
<1>4. DeviceOK
    BY <1>1, <1>2, ZeroTyped, Zenon DEF Init, DeviceOK, LoaderFlags
<1>5. host \in HostType /\ host.sent <= host.cmd.n
    BY ZeroTyped DEF Init, NoHost, NoCmd
<1> QED
    BY <1>3, <1>4, <1>5, ZeroTyped, Zenon DEF Init, HostOK

(* Every step keeps the types.                                             *)
LEMMA StepTyped ==
    ASSUME DeviceOK, HostOK, [Next]_vars
    PROVE  DeviceOK' /\ HostOK'
(* CLEAR_FEATURE for any endpoint.                                         *)
<1>ClearFeatureTyped.
      ASSUME NEW s \in DevType, NEW f \in Clears
      PROVE  LET t == rockusb_clear_feature(s, f) IN t \in DevType /\ SameRest(s, t)
  <2> USE <1>ClearFeatureTyped
  <2> DEFINE a == [s EXCEPT !.u.status = "IDLE"]
             t == rockusb_clear_feature(s, f)
  <2>1. a \in DevType /\ SameRest(s, a)
      BY IdleEffect, Zenon DEF OnlyU
  <2>2. CASE f = "clear_in"
    <3>1. t = ClearIn(a)
      BY <2>2, Zenon DEF rockusb_clear_feature
    <3> HIDE DEF a, t
    <3>2. t \in DevType /\ SameRest(a, t)
      BY <2>1, <3>1, ClearInEffect, Zenon
    <3>3. t \in DevType /\ SameRest(s, t)
      BY <2>1, <3>2, Zenon DEF SameRest
    <3> QED
      BY <3>3, Zenon DEF t
  <2>3. CASE f = "clear_out"
    <3>1. t = ClearOut(a)
      BY <2>3, Zenon DEF rockusb_clear_feature
    <3> HIDE DEF a, t
    <3>2. t \in DevType /\ SameRest(a, t)
      BY <2>1, <3>1, ClearOutEffect, Zenon
    <3>3. t \in DevType /\ SameRest(s, t)
      BY <2>1, <3>2 DEF SameRest
    <3> QED
      BY <3>3 DEF t
  <2>4. CASE f = "clear_both"
      BY <2>4, ClearBothEffect, Zenon
  <2>5. CASE f = "clear_other"
    <3>1. t = a
      BY <2>5, Zenon DEF rockusb_clear_feature
    <3> QED
      BY <2>1, <3>1, Zenon
  <2> QED
      BY <2>2, <2>3, <2>4, <2>5, Zenon DEF Clears
(* Receive buffers with a command block executed.                          *)
<1>MarkUsedTyped.
      ASSUME NEW rb \in [0 .. 1 -> ContentType], NEW k \in 0 .. 1
      PROVE  MarkUsed(rb, k) \in [0 .. 1 -> ContentType]
  <2> USE <1>MarkUsedTyped
  <2>1. rb[k] \in ContentType
      BY Zenon
  <2>2. rb[k].kind = "cbw" => [rb[k] EXCEPT !.used = TRUE] \in ContentType
      BY <2>1, ContentKinds, Zenon
  <2>3. rb[k].kind = "cbw" => MarkUsed(rb, k) = [rb EXCEPT ![k] = [rb[k] EXCEPT !.used = TRUE]]
      BY Zenon DEF MarkUsed
  <2> QED
      BY <2>2, <2>3, Zenon DEF MarkUsed
(* A pass of the loop keeps the types.                                     *)
<1>PassTyped.
      ASSUME DeviceOK, HostOK, Pass, UNCHANGED session
      PROVE  DeviceOK' /\ HostOK'
  <2> USE <1>PassTyped
  <2> DEFINE s == Serve(Dev, rx_buffer)
             r == rkusb_reset_check(s)
             t == rkusb_lowformat_check(r)
  <2>1. Dev \in DevType /\ Dev.fmt = FALSE /\ rx_buffer \in [0 .. 1 -> ContentType]
      BY DevTyped, Zenon DEF HostOK
  <2>2. s \in DevType /\ (s.u.status = "HUNG" => s.fmt = FALSE)
      BY <2>1, ServeTyped, Zenon
  <2>3. Signed \in BOOLEAN
      BY RockUsbAssumption, Zenon DEF HostOK, Signed
  <2>4. /\ pc' \in {"run", "delay", "hung"}
        /\ IF s.u.status = "HUNG" THEN Becomes(s) ELSE Becomes(t)
      BY Zenon DEF Pass
  <2> HIDE DEF s
  <2>5. r \in DevType
      BY <2>2, <2>3, ResetCheckEffect, Zenon
  <2> HIDE DEF r
  <2>6. t \in DevType /\ t.fmt = FALSE
      BY <2>5, LowformatEffect, Zenon
  <2> HIDE DEF t
  <2>7. DeviceOK'
      BY <2>2, <2>4, <2>6, BecomesTyped, Zenon
  <2>8. rx_buffer' \in [0 .. 1 -> ContentType]
    <3>1. usbcmd.rx.buf \in 0 .. 1
      BY Zenon DEF DeviceOK, UsbcmdType, RxType
    <3> QED
      BY <2>1, <3>1, <1>MarkUsedTyped, Zenon DEF Pass
  <2> QED
      BY <2>4, <2>7, <2>8, Zenon DEF Pass, HostOK
(* The reset keeps the types.                                              *)
<1>ResetTyped.
      ASSUME DeviceOK, HostOK, reset_cpu, UNCHANGED session
      PROVE  DeviceOK' /\ HostOK'
  <2> USE <1>ResetTyped
  <2>1. "UNLOCK" \in Spaces /\ At("UNLOCK") = {0}
      BY AtNumbers, Zenon DEF Spaces
  <2>2. medium' \in MediumType
    <3> DEFINE f == [medium["UNLOCK"] EXCEPT ![0] = Zero]
    <3>1. medium \in MediumType
      BY Zenon DEF DeviceOK
    <3>2. medium["UNLOCK"] \in [At("UNLOCK") -> BlockType]
      BY <2>1, <3>1, Zenon DEF MediumType
    <3>3. f \in [At("UNLOCK") -> BlockType]
      <4>1. Zero \in BlockType
        BY DEF Zero, BlockType
      <4> QED
        BY <2>1, <3>2, <4>1, Zenon
    <3>4. medium' = [medium EXCEPT !["UNLOCK"] = f]
      BY Zenon DEF reset_cpu
    <3> HIDE DEF f
    <3> QED
      BY <2>1, <3>1, <3>3, <3>4, SetSpace, Zenon
  <2>3. OnBlocks(view)'
    <3> DEFINE g == [view["UNLOCK"] EXCEPT ![0] = {Zero}]
    <3>1. view["UNLOCK"] = [a \in At("UNLOCK") |-> view["UNLOCK"][a]]
      BY <2>1, Zenon DEF HostOK, OnBlocks
    <3>2. g = [a \in At("UNLOCK") |-> g[a]]
      BY <3>1, Zenon
    <3>3. view' = [view EXCEPT !["UNLOCK"] = g]
      BY Zenon DEF reset_cpu
    <3> HIDE DEF g
    <3>4. OnBlocks([view EXCEPT !["UNLOCK"] = g])
      BY <2>1, <3>2, ViewSet, Zenon DEF HostOK
    <3>5. OnBlocks(view')
      BY <3>3, <3>4, Zenon
    <3> QED
      BY <3>5, Zenon DEF OnBlocks
  <2>4. sec' \in SecType
      BY Zenon DEF reset_cpu, DeviceOK, SecType
  <2>5. /\ usbcmd' \in UsbcmdType /\ tx_buffer' \in [0 .. 1 -> ContentType]
        /\ rx_buffer' \in [0 .. 1 -> ContentType] /\ ep_in' \in EpType /\ ep_out' \in EpType
      BY ZeroTyped, Zenon DEF reset_cpu
  <2>6. host' \in HostType /\ host'.sent = host.sent /\ host'.cmd = host.cmd
    <3>1. host' = [host EXCEPT !.phase = "attach"] \/ host' = GivesUp("attach")
      BY Zenon DEF reset_cpu
    <3>2. host \in HostType
      BY Zenon DEF HostOK
    <3>3. LET h == [host EXCEPT !.phase = "attach"]
          IN  h \in HostType /\ h.sent = host.sent /\ h.cmd = host.cmd
      BY <3>2, Zenon DEF HostType
    <3> QED
      BY <3>1, <3>3, GivesUpTyped, Zenon
  <2>7. DeviceOK'
      BY <2>2, <2>4, <2>5, Zenon DEF DeviceOK, reset_cpu
  <2> QED
      BY <2>3, <2>5, <2>6, <2>7, Zenon DEF HostOK, reset_cpu
(* A command of the host keeps the types.                                  *)
<1>SendCbwTyped.
      ASSUME DeviceOK, HostOK, NEW c \in Cmds, SendCbw(c), UNCHANGED session
      PROVE  DeviceOK' /\ HostOK'
  <2> USE <1>SendCbwTyped
  <2> DEFINE d == [c EXCEPT !.tag = 1 - host.tag]
  <2>1. c \in CmdType
      BY RockUsbAssumption, Zenon DEF HostOK, Cmds
  <2>2. host.tag \in 0 .. 1
      BY Zenon DEF HostOK, HostType
  <2>3. d \in CmdType /\ d.tag \in 0 .. 1 /\ d.n \in Nat
      BY <2>1, <2>2 DEF CmdType
  <2>4. Cbw(d) \in ContentType /\ 1 \in Nat
      BY <2>3, ContentTyped, Zenon
  <2>5. Deliver(1, Cbw(d)) /\ Started(ep_out)
      BY Zenon DEF SendCbw
  <2>6. \E ph \in {"out", "in", "csw"} :
          host' = [NoHost EXCEPT !.cmd = d, !.tag = d.tag, !.phase = ph]
    <3> DEFINE ph == CASE c.op \in Writes /\ c.n > 0   -> "out"
                       [] c.op \in Reads \union Small -> "in"
                       [] OTHER                       -> "csw"
    <3>1. host' = [NoHost EXCEPT !.cmd = d, !.tag = d.tag, !.phase = ph]
      BY Zenon DEF SendCbw
    <3>2. ph \in {"out", "in", "csw"}
      <4>1. CASE c.op \in Writes /\ c.n > 0
        <5>1. c.op \notin Reads \union Small
          BY <4>1, Zenon DEF Writes, Reads, Small
        <5> QED
          BY <4>1, <5>1, Zenon
      <4>2. CASE ~(c.op \in Writes /\ c.n > 0)
        BY <4>2, Zenon
      <4> QED
        BY <4>1, <4>2, Zenon
    <3> HIDE DEF ph, d
    <3> QED
      BY <3>1, <3>2, Zenon
  <2>7. view' = Announced(c) /\ pc' = pc
      BY Zenon DEF SendCbw
  <2> HIDE DEF d
  <2>8. DeviceOK' /\ rx_buffer' \in [0 .. 1 -> ContentType]
      BY <2>4, <2>5, DeliverEffect, Zenon DEF HostOK
  <2>9. host' \in HostType /\ host'.sent = 0 /\ host'.cmd = d
      BY <2>3, <2>6, ZeroTyped, Zenon DEF HostType, NoHost
  <2>10. OnBlocks(view')
      BY <2>1, <2>7, AnnouncedIs, Zenon DEF HostOK
  <2> QED
      BY <2>3, <2>7, <2>8, <2>9, <2>10 DEF HostOK, OnBlocks
(* Data of the host keep the types.                                        *)
<1>SendDataTyped.
      ASSUME DeviceOK, HostOK, SendData, UNCHANGED session
      PROVE  DeviceOK' /\ HostOK'
  <2> USE <1>SendDataTyped
  <2> DEFINE n == Min2(Head(ep_out.queue).len \div UNIT, host.cmd.n - host.sent)
             sent == host.sent + n
             p == SubSeq(Payload(host.cmd), host.sent + 1, sent)
  <2>1. /\ Started(ep_out) /\ Deliver(n * UNIT, Data(p)) /\ UNCHANGED <<pc, view>>
        /\ host' = [host EXCEPT !.sent = sent, !.phase = IF sent = host.cmd.n THEN "csw" ELSE "out"]
      BY Zenon DEF SendData
  <2>2. /\ host \in HostType /\ host.cmd \in CmdType /\ host.cmd.n \in Nat /\ host.sent \in Nat
        /\ host.sent <= host.cmd.n
      BY Zenon DEF HostOK, HostType, CmdType
  <2>3. Head(ep_out.queue) \in ReqType
      BY <2>1, HeadTailProperties, Zenon DEF DeviceOK, EpType, Started
  <2>4. n \in Nat /\ sent \in Nat /\ sent <= host.cmd.n
    <3>1. Head(ep_out.queue).len \div UNIT \in Nat
      BY <2>3 DEF ReqType, UNIT
    <3> QED
      BY <2>2, <3>1 DEF Min2
  <2> HIDE DEF n
  <2>5. Data(p) \in ContentType
      BY <2>2, <2>4, PieceTyped, ContentTyped, Zenon
  <2>6. n * UNIT \in Nat
      BY <2>4 DEF UNIT
  <2> HIDE DEF p
  <2>7. DeviceOK' /\ rx_buffer' \in [0 .. 1 -> ContentType]
      BY <2>1, <2>5, <2>6, DeliverEffect, Zenon DEF HostOK
  <2> HIDE DEF sent
  <2>8. host' \in HostType /\ host'.sent = sent /\ host'.cmd = host.cmd
      BY <2>1, <2>2, <2>4, Zenon DEF HostType
  <2> QED
      BY <2>1, <2>4, <2>7, <2>8, Zenon DEF HostOK, OnBlocks
(* So does what the host receives.                                         *)
<1>RecvInTyped.
      ASSUME DeviceOK, HostOK, RecvIn, UNCHANGED session
      PROVE  DeviceOK' /\ HostOK'
  <2> USE <1>RecvInTyped
  <2> DEFINE r == Head(ep_in.queue)
             m == tx_buffer[r.buf]
             got == host.got \o Wire(m, r.len)
  <2>1. /\ Started(ep_in) /\ UNCHANGED <<pc, rx_buffer>>
        /\ Becomes(dwc3_tx_handler([Dev EXCEPT !.in = TransferComplete(@)], TRUE))
        /\ \/ /\ \E ph \in {"csw", "in"} : host' = [host EXCEPT !.got = got, !.phase = ph]
              /\ UNCHANGED view
           \/ /\ host' = [host EXCEPT !.phase = "idle", !.answer = m]
              /\ view' \in {view, Answered(host.cmd)}
      BY Zenon DEF RecvIn
  <2>2. DeviceOK' /\ r \in ReqType
      BY <2>1, SentEffect, Zenon
  <2>3. r.buf \in 0 .. 1 /\ r.len \in Nat
      BY <2>2, Zenon DEF ReqType
  <2>4. m \in ContentType
      BY <2>3, Zenon DEF DeviceOK
  <2> HIDE DEF m, r
  <2>5. host \in HostType /\ host.cmd \in CmdType /\ host.got \in Seq(BlockType)
      BY Zenon DEF HostOK, HostType
  <2>6. got \in Seq(BlockType)
      BY <2>3, <2>4, <2>5, WireTyped, ConcatProperties, Zenon
  <2> HIDE DEF got
  <2>7. host' \in HostType /\ host'.sent = host.sent /\ host'.cmd = host.cmd
      BY <2>1, <2>4, <2>5, <2>6, Zenon DEF HostType
  <2>8. OnBlocks(view')
      BY <2>1, <2>5, AnsweredIs, Zenon DEF HostOK
  <2> QED
      BY <2>1, <2>2, <2>7, <2>8, Zenon DEF HostOK, OnBlocks
(* So does an error on the bus.                                            *)
<1>InErrorTyped.
      ASSUME DeviceOK, HostOK, InError, UNCHANGED session
      PROVE  DeviceOK' /\ HostOK'
  <2> USE <1>InErrorTyped
  <2>1. DeviceOK'
      BY SentEffect, Zenon DEF InError
  <2>2. host' \in HostType /\ host'.sent = host.sent /\ host'.cmd = host.cmd
      BY GivesUpTyped, Zenon DEF InError
  <2> QED
      BY <2>1, <2>2, Zenon DEF InError, HostOK, OnBlocks
(* So do control requests and bus events.                                  *)
<1>ControlTyped.
      ASSUME DeviceOK, HostOK, UNCHANGED session,
             SetAddress \/ SetConfiguration \/ (\E f \in Clears : ClearFeature(f)) \/ BusReset
      PROVE  DeviceOK' /\ HostOK'
  <2> USE <1>ControlTyped
  <2>1. Dev \in DevType
      BY DevTyped, Zenon
  <2>2. ASSUME NEW t \in DevType, SameRest(Dev, t), Becomes(t) PROVE DeviceOK'
      BY <2>2, RestStaysStep, Zenon
  <2>3. DeviceOK'
    <3>1. CASE SetAddress
      <4>1. Becomes([Dev EXCEPT !.u.status = "IDLE"])
        BY <3>1, Zenon DEF SetAddress
      <4> HIDE DEF Dev
      <4>2. LET t == [Dev EXCEPT !.u.status = "IDLE"] IN t \in DevType /\ SameRest(Dev, t)
        BY <2>1, IdleEffect, Zenon DEF OnlyU
      <4> QED
        BY <2>2, <4>1, <4>2, Zenon
    <3>2. CASE SetConfiguration
      <4>1. Becomes(Configured(Dev))
        BY <3>2, Zenon DEF SetConfiguration
      <4> HIDE DEF Dev
      <4>2. Configured(Dev) \in DevType /\ SameRest(Dev, Configured(Dev))
        BY <2>1, ConfiguredEffect, Zenon
      <4> QED
        BY <2>2, <4>1, <4>2, Zenon
    <3>3. ASSUME NEW f \in Clears, ClearFeature(f) PROVE DeviceOK'
      <4>1. Becomes(rockusb_clear_feature(Dev, f))
        BY <3>3, Zenon DEF ClearFeature
      <4> HIDE DEF Dev
      <4>2. LET t == rockusb_clear_feature(Dev, f) IN t \in DevType /\ SameRest(Dev, t)
        BY <2>1, <1>ClearFeatureTyped, Zenon
      <4> QED
        BY <2>2, <4>1, <4>2, Zenon
    <3>4. CASE BusReset
      <4>1. Becomes([rockusb_disable(Dev) EXCEPT !.u.configured = FALSE])
        BY <3>4, Zenon DEF BusReset
      <4> HIDE DEF Dev
      <4>2. LET t == [rockusb_disable(Dev) EXCEPT !.u.configured = FALSE]
            IN  t \in DevType /\ SameRest(Dev, t)
        BY <2>1, DisableEffect, Zenon DEF Disabled
      <4> QED
        BY <2>2, <4>1, <4>2, Zenon
    <3> QED
      BY <3>1, <3>2, <3>3, <3>4, Zenon
  <2>4. host' \in HostType /\ host'.sent = host.sent /\ host'.cmd = host.cmd
    <3>1. \/ host' = host
          \/ \E ph \in {"attach", "idle"} : host' = GivesUp(ph)
          \/ \E ph \in {"attach", "addressed", "idle"} : host' = [host EXCEPT !.phase = ph]
      BY Zenon DEF SetAddress, SetConfiguration, ClearFeature, BusReset
    <3>2. CASE host' = host
      BY <3>2, Zenon DEF HostOK
    <3>3. ASSUME NEW ph \in {"attach", "idle"}, host' = GivesUp(ph)
          PROVE  host' \in HostType /\ host'.sent = host.sent /\ host'.cmd = host.cmd
      <4>1. ph \in {"attach", "recover", "idle"}
        BY Zenon
      <4> QED
        BY <3>3, <4>1, GivesUpTyped, Zenon
    <3>4. ASSUME NEW ph \in {"attach", "addressed", "idle"}, host' = [host EXCEPT !.phase = ph]
          PROVE  host' \in HostType /\ host'.sent = host.sent /\ host'.cmd = host.cmd
      <4>1. ph \in {"attach", "addressed", "idle", "out", "in", "csw", "recover"}
        BY Zenon
      <4> QED
        BY <3>4, <4>1, PhaseTyped, Zenon
    <3> QED
      BY <3>1, <3>2, <3>3, <3>4, Zenon
  <2>5. UNCHANGED <<pc, rx_buffer, view>>
      BY Zenon DEF SetAddress, SetConfiguration, ClearFeature, BusReset
  <2> QED
      BY <2>3, <2>4, <2>5, Zenon DEF HostOK, OnBlocks
<1>1. CASE UNCHANGED vars
    BY <1>1, Zenon DEF vars, devVars, DeviceOK, HostOK, OnBlocks
<1>2. CASE Next
    BY <1>2, <1>PassTyped, <1>ResetTyped, <1>SendCbwTyped, <1>SendDataTyped, <1>RecvInTyped, <1>InErrorTyped,
       <1>ControlTyped, Zenon DEF Next, Step
<1> QED
    BY <1>1, <1>2, Zenon

(* Every variable keeps its type, in every session: whatever the host      *)
(* sends, aborts or resets, the handlers leave counters that count, buffer *)
(* numbers that name a buffer and a medium with a block at every address.  *)
THEOREM TypeCorrect == Spec => []TypeOK
<1>1. Init => TypeOK
    BY InitTyped, TypeParts, Zenon
<1>2. TypeOK /\ [Next]_vars => TypeOK'
    BY StepTyped, TypeParts, TypePartsNext, Zenon
<1> QED
    BY <1>1, <1>2, PTL DEF Spec

=============================================================================
