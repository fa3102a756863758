--------------------------- MODULE FastbootProofs ---------------------------
(***************************************************************************)
(* Proofs about the fastboot gadget, for any images, scripts, sizes and    *)
(* faults that leave device and host together (FailsLate): each step takes *)
(* device and host from one situation of Link to another; each always      *)
(* knows what the other does next; the gadget implements the download      *)
(* path; and what it does to the lock and to the partitions.               *)
(***************************************************************************)
EXTENDS Fastboot, ImageDownloadProofs

-----------------------------------------------------------------------------
(* Completions are delivered one after the other.                          *)

usbState == [configured |-> configured, rx |-> rx, rxq |-> rxq, tx |-> tx]

LEMMA DeliverOne ==
    ASSUME NEW e, events = <<e>>
    PROVE  delivered = deliver(usbState, e)
<1> DEFINE P(f) == f = [n \in 0..Len(events) |->
                          IF n = 0 THEN usbState ELSE deliver(f[n - 1], events[n])]
           g == [n \in 0..1 |-> IF n = 0 THEN usbState ELSE deliver(usbState, e)]
           f == CHOOSE h : P(h)
<1> HIDE DEF usbState
<1>1. Len(events) = 1 /\ events[1] = e
    BY Zenon
<1>2. P(g)
    BY <1>1
<1>3. P(f)
    BY <1>2, Zenon
<1>4. delivered = f[Len(events)]
    BY Zenon DEF delivered, usbState
<1> HIDE DEF f
<1>5. f[0] = usbState /\ f[1] = deliver(f[0], e)
    BY <1>1, <1>3
<1> QED
    BY <1>1, <1>4, <1>5, Zenon

LEMMA DeliverTwo ==
    ASSUME NEW e1, NEW e2, events = <<e1, e2>>
    PROVE  delivered = deliver(deliver(usbState, e1), e2)
<1> DEFINE P(f) == f = [n \in 0..Len(events) |->
                          IF n = 0 THEN usbState ELSE deliver(f[n - 1], events[n])]
           u1 == deliver(usbState, e1)
           g == [n \in 0..2 |-> IF n = 0 THEN usbState ELSE IF n = 1 THEN u1
                                ELSE deliver(u1, e2)]
           f == CHOOSE h : P(h)
<1> HIDE DEF usbState
<1>1. Len(events) = 2 /\ events[1] = e1 /\ events[2] = e2
    BY Zenon
<1>2. P(g)
    BY <1>1
<1>3. P(f)
    BY <1>2, Zenon
<1>4. delivered = f[Len(events)]
    BY Zenon DEF delivered, usbState
<1> HIDE DEF f
<1>5. f[0] = usbState /\ f[1] = deliver(f[0], e1) /\ f[2] = deliver(f[1], e2)
    BY <1>1, <1>3
<1> QED
    BY <1>1, <1>4, <1>5, Zenon

(* What each completion does.                                              *)
LEMMA DeliverTx ==
    ASSUME NEW u
    PROVE  deliver(u, TxEvent) = [u EXCEPT !.tx.status = "ok"]
    BY Zenon DEF deliver, TxEvent

LEMMA DeliverRx ==
    ASSUME NEW u, NEW n, NEW b, NEW o
    PROVE  deliver(u, rxEvent(n, b, o)) = [u EXCEPT !.rx = given(n, b, o)]
    BY Zenon DEF deliver, rxEvent, given

(* What the loop is left with.                                             *)
Became(c, r, q, t) ==
    /\ configured' = c /\ rx' = r /\ rxq' = q /\ tx' = t /\ events' = <<>>
    /\ pc' = IF c /\ r.actual # 0 THEN "rx" ELSE "loop"

LEMMA BecomesRx ==
    ASSUME handleInterrupt, NEW n, NEW b, NEW o, events = <<rxEvent(n, b, o)>>
    PROVE  Became(configured, given(n, b, o), rxq, tx)
<1>1. delivered = [usbState EXCEPT !.rx = given(n, b, o)]
    BY DeliverOne, DeliverRx
<1>2. delivered = [configured |-> configured, rx |-> given(n, b, o), rxq |-> rxq, tx |-> tx]
    BY <1>1, Zenon DEF usbState
<1> QED
    BY <1>2, Zenon DEF handleInterrupt, Became

LEMMA BecomesTxRx ==
    ASSUME handleInterrupt, NEW n, NEW b, NEW o, events = <<TxEvent, rxEvent(n, b, o)>>
    PROVE  Became(configured, given(n, b, o), rxq, [tx EXCEPT !.status = "ok"])
<1> DEFINE u == [usbState EXCEPT !.tx.status = "ok"]
<1>1. delivered = deliver(deliver(usbState, TxEvent), rxEvent(n, b, o))
    BY DeliverTwo, Zenon
<1>2. deliver(usbState, TxEvent) = u
    BY DeliverTx, Zenon
<1>3. deliver(u, rxEvent(n, b, o)) = [u EXCEPT !.rx = given(n, b, o)]
  <2> HIDE DEF u
  <2> QED
    BY DeliverRx
<1>4. delivered = [configured |-> configured, rx |-> given(n, b, o), rxq |-> rxq,
                   tx |-> [tx EXCEPT !.status = "ok"]]
    BY <1>1, <1>2, <1>3, Zenon DEF usbState
<1> QED
    BY <1>4, Zenon DEF handleInterrupt, Became

(* The link after the completions c, r, t.                                 *)
LinkRec(c, r, q, t) == [configured |-> c, rx |-> r, rxq |-> q, tx |-> t]

DownTo(u, r) == \E t \in TxType : t.queued = FALSE /\ u = LinkRec(FALSE, r, <<>>, t)

-----------------------------------------------------------------------------
(* Every step takes the device and the host from one situation to another. *)

(* The units of a transfer buffer, and what clearing some of them leaves.  *)
Cell == ByteType \cup CommandType

(* A command handler that answers and reads the next command.              *)
Answers(m, r) ==
    /\ respond(r) /\ clearAndListen(m) /\ pc' = "loop"
    /\ UNCHANGED <<configured, inhand, events, host>>

(* Where a command is handled.                                             *)
LEMMA CommandHandled ==
    ASSUME Link, pc = "rx", d_size = 0
    PROVE  /\ Handling /\ LinkType /\ save = NoSave /\ step = "idle" /\ cmd \in CommandType
           /\ mem \in [Buffers -> Seq(Cell)]
<1>1. Handling /\ LinkType /\ step = "idle"
    BY Zenon DEF Link, Unplugged, Listening, Sent, Resetting, Leaving
<1> QED
    BY <1>1, Zenon DEF Handling, LinkType, Cell

(* A piece is handed over: it is the one the download path expects.        *)
HandsOver(pos, b) ==
    /\ Awaited(pos) /\ Loaded(pos, b) /\ rx = given(pieceLen(pos), b, placeOf(pos))
    /\ Receive(Slice(image, pos, pieceLen(pos))) /\ length' = pieceLen(pos)
    /\ pc' = "data" /\ inhand' = b
    /\ UNCHANGED <<pending_ptn_name, lockVars, configured, mem, tx, events, host>>
    /\ IF d_size - d_bytes - pieceLen(pos) > 0
       THEN /\ rxq' = Append(rxq,
                 [len |-> Min2(d_size - d_bytes - pieceLen(pos), TRANS),
                  buf |-> IF d_legacy THEN b ELSE otherBuffer(b),
                  off |-> IF d_legacy THEN placeOf(pos) + pieceLen(pos) ELSE 0])
            /\ rx' = NoRx
       ELSE UNCHANGED <<rx, rxq>>

LEMMA PieceHandedOver ==
    ASSUME DTypeOK, Link, receivePiece
    PROVE  /\ Received /\ Downloading /\ LinkType /\ save = NoSave /\ d_size # 0
           /\ \E pos \in 0..d_size, b \in Buffers :
                 /\ HandsOver(pos, b) /\ pieceLen(pos) \in 1..TRANS /\ placeOf(pos) \in Nat
                 /\ pos \in Nat /\ pos < d_size /\ b \in {"b0", "b1"}
<1>1. pc = "rx" /\ d_size # 0 /\ d_size \in Nat /\ TRANS \in Nat \ {0}
    BY ImageDownloadAssumption, Zenon DEF receivePiece, DTypeOK
<1>2. Received /\ Downloading /\ LinkType
    BY <1>1, Zenon DEF Link, Downloading, Offered, Awaiting, Storing
<1>3. PICK pos \in 0..d_size, b \in Buffers :
         Awaited(pos) /\ Loaded(pos, b) /\ rx = given(pieceLen(pos), b, placeOf(pos))
    BY <1>2, Zenon DEF Received
<1>4. pos \in Nat /\ pos < d_size /\ b \in {"b0", "b1"}
    BY <1>1, <1>3 DEF Loaded, PieceBuffer
<1>5. pieceLen(pos) \in 1..TRANS /\ placeOf(pos) \in Nat
    BY <1>1, <1>4 DEF pieceLen, placeOf, Min2
<1>6. rx.actual = pieceLen(pos) /\ rx.buf = b /\ rx.off = placeOf(pos)
    BY <1>3, Zenon DEF given
<1>7. Min2(rx.actual, TRANS) = pieceLen(pos)
    BY <1>1, <1>5, <1>6 DEF Min2
<1>8. SubSeq(mem[rx.buf], rx.off + 1, rx.off + Min2(rx.actual, TRANS))
         = Slice(image, pos, pieceLen(pos))
    BY <1>3, <1>6, <1>7, Zenon DEF Loaded
<1>9. Receive(Slice(image, pos, pieceLen(pos)))
    BY <1>8, Zenon DEF receivePiece
<1>10. length' = pieceLen(pos)
  <2>1. Len(Slice(image, pos, pieceLen(pos))) = pieceLen(pos)
    BY <1>4, <1>5, SliceProps DEF DTypeOK
  <2> QED
    BY <1>9, <2>1, Zenon DEF Receive
<1>11. HandsOver(pos, b)
    BY <1>3, <1>6, <1>7, <1>9, <1>10, Zenon DEF receivePiece, HandsOver
<1>12. save = NoSave
    BY <1>1, <1>2, Zenon DEF LinkType
<1> QED
    BY <1>1, <1>2, <1>4, <1>5, <1>11, <1>12, Zenon

(* Where a piece is stored.                                                *)
LEMMA PieceStored ==
    ASSUME Link, pc = "data"
    PROVE  LinkType /\ Downloading /\ Storing /\ d_size # 0 /\ save = NoSave
<1>1. LinkType /\ Downloading /\ d_size # 0
    BY Zenon DEF Link, Unplugged, Listening, Sent, Handling, Resetting, Leaving
<1> QED
    BY <1>1, Zenon DEF Downloading, Offered, Awaiting, Received, LinkType

(* Power.                                                                  *)
LEMMA IdleTypes ==
    /\ NoRx \in RxType /\ NoData \in [Buffers -> Seq(ByteType \cup CommandType)]
    /\ idleHost \in HostType /\ resetHost \in HostType
    /\ resetHost.phase = "reset" /\ idleHost.phase = "idle"
    /\ resetHost.script = <<>> /\ idleHost.script = <<>>
    /\ [buffer |-> "none", queued |-> FALSE, status |-> "ok"] \in TxType
<1>1. NoRx \in RxType
    BY ImageDownloadAssumption DEF NoRx, RxType
<1>2. NoData \in [Buffers -> Seq(ByteType \cup CommandType)]
    BY DEF NoData
<1>3. resetHost = [phase |-> "reset", script |-> <<>>, sent |-> 0]
    BY DEF resetHost, idleHost
<1>4. idleHost \in HostType /\ resetHost \in HostType
  <2>1. <<>> \in Seq(CommandType) /\ 0 \in Nat
    OBVIOUS
  <2> QED
    BY <1>3, <2>1, Zenon DEF idleHost, HostType
<1>5. /\ resetHost.phase = "reset" /\ idleHost.phase = "idle"
      /\ resetHost.script = <<>> /\ idleHost.script = <<>>
    BY <1>3, Zenon DEF idleHost
<1>6. [buffer |-> "none", queued |-> FALSE, status |-> "ok"] \in TxType
    BY Zenon DEF TxType
<1> QED
    BY <1>1, <1>2, <1>4, <1>5, <1>6, Zenon

-----------------------------------------------------------------------------
(* The host.                                                               *)

(* A few completions and one more.                                         *)
LEMMA AppendEvent ==
    ASSUME NEW a, NEW b, NEW c
    PROVE  /\ Append(<<>>, a) = <<a>>
           /\ Append(<<a>>, b) = <<a, b>>
           /\ Append(<<a, b>>, c) = <<a, b, c>>
<1> DEFINE S == {a, b, c}
<1>1. <<>> \in Seq(S) /\ <<a>> \in Seq(S) /\ <<a, b>> \in Seq(S) /\ <<a, b, c>> \in Seq(S)
      /\ a \in S /\ b \in S /\ c \in S
    OBVIOUS
<1> HIDE DEF S
<1>2. Append(<<>>, a) = <<a>>
    BY <1>1, AppendProperties, SeqEqual
<1>3. Append(<<a>>, b) = <<a, b>>
    <2> DEFINE s == Append(<<a>>, b)
               t == <<a, b>>
    <2>1. s \in Seq(S) /\ Len(s) = 2 /\ s[1] = a /\ s[2] = b
        BY <1>1, AppendProperties
    <2>2. t \in Seq(S) /\ Len(t) = 2 /\ t[1] = a /\ t[2] = b
        BY <1>1, Zenon
    <2> HIDE DEF s, t
    <2>3. \A i \in 1..Len(s) : s[i] = t[i]
        BY <2>1, <2>2
    <2>4. s = t
        BY <2>1, <2>2, <2>3, SeqEqual, Zenon
    <2> QED
        BY <2>4, Zenon DEF s, t
<1>4. Append(<<a, b>>, c) = <<a, b, c>>
    <2> DEFINE s == Append(<<a, b>>, c)
               t == <<a, b, c>>
               r == <<a, b>>
    <2>1. r \in Seq(S) /\ Len(r) = 2 /\ r[1] = a /\ r[2] = b
        BY <1>1
    <2>2. s = Append(r, c)
        BY Zenon
    <2>3. t \in Seq(S) /\ Len(t) = 3 /\ t[1] = a /\ t[2] = b /\ t[3] = c
        BY <1>1, Zenon
    <2> HIDE DEF s, t, r
    <2>0. c \in S /\ r \in Seq(S)
        BY <1>1, <2>1, Zenon
    <2>a. /\ Append(r, c) \in Seq(S) /\ Len(Append(r, c)) = Len(r) + 1
          /\ \A i \in 1..Len(r) : Append(r, c)[i] = r[i]
          /\ Append(r, c)[Len(r) + 1] = c
        BY <2>0, AppendProperties
    <2>4. s \in Seq(S) /\ Len(s) = 3 /\ s[1] = a /\ s[2] = b /\ s[3] = c
        BY <2>1, <2>2, <2>a
    <2>5. \A i \in 1..Len(s) : s[i] = t[i]
        BY <2>3, <2>4
    <2>6. s = t
        BY <2>3, <2>4, <2>5, SeqEqual, Zenon
    <2> QED
        BY <2>6, Zenon DEF s, t
<1> QED
    BY <1>2, <1>3, <1>4, Zenon

-----------------------------------------------------------------------------
(* Every step of the gadget is a step of the download path.                *)

LEMMA DiskStored ==
    ASSUME DTypeOK, \E p, e : disk' = [disk EXCEPT ![p] = e]
    PROVE  AnyDisk
    BY Zenon DEF DTypeOK, AnyDisk

LEMMA StepRefines ==
    ASSUME DInv, Link, AsideType, Next
    PROVE  [DNext]_dlVars
<1>DiskKept.
      ASSUME AsideType, UNCHANGED disk
      PROVE  AnyDisk
  <2> USE <1>DiskKept
  <2> QED
      BY Zenon DEF AsideType, AnyDisk
<1>CommandRefines.
      ASSUME DTypeOK, AsideType,
             \/ getvar_partition_type \/ handle_flash \/ handle_erase
             \/ oem_unlock_accept \/ runKernel
      PROVE  (Command /\ AnyPtn /\ AnyDisk) \/ UNCHANGED dlVars
  <2> USE <1>CommandRefines
  <2>1. CASE getvar_partition_type
    <3>1. Command /\ UNCHANGED disk
      BY <2>1, Zenon DEF getvar_partition_type
    <3>2. AnyPtn
      BY <2>1, Zenon DEF getvar_partition_type, AnyPtn
    <3> QED
      BY <3>1, <3>2, <1>DiskKept, Zenon
  <2>2. CASE handle_flash
    <3>1. Command /\ pending_ptn' = NoPtn
      BY <2>2, Zenon DEF handle_flash
    <3>2. UNCHANGED disk \/ \E p, e : disk' = [disk EXCEPT ![p] = e]
      BY <2>2, Zenon DEF handle_flash, store_image
    <3> QED
      BY <3>1, <3>2, <1>DiskKept, DiskStored, Zenon DEF AnyPtn
  <2>3. CASE handle_erase
    <3>1. Command /\ UNCHANGED pending_ptn
      BY <2>3, Zenon DEF handle_erase
    <3>2. UNCHANGED disk
      BY <2>3, Zenon DEF handle_erase, erase
    <3> QED
      BY <3>1, <3>2, <1>DiskKept, Zenon DEF AnyPtn, DTypeOK
  <2>4. CASE oem_unlock_accept
    <3>1. UNCHANGED dlVars \/ (Command /\ UNCHANGED pending_ptn)
      BY <2>4, Zenon DEF oem_unlock_accept
    <3>2. UNCHANGED disk
      BY <2>4, Zenon DEF oem_unlock_accept, erase, dlVars
    <3> QED
      BY <3>1, <3>2, <1>DiskKept, Zenon DEF AnyPtn, DTypeOK
  <2>5. CASE runKernel
    <3>1. /\ Command /\ UNCHANGED pending_ptn
          /\ \E p, e : disk' = [disk EXCEPT ![p] = e]
      BY <2>5, Zenon DEF runKernel
    <3> QED
      BY <3>1, DiskStored, Zenon DEF AnyPtn, DTypeOK
  <2> QED
      BY <2>1, <2>2, <2>3, <2>4, <2>5, Zenon
<1>DownloadRefines.
      ASSUME DTypeOK, Link, handle_download
      PROVE  \E legacy \in BOOLEAN :
                DownloadRefused(legacy) \/ \E img \in Images : Download(img, legacy)
  <2> USE <1>DownloadRefines
  <2> DEFINE legacy == pending_ptn_name = "" \/ pending_ptn_name \in Verified
  <2>1. pc = "rx" /\ d_size = 0 /\ cmd.op = "download"
      BY Zenon DEF handle_download, handling
  <2>2. cmd \in CommandType
      BY <2>1, CommandHandled, Zenon
  <2>3. cmd.img \in Images
      BY <2>1, <2>2, Zenon DEF CommandType
  <2>4. DownloadRefused(legacy) \/ Download(cmd.img, legacy)
      BY Zenon DEF handle_download
  <2>5. legacy \in BOOLEAN
      BY Zenon
  <2> HIDE DEF legacy
  <2> QED
      BY <2>3, <2>4, <2>5, Zenon
(* The pieces reach the download path in order; after a failure it looks   *)
(* at their length only.                                                   *)
<1>ReceiveRefines.
      ASSUME DInv, Link, receivePiece
      PROVE  \/ d_status = 0 /\ Receive(NextPiece)
             \/ d_status # 0 /\ \E n \in 1..TRANS : Receive(Slice(image, 0, n))
  <2> USE <1>ReceiveRefines
  <2>1. DTypeOK
      BY Zenon DEF DInv
  <2>2. PICK pos \in 0..d_size, b \in Buffers :
           /\ HandsOver(pos, b) /\ pieceLen(pos) \in 1..TRANS /\ placeOf(pos) \in Nat
           /\ pos \in Nat /\ pos < d_size /\ b \in {"b0", "b1"}
      BY <2>1, PieceHandedOver, Zenon
  <2>3. LinkType /\ d_size # 0
      BY <2>1, PieceHandedOver, Zenon
  <2>4. Awaited(pos) /\ Receive(Slice(image, pos, pieceLen(pos)))
      BY <2>2, Zenon DEF HandsOver
  <2>5. CASE d_status = 0
      BY <2>4, <2>5, Zenon DEF Awaited, NextPiece, pieceLen
  <2>6. CASE d_status # 0
    <3>1. ~d_legacy
      BY <2>3, <2>6, Zenon DEF LinkType
    <3>2. PICK n \in 1..TRANS : n = pieceLen(pos)
      BY <2>2, Zenon
    <3>3. PICK v, w : v = Slice(image, pos, n) /\ w = Slice(image, 0, n)
      BY Zenon
    <3>4. Len(v) = n /\ Len(w) = n
      <4>1. image \in Images /\ pos \in Nat /\ 0 \in Nat /\ n \in Nat
        BY <2>1, <2>2, ImageDownloadAssumption DEF DTypeOK
      <4> QED
        BY <3>3, <4>1, SliceProps, Zenon
    <3>5. Receive(v)
      BY <2>4, <3>2, <3>3, Zenon
    <3>6. Receive(w)
      BY <2>6, <3>1, <3>4, <3>5, Zenon DEF Receive, handleDownload
    <3> QED
      BY <2>6, <3>3, <3>6, Zenon
  <2> QED
      BY <2>5, <2>6, Zenon
<1>1. DTypeOK
    BY Zenon DEF DInv
<1>2. CASE \/ handleInterrupt \/ getvar_checksum \/ oem_unlock \/ oem_lock \/ handle_leave
           \/ unknown \/ saveenv \/ unlockExpires \/ powerOn
    BY <1>2, Zenon DEF handleInterrupt, getvar_checksum, oem_unlock, oem_lock, handle_leave,
                unknown, saveenv, unlockExpires, powerOn
<1>3. CASE \/ hostStart \/ hostConfigure \/ hostCommand \/ hostData \/ hostAnswer \/ hostReset
    BY <1>3, Zenon DEF hostStart, hostConfigure, hostCommand, hostData, hostAnswer, hostReset,
                transfer, hostMoves
<1>4. CASE \/ getvar_partition_type \/ handle_flash \/ handle_erase
           \/ oem_unlock_accept \/ runKernel
    BY <1>1, <1>4, <1>CommandRefines, Zenon DEF DNext
<1>5. CASE handle_download
    BY <1>1, <1>5, <1>DownloadRefines, Zenon DEF DNext
<1>6. CASE receivePiece
    BY <1>6, <1>ReceiveRefines, Zenon DEF DNext
<1>7. CASE storePiece
    BY <1>7, Zenon DEF storePiece, DNext
<1>8. CASE finishPiece
    BY <1>8, Zenon DEF finishPiece, DNext
<1>9. CASE leave \/ powerLoss
  <2>1. Restart /\ (UNCHANGED disk \/ \E p, e : disk' = [disk EXCEPT ![p] = e])
    BY <1>9, Zenon DEF leave, powerLoss, turnOff
  <2> QED
    BY <1>1, <2>1, <1>DiskKept, DiskStored, Zenon DEF DNext
<1> QED
    BY <1>2, <1>3, <1>4, <1>5, <1>6, <1>7, <1>8, <1>9, Zenon
       DEF Next, device, fbt_rx_process, hostGoesOn

-----------------------------------------------------------------------------
(* The invariant.                                                          *)

LEMMA StepLink ==
    ASSUME FullInv, FailsLate, Link, [Next]_vars
    PROVE  Link'
(* Delivering what has happened.                                           *)
<1>InterruptLink.
      ASSUME DTypeOK, Link, handleInterrupt
      PROVE  Link'
  <2>DeliverThree.
        ASSUME NEW e1, NEW e2, NEW e3, events = <<e1, e2, e3>>
        PROVE  delivered = deliver(deliver(deliver(usbState, e1), e2), e3)
    <3> USE <2>DeliverThree
    <3> DEFINE P(f) == f = [n \in 0..Len(events) |->
                              IF n = 0 THEN usbState ELSE deliver(f[n - 1], events[n])]
               u1 == deliver(usbState, e1)
               u2 == deliver(u1, e2)
               g == [n \in 0..3 |-> IF n = 0 THEN usbState ELSE IF n = 1 THEN u1
                                    ELSE IF n = 2 THEN u2 ELSE deliver(u2, e3)]
               f == CHOOSE h : P(h)
    <3> HIDE DEF usbState
    <3>1. Len(events) = 3 /\ events[1] = e1 /\ events[2] = e2 /\ events[3] = e3
        BY Zenon
    <3>2. P(g)
        BY <3>1
    <3>3. P(f)
        BY <3>2, Zenon
    <3>4. delivered = f[Len(events)]
        BY Zenon DEF delivered, usbState
    <3> HIDE DEF f
    <3>5. /\ f[0] = usbState /\ f[1] = deliver(f[0], e1) /\ f[2] = deliver(f[1], e2)
          /\ f[3] = deliver(f[2], e3)
        BY <3>1, <3>3
    <3> QED
        BY <3>1, <3>4, <3>5, Zenon
  <2>DeliverReset.
        ASSUME NEW u
        PROVE  deliver(u, ResetEvent) =
                  [u EXCEPT !.configured = FALSE, !.rxq = <<>>,
                            !.tx = [u.tx EXCEPT !.queued = FALSE,
                                                !.status = IF @ = "ok" THEN "ok" ELSE "error"]]
    <3> USE <2>DeliverReset
    <3> QED
        BY Zenon DEF deliver, ResetEvent
  <2>DeliverConfigured.
        ASSUME NEW u
        PROVE  deliver(u, ConfiguredEvent) =
                  [u EXCEPT !.configured = TRUE, !.tx.status = "ok", !.rx = NoRx,
                            !.rxq = Append(@, commandRead)]
    <3> USE <2>DeliverConfigured
    <3> QED
        BY Zenon DEF deliver, ConfiguredEvent
  <2>BecomesConfigured.
        ASSUME handleInterrupt, events = <<ConfiguredEvent>>
        PROVE  Became(TRUE, NoRx, Append(rxq, commandRead), [tx EXCEPT !.status = "ok"])
    <3> USE <2>BecomesConfigured
    <3>1. delivered = [usbState EXCEPT !.configured = TRUE, !.tx.status = "ok", !.rx = NoRx,
                                       !.rxq = Append(@, commandRead)]
        BY DeliverOne, <2>DeliverConfigured, Zenon
    <3>2. delivered = [configured |-> TRUE, rx |-> NoRx, rxq |-> Append(rxq, commandRead),
                       tx |-> [tx EXCEPT !.status = "ok"]]
        BY <3>1, Zenon DEF usbState
    <3> QED
        BY <3>2, Zenon DEF handleInterrupt, Became
  <2>BecomesTx.
        ASSUME handleInterrupt, events = <<TxEvent>>
        PROVE  Became(configured, rx, rxq, [tx EXCEPT !.status = "ok"])
    <3> USE <2>BecomesTx
    <3>1. delivered = [usbState EXCEPT !.tx.status = "ok"]
        BY DeliverOne, DeliverTx, Zenon
    <3>2. delivered = [configured |-> configured, rx |-> rx, rxq |-> rxq,
                       tx |-> [tx EXCEPT !.status = "ok"]]
        BY <3>1, Zenon DEF usbState
    <3> QED
        BY <3>2, Zenon DEF handleInterrupt, Became
  <2>TxOnRec.
        ASSUME NEW c, NEW r, NEW q, NEW t \in TxType
        PROVE  \E t2 \in TxType : deliver(LinkRec(c, r, q, t), TxEvent) = LinkRec(c, r, q, t2)
    <3> USE <2>TxOnRec
    <3>1. deliver(LinkRec(c, r, q, t), TxEvent) = LinkRec(c, r, q, [t EXCEPT !.status = "ok"])
      <4>1. deliver(LinkRec(c, r, q, t), TxEvent) = [LinkRec(c, r, q, t) EXCEPT !.tx.status = "ok"]
        BY DeliverTx, Zenon
      <4> QED
        BY <4>1, Zenon DEF LinkRec
    <3>2. [t EXCEPT !.status = "ok"] \in TxType
        BY Zenon DEF TxType
    <3> QED
        BY <3>1, <3>2, Zenon
  <2>RxOnRec.
        ASSUME NEW c, NEW r, NEW q, NEW t, NEW n, NEW b, NEW o
        PROVE  deliver(LinkRec(c, r, q, t), rxEvent(n, b, o)) = LinkRec(c, given(n, b, o), q, t)
    <3> USE <2>RxOnRec
    <3> QED
        BY DeliverRx DEF LinkRec
  <2>ResetOnRec.
        ASSUME NEW c, NEW r, NEW q, NEW t \in TxType
        PROVE  DownTo(deliver(LinkRec(c, r, q, t), ResetEvent), r)
    <3> USE <2>ResetOnRec
    <3> DEFINE t1 == [t EXCEPT !.queued = FALSE]
               t2 == [t1 EXCEPT !.status = IF t1.status = "ok" THEN "ok" ELSE "error"]
    <3>1. t1 \in TxType /\ t1.queued = FALSE
        BY Zenon DEF TxType
    <3>2. t2 \in TxType /\ t2.queued = FALSE
      <4> HIDE DEF t1
      <4> QED
        BY <3>1, Zenon DEF TxType
    <3>3. deliver(LinkRec(c, r, q, t), ResetEvent) = LinkRec(FALSE, r, <<>>, t2)
      <4> DEFINE u == LinkRec(c, r, q, t)
                 v == [u EXCEPT !.configured = FALSE, !.rxq = <<>>,
                                !.tx = [u.tx EXCEPT !.queued = FALSE,
                                                    !.status = IF @ = "ok" THEN "ok" ELSE "error"]]
      <4>1. deliver(u, ResetEvent) = v
        <5> HIDE DEF u
        <5> QED
          BY <2>DeliverReset, Zenon
      <4>2. v = LinkRec(FALSE, r, <<>>, t2)
        <5> DEFINE w == [u.tx EXCEPT !.queued = FALSE,
                                     !.status = IF @ = "ok" THEN "ok" ELSE "error"]
        <5>1. u.tx = t
          BY Zenon DEF LinkRec
        <5>2. t1.status = t.status
          BY Zenon DEF TxType
        <5>3. w = t2
          <6> HIDE DEF u
          <6> QED
            BY <5>1, <5>2, Zenon
        <5>4. v = [u EXCEPT !.configured = FALSE, !.rxq = <<>>, !.tx = w]
          BY Zenon
        <5> HIDE DEF w, t2, v
        <5> QED
          BY <5>3, <5>4, Zenon DEF LinkRec
      <4> QED
        BY <4>1, <4>2, Zenon
    <3> HIDE DEF t2
    <3> QED
        BY <3>2, <3>3, Zenon DEF DownTo
  (* A reset, whatever was pending before it.                                *)
  <2>BecomesReset.
        ASSUME handleInterrupt, tx \in TxType,
               events \in {<<ResetEvent>>, <<TxEvent, ResetEvent>>,
                           <<rxEvent(1, "rx", 0), ResetEvent>>,
                           <<TxEvent, rxEvent(1, "rx", 0), ResetEvent>>}
        PROVE  \E r \in {rx, given(1, "rx", 0)}, t \in TxType :
                  t.queued = FALSE /\ Became(FALSE, r, <<>>, t)
    <3> USE <2>BecomesReset
    <3> DEFINE cr == given(1, "rx", 0)
               U(r, t) == LinkRec(configured, r, rxq, t)
    <3>1. usbState = U(rx, tx)
        BY Zenon DEF usbState, LinkRec
    <3>2. DownTo(delivered, rx) \/ DownTo(delivered, cr)
      <4>1. CASE events = <<ResetEvent>>
        BY <3>1, <4>1, DeliverOne, <2>ResetOnRec
      <4>2. CASE events = <<TxEvent, ResetEvent>>
        <5>1. delivered = deliver(deliver(U(rx, tx), TxEvent), ResetEvent)
          BY <3>1, <4>2, DeliverTwo
        <5>2. PICK t \in TxType : deliver(U(rx, tx), TxEvent) = U(rx, t)
          BY <2>TxOnRec, Zenon
        <5> QED
          BY <5>1, <5>2, <2>ResetOnRec
      <4>3. CASE events = <<rxEvent(1, "rx", 0), ResetEvent>>
        <5>1. delivered = deliver(deliver(U(rx, tx), rxEvent(1, "rx", 0)), ResetEvent)
          BY <3>1, <4>3, DeliverTwo, Zenon
        <5>2. deliver(U(rx, tx), rxEvent(1, "rx", 0)) = U(cr, tx)
          BY <2>RxOnRec
        <5> QED
          BY <5>1, <5>2, <2>ResetOnRec, Zenon
      <4>4. CASE events = <<TxEvent, rxEvent(1, "rx", 0), ResetEvent>>
        <5>1. delivered = deliver(deliver(deliver(U(rx, tx), TxEvent), rxEvent(1, "rx", 0)), ResetEvent)
          BY <3>1, <4>4, <2>DeliverThree
        <5>2. PICK t \in TxType : deliver(U(rx, tx), TxEvent) = U(rx, t)
          BY <2>TxOnRec
        <5>3. deliver(U(rx, t), rxEvent(1, "rx", 0)) = U(cr, t)
          BY <2>RxOnRec
        <5> QED
          BY <5>1, <5>2, <5>3, <2>ResetOnRec, Zenon
      <4> QED
        BY <4>1, <4>2, <4>3, <4>4
    <3>3. PICK r \in {rx, cr}, t \in TxType :
             t.queued = FALSE /\ delivered = LinkRec(FALSE, r, <<>>, t)
        BY <3>2, Zenon DEF DownTo
    <3>4. Became(FALSE, r, <<>>, t)
        BY <3>3 DEF handleInterrupt, Became, LinkRec
    <3> QED
        BY <3>3, <3>4, Zenon
  <2> USE <1>InterruptLink
  <2>1. /\ pc = "loop" /\ (events # <<>> \/ (configured /\ rx.actual # 0))
        /\ UNCHANGED <<dlVars, pending_ptn_name, lockVars, mem, inhand, host>>
      BY Zenon DEF handleInterrupt
  <2>2. LinkType /\ save = NoSave
      BY <2>1, Zenon DEF Link, LinkType
  <2>3. NoRx \in RxType /\ NoRx.actual = 0 /\ given(1, "rx", 0) \in RxType /\ TRANS \in Nat \ {0}
      BY ImageDownloadAssumption DEF NoRx, RxType, given, Buffers
  <2>4. [tx EXCEPT !.status = "ok"] \in TxType
        /\ [tx EXCEPT !.status = "ok"].status = "ok"
        /\ [tx EXCEPT !.status = "ok"].queued = tx.queued
        /\ [tx EXCEPT !.status = "ok"].buffer = tx.buffer
      BY <2>2, Zenon DEF LinkType, TxType
  <2>5. ASSUME pc' \notin {"save", "save2"}, rx' \in RxType, tx' \in TxType, configured' \in BOOLEAN
        PROVE  LinkType'
      BY <2>1, <2>2, <2>5 DEF LinkType, dlVars, progress, lockVars
  <2>6. CASE Unplugged /\ d_size = 0
    <3>1. events = <<ConfiguredEvent>> /\ host = idleHost /\ rxq = <<>> /\ ~tx.queued
      BY <2>1, <2>6, Zenon DEF Unplugged
    <3>2. Became(TRUE, NoRx, Append(rxq, commandRead), [tx EXCEPT !.status = "ok"])
      BY <3>1, <2>BecomesConfigured, Zenon
    <3>3. /\ configured' = TRUE /\ rx' = NoRx /\ rxq' = <<commandRead>>
          /\ tx' = [tx EXCEPT !.status = "ok"] /\ events' = <<>> /\ pc' = "loop"
      BY <2>3, <3>1, <3>2 DEF Became
    <3>4. LinkType'
      BY <2>3, <2>4, <2>5, <3>3
    <3>5. Listening'
      BY <2>1, <2>4, <3>1, <3>3, Zenon DEF Listening, idleHost
    <3> QED
      BY <2>1, <2>6, <3>4, <3>5 DEF Link, dlVars, progress
  <2>7. CASE Listening /\ d_size = 0
    <3>1. events = <<TxEvent>> /\ rx = NoRx /\ rxq = <<commandRead>> /\ configured
          /\ host.phase = "idle" /\ ~tx.queued
      BY <2>1, <2>3, <2>7, Zenon DEF Listening
    <3>2. Became(configured, rx, rxq, [tx EXCEPT !.status = "ok"])
      BY <3>1, <2>BecomesTx, Zenon
    <3>3. /\ configured' = configured /\ rx' = NoRx /\ rxq' = <<commandRead>>
          /\ tx' = [tx EXCEPT !.status = "ok"] /\ events' = <<>> /\ pc' = "loop"
      BY <2>3, <3>1, <3>2, Zenon DEF Became
    <3>4. LinkType'
      BY <2>2, <2>3, <2>4, <2>5, <3>3, Zenon DEF LinkType
    <3>5. Listening'
      BY <2>1, <2>4, <3>1, <3>3, Zenon DEF Listening
    <3> QED
      BY <2>1, <2>7, <3>4, <3>5, Zenon DEF Link, dlVars, progress
  <2>8. CASE Sent /\ d_size = 0
    <3>1. /\ configured /\ rxq = <<>> /\ ~tx.queued /\ host.phase = "resp" /\ host.sent = 0
          /\ host.script # <<>> /\ mem["rx"] = <<Head(host.script)>>
      BY <2>8, Zenon DEF Sent
    <3>2. \/ events = <<rxEvent(1, "rx", 0)>> /\ tx.status = "ok"
          \/ events = <<TxEvent, rxEvent(1, "rx", 0)>>
      BY <2>8, Zenon DEF Sent
    <3>3. \/ Became(configured, given(1, "rx", 0), rxq, tx) /\ tx.status = "ok"
          \/ Became(configured, given(1, "rx", 0), rxq, [tx EXCEPT !.status = "ok"])
      BY <3>2, BecomesRx, BecomesTxRx, Zenon
    <3>4. given(1, "rx", 0).actual # 0
      BY DEF given
    <3>5. /\ configured' = configured /\ rx' = given(1, "rx", 0) /\ rxq' = <<>>
          /\ events' = <<>> /\ pc' = "rx"
      BY <3>1, <3>3, <3>4, Zenon DEF Became
    <3>6. tx' \in TxType /\ tx'.status = "ok" /\ tx'.queued = tx.queued
      BY <2>2, <2>4, <3>3, Zenon DEF Became, LinkType
    <3>7. LinkType'
      BY <2>2, <2>3, <2>5, <3>5, <3>6, Zenon DEF LinkType
    <3>8. cmd' = Head(host.script) /\ Head(host.script) \in CommandType
      <4>1. host.script \in Seq(CommandType)
        BY <2>2, Zenon DEF LinkType, HostType
      <4>2. mem' = mem /\ given(1, "rx", 0).buf = "rx" /\ given(1, "rx", 0).off = 0
        BY <2>1, Zenon DEF given
      <4> QED
        BY <3>1, <3>5, <4>1, <4>2, HeadTailProperties DEF cmd
    <3>9. Handling'
      BY <2>1, <3>1, <3>5, <3>6, <3>8, Zenon DEF Handling
    <3> QED
      BY <2>1, <2>8, <3>7, <3>9, Zenon DEF Link, dlVars, progress
  <2>9. CASE Resetting /\ d_size = 0
    <3>1. PICK r \in {rx, given(1, "rx", 0)}, t \in TxType :
             t.queued = FALSE /\ Became(FALSE, r, <<>>, t)
      BY <2>2, <2>9, <2>BecomesReset, Zenon DEF Resetting, LinkType
    <3>2. /\ configured' = FALSE /\ rx' = r /\ rxq' = <<>> /\ tx' = t
          /\ events' = <<>> /\ pc' = "loop" /\ host = resetHost
      BY <2>9, <3>1, Zenon DEF Became, Resetting
    <3>3. LinkType'
      BY <2>2, <2>3, <2>5, <3>1, <3>2, Zenon DEF LinkType
    <3>4. Unplugged'
      BY <2>1, <3>1, <3>2, Zenon DEF Unplugged
    <3> QED
      BY <2>1, <2>9, <3>3, <3>4, Zenon DEF Link, dlVars, progress
  <2>10. CASE (Handling \/ Leaving) /\ d_size = 0
      BY <2>1, <2>10, Zenon DEF Handling, Leaving
  <2>11. CASE Downloading /\ d_size # 0
    <3>1. Awaiting /\ configured
      BY <2>1, <2>3, <2>11, Zenon DEF Downloading, Offered, Received, Storing
    <3>2. PICK pos \in 0..d_size, b \in Buffers :
             /\ Awaited(pos)
             /\ \/ tx.status = "ok" /\ Coming(pos, b, <<>>)
                \/ tx.status = "busy" /\ Coming(pos, b, <<TxEvent>>)
      BY <3>1, Zenon DEF Awaiting
    <3>3. rx = NoRx /\ ~tx.queued /\ step = "idle"
      BY <3>1, <3>2, Zenon DEF Awaiting, Coming
    <3> DEFINE g == given(pieceLen(pos), b, placeOf(pos))
               ev == rxEvent(pieceLen(pos), b, placeOf(pos))
    <3>4. CASE rxq # <<>>
      <4>1. events = <<TxEvent>> /\ Coming(pos, b, <<TxEvent>>)
        BY <2>1, <2>3, <3>2, <3>3, <3>4, Zenon DEF Coming
      <4>2. Became(configured, rx, rxq, [tx EXCEPT !.status = "ok"])
        BY <4>1, <2>BecomesTx, Zenon
      <4>3. /\ configured' = configured /\ rx' = NoRx /\ rxq' = rxq
            /\ tx' = [tx EXCEPT !.status = "ok"] /\ events' = <<>> /\ pc' = "loop"
        BY <2>3, <3>3, <4>2, Zenon DEF Became
      <4>4. LinkType'
        BY <2>2, <2>3, <2>4, <2>5, <4>3, Zenon DEF LinkType
      <4>5. Coming(pos, b, <<>>)'
        BY <2>1, <3>4, <4>1, <4>3, Zenon DEF Coming, pieceLen, placeOf, PieceBuffer, dlVars, progress
      <4>6. Awaiting'
        BY <2>1, <2>4, <3>2, <3>3, <4>3, <4>5, Zenon DEF Awaiting, Awaited, dlVars, progress
      <4> QED
        BY <2>1, <2>11, <3>1, <4>3, <4>4, <4>6, Zenon DEF Link, Downloading, dlVars, progress
    <3>5. CASE rxq = <<>>
      <4>1. Loaded(pos, b) /\ ((events = <<ev>> /\ tx.status = "ok") \/ events = <<TxEvent, ev>>)
        BY <3>2, <3>5 DEF Coming
      <4>2. \/ Became(configured, g, rxq, tx) /\ tx.status = "ok"
            \/ Became(configured, g, rxq, [tx EXCEPT !.status = "ok"])
        BY <4>1, BecomesRx, BecomesTxRx, Zenon
      <4>3. /\ pieceLen(pos) \in 1..TRANS /\ placeOf(pos) \in Nat /\ b \in Buffers
        BY <2>3, <4>1 DEF pieceLen, placeOf, Min2, Loaded, PieceBuffer, DTypeOK
      <4>4. g.actual # 0 /\ g \in RxType
        BY <4>3 DEF given, RxType
      <4> HIDE DEF g
      <4>5. /\ configured' = configured /\ rx' = g /\ rxq' = <<>>
            /\ events' = <<>> /\ pc' = "rx"
        BY <3>1, <3>5, <4>2, <4>4, Zenon DEF Became
      <4>6. tx' \in TxType /\ tx'.status = "ok" /\ tx'.queued = tx.queued
        BY <2>2, <2>4, <4>2, Zenon DEF Became, LinkType
      <4>7. LinkType'
        BY <2>2, <2>3, <2>5, <4>4, <4>5, <4>6, Zenon DEF LinkType
      <4>8. /\ Loaded(pos, b)' /\ Awaited(pos)' /\ rx' = given(pieceLen(pos), b, placeOf(pos))'
        BY <2>1, <3>2, <4>1, <4>5, Zenon
           DEF Loaded, Awaited, pieceLen, placeOf, PieceBuffer, dlVars, progress, g, given
      <4>9. Received'
        BY <2>1, <3>3, <4>5, <4>6, <4>8, Zenon DEF Received, dlVars, progress
      <4> QED
        BY <2>1, <2>11, <3>1, <4>5, <4>7, <4>9, Zenon DEF Link, Downloading, dlVars, progress
    <3> QED
      BY <3>4, <3>5, Zenon
  <2> QED
      BY <2>6, <2>7, <2>8, <2>9, <2>10, <2>11 DEF Link
<1>ZeroCell.
   Zero \in ByteType /\ Zero \in Cell
      BY Zenon DEF Zero, ByteType, Cell
<1>ClearKeepsType.
      ASSUME NEW m \in [Buffers -> Seq(Cell)], rx.buf \in Buffers, clearAndListen(m)
      PROVE  mem' \in [Buffers -> Seq(Cell)]
  <2> USE <1>ClearKeepsType
  <2> DEFINE v == m[rx.buf]
             w == [i \in DOMAIN v |-> IF i \in (rx.off + 1)..(rx.off + CMD) THEN Zero ELSE v[i]]
  <2>1. v \in Seq(Cell)
      BY Zenon
  <2>2. w \in Seq(Cell)
    <3>1. Len(v) \in Nat /\ DOMAIN v = 1..Len(v) /\ \A i \in 1..Len(v) : v[i] \in Cell
      BY <2>1
    <3> HIDE DEF v
    <3>2. w \in [1..Len(v) -> Cell]
      BY <3>1, <1>ZeroCell, Zenon
    <3> QED
      BY <3>1, <3>2, SeqDef
  <2>3. mem' = [m EXCEPT ![rx.buf] = w]
      BY Zenon DEF clearAndListen
  <2> HIDE DEF w
  <2> QED
      BY <2>2, <2>3, Zenon
<1>AnswersLink.
      ASSUME Link, Handling, NEW m \in [Buffers -> Seq(Cell)], NEW r \in {OKAY, FAIL},
             Answers(m, r), save' = NoSave, d_size' = 0, step' = "idle"
      PROVE  Link'
  <2> USE <1>AnswersLink
  <2>1. LinkType /\ rx = given(1, "rx", 0) /\ rxq = <<>> /\ tx.status = "ok" /\ configured
      BY Zenon DEF Link, Handling
  <2>2. rx.buf \in Buffers
      BY <2>1, Zenon DEF given, Buffers
  <2>3. /\ mem' \in [Buffers -> Seq(Cell)] /\ rx' = NoRx /\ rxq' = <<commandRead>>
        /\ pc' = "loop" /\ UNCHANGED <<configured, inhand, events, host>>
      BY <2>1, <2>2, <1>ClearKeepsType DEF Answers, clearAndListen
  <2>4. tx' = [buffer |-> r, queued |-> TRUE, status |-> "busy"]
      BY <2>1, Zenon DEF Answers, respond
  <2>5. tx' \in TxType /\ tx'.queued = TRUE /\ tx'.status = "busy" /\ tx'.buffer = r
      BY <2>4, Zenon DEF TxType
  <2>6. NoRx \in RxType
      BY ImageDownloadAssumption DEF NoRx, RxType
  <2>7. LinkType'
      BY <2>1, <2>3, <2>5, <2>6, Zenon DEF LinkType, Cell
  <2>8. CASE host.phase = "resp" /\ host.script # <<>> /\ events = <<>>
    <3>1. Listening'
      BY <2>1, <2>3, <2>5, <2>8, Zenon DEF Listening
    <3> QED
      BY <2>7, <3>1, Zenon DEF Link
  <2>9. CASE host = resetHost /\ events = <<ResetEvent>>
    <3>1. Resetting'
      BY <2>1, <2>3, <2>9, Zenon DEF Resetting
    <3> QED
      BY <2>7, <3>1, Zenon DEF Link
  <2> QED
      BY <2>8, <2>9, Zenon DEF Handling
(* A handler that answers.                                                 *)
<1>AnswerLink.
      ASSUME Link, pc = "rx", d_size = 0, NEW r \in {OKAY, FAIL}, answer(r),
             UNCHANGED <<save, d_size, step>>
      PROVE  Link'
  <2> USE <1>AnswerLink
  <2>1. Handling /\ save = NoSave /\ step = "idle" /\ mem \in [Buffers -> Seq(Cell)]
      BY CommandHandled, Zenon
  <2>2. Answers(mem, r)
      BY Zenon DEF answer, Answers
  <2> QED
      BY <2>1, <2>2, <1>AnswersLink, Zenon
(* A handler that saves the lock state first.                              *)
<1>SetUnlockedLink.
      ASSUME Link, pc = "rx", d_size = 0, NEW val \in {"0", "1"}, NEW by \in {"lock", "accept"},
             cmd.op \in {"lock", "unlock_accept"},
             set_unlocked(val, by), UNCHANGED <<usbVars, host, d_size, step>>
      PROVE  Link'
  <2> USE <1>SetUnlockedLink
  <2>1. Handling /\ step = "idle" /\ LinkType
      BY CommandHandled, Zenon
  <2>2. /\ save' = [val |-> val, by |-> by] /\ pc' = "save"
        /\ UNCHANGED <<configured, mem, inhand, rx, rxq, tx, events, host>> /\ configured
      BY <2>1, Zenon DEF set_unlocked, usbVars, Handling
  <2>3. save' \in [val : {"0", "1"}, by : {"lock", "accept", "init"}] /\ save'.by # "init"
      BY <2>2, Zenon
  <2>4. LinkType'
      BY <2>1, <2>2, <2>3 DEF LinkType
  <2>5. Handling'
      BY <2>1, <2>2 DEF Handling, cmd
  <2> QED
      BY <2>1, <2>4, <2>5, Zenon DEF Link
(* A handler that answers and leaves fastboot.                             *)
<1>LeaveLink.
      ASSUME Link, Handling, d_size = 0, cmd.op \notin {"download", "flash"},
             respond(OKAY), pc' = "leave", save' = NoSave,
             UNCHANGED <<configured, mem, inhand, rx, rxq, events, host, d_size, step>>
      PROVE  Link'
  <2> USE <1>LeaveLink
  <2>1. LinkType /\ rxq = <<>> /\ tx.status = "ok" /\ configured /\ step = "idle"
      BY Zenon DEF Link, Handling
  <2>2. tx' = [buffer |-> OKAY, queued |-> TRUE, status |-> "busy"]
      BY <2>1, Zenon DEF respond
  <2>3. tx' \in TxType /\ tx'.buffer = OKAY
      BY <2>2, Zenon DEF TxType
  <2>4. LinkType'
      BY <2>1, <2>3, Zenon DEF LinkType
  <2>5. Leaving'
      BY <2>1, <2>3, Zenon DEF Leaving, Handling
  <2> QED
      BY <2>1, <2>4, <2>5 DEF Link
(* The handlers that answer at once.                                       *)
<1>SimpleLink.
      ASSUME Link,
             \/ getvar_partition_type \/ handle_flash \/ handle_erase \/ oem_unlock \/ unknown
      PROVE  Link'
  <2> USE <1>SimpleLink
  <2>1. /\ pc = "rx" /\ d_size = 0
        /\ \E r \in {OKAY, FAIL} : answer(r)
        /\ UNCHANGED <<save, d_size, step>>
    <3>1. CASE getvar_partition_type
      BY <3>1, Zenon DEF getvar_partition_type, handling, Command, lockVars
    <3>2. CASE handle_flash
      BY <3>2, Zenon DEF handle_flash, store_image, handling, Command, lockVars
    <3>3. CASE handle_erase
      BY <3>3, Zenon DEF handle_erase, handling, Command, lockVars
    <3>4. CASE oem_unlock
      BY <3>4, Zenon DEF oem_unlock, handling, dlVars
    <3>5. CASE unknown
      BY <3>5, Zenon DEF unknown, handling, dlVars, lockVars
    <3> QED
      BY <3>1, <3>2, <3>3, <3>4, <3>5
  <2> QED
      BY <2>1, <1>AnswerLink
<1>ChecksumLink.
      ASSUME Link, getvar_checksum
      PROVE  Link'
  <2> USE <1>ChecksumLink
  <2> DEFINE v == mem["b0"]
             w == [i \in DOMAIN v |-> Zero]
             m == [mem EXCEPT !["b0"] = w]
  <2>1. /\ pc = "rx" /\ d_size = 0 /\ UNCHANGED <<save, d_size, step>> /\ Answers(m, OKAY)
      BY Zenon DEF getvar_checksum, handling, Answers, dlVars, lockVars
  <2>2. /\ Handling /\ save = NoSave /\ step = "idle" /\ mem \in [Buffers -> Seq(Cell)]
      BY <2>1, CommandHandled, Zenon
  <2>3. w \in Seq(Cell)
    <3>1. v \in Seq(Cell)
      BY <2>2, Zenon DEF Buffers
    <3>2. Len(v) \in Nat /\ DOMAIN v = 1..Len(v)
      BY <3>1
    <3> HIDE DEF v
    <3>3. w \in [1..Len(v) -> Cell]
      BY <3>2, <1>ZeroCell, Zenon
    <3> QED
      BY <3>2, <3>3, SeqDef
  <2>4. m \in [Buffers -> Seq(Cell)]
    <3> HIDE DEF w
    <3> QED
      BY <2>2, <2>3, Zenon
  <2> HIDE DEF m
  <2> QED
      BY <2>1, <2>2, <2>4, <1>AnswersLink
<1>AcceptLink.
      ASSUME Link, oem_unlock_accept
      PROVE  Link'
  <2> USE <1>AcceptLink
  <2>1. pc = "rx" /\ d_size = 0 /\ cmd.op = "unlock_accept" /\ UNCHANGED <<d_size, step>>
      BY Zenon DEF oem_unlock_accept, handling, Command, dlVars
  <2>2. \/ answer(FAIL) /\ UNCHANGED save
        \/ set_unlocked("1", "accept") /\ UNCHANGED <<usbVars, host>>
      BY Zenon DEF oem_unlock_accept, lockVars
  <2> QED
      BY <2>1, <2>2, <1>AnswerLink, <1>SetUnlockedLink
<1>LockLink.
      ASSUME Link, oem_lock
      PROVE  Link'
  <2> USE <1>LockLink
  <2>1. pc = "rx" /\ d_size = 0 /\ cmd.op = "lock" /\ UNCHANGED <<d_size, step>>
      BY Zenon DEF oem_lock, handling, dlVars
  <2>2. \/ answer(FAIL) /\ UNCHANGED save
        \/ set_unlocked("0", "lock") /\ UNCHANGED <<usbVars, host>>
      BY Zenon DEF oem_lock
  <2> QED
      BY <2>1, <2>2, <1>AnswerLink, <1>SetUnlockedLink
<1>HandleLeaveLink.
      ASSUME Link, handle_leave
      PROVE  Link'
  <2> USE <1>HandleLeaveLink
  <2>1. /\ pc = "rx" /\ d_size = 0 /\ UNCHANGED <<save, d_size, step>>
        /\ cmd.op \notin {"download", "flash"}
      BY Zenon DEF handle_leave, handling, dlVars, lockVars
  <2>2. \/ answer(FAIL)
        \/ /\ respond(OKAY) /\ pc' = "leave"
           /\ UNCHANGED <<configured, mem, inhand, rx, rxq, events, host>>
      BY Zenon DEF handle_leave
  <2>3. Handling /\ save = NoSave
      BY <2>1, CommandHandled, Zenon
  <2> QED
      BY <2>1, <2>2, <2>3, <1>AnswerLink, <1>LeaveLink
(* The download command: its first read is queued.                         *)
<1>DownloadLink.
      ASSUME DTypeOK, Link, handle_download
      PROVE  Link'
  <2> USE <1>DownloadLink
  <2> DEFINE img == cmd.img
             legacy == pending_ptn_name = "" \/ pending_ptn_name \in Verified
  <2>1. /\ pc = "rx" /\ d_size = 0 /\ cmd.op = "download" /\ UNCHANGED save
      BY Zenon DEF handle_download, handling, lockVars
  <2>2. /\ Handling /\ LinkType /\ save = NoSave /\ step = "idle" /\ cmd \in CommandType
      BY <2>1, CommandHandled, Zenon
  <2>3. CASE DownloadRefused(legacy) /\ answer(FAIL)
      BY <2>1, <2>3, <1>AnswerLink, Zenon DEF DownloadRefused
  <2>4. CASE /\ Download(img, legacy) /\ respond(DATA)
             /\ rxq' = Append(rxq, [len |-> Min2(img.len, TRANS), buf |-> "b0", off |-> 0])
             /\ rx' = NoRx /\ pc' = "loop"
             /\ UNCHANGED <<configured, mem, inhand, events, host>>
    <3>1. /\ rxq = <<>> /\ tx.status = "ok" /\ configured /\ host.phase = "resp"
          /\ host.script # <<>> /\ cmd = Head(host.script) /\ events = <<>>
      BY <2>1, <2>2, Zenon DEF Handling
    <3>2. cmd = [op |-> "download", img |-> img] /\ img \in Images
      BY <2>1, <2>2, Zenon DEF CommandType
    <3>3. /\ image' = img /\ d_size' = img.len /\ d_bytes' = 0 /\ d_status' = 0 /\ step' = "idle"
          /\ d_size' # 0
      <4>1. img.len \in Nat
        BY <3>2, ImageDownloadAssumption, Zenon DEF ImageType
      <4> HIDE DEF img, legacy
      <4> QED
        BY <2>2, <2>4, <4>1 DEF Download
    <3>4. tx' = [buffer |-> DATA, queued |-> TRUE, status |-> "busy"]
      BY <2>4, <3>1, Zenon DEF respond
    <3>5. tx' \in TxType
      BY <3>4, Zenon DEF TxType
    <3>6. NoRx \in RxType
      BY ImageDownloadAssumption DEF NoRx, RxType
    <3>7. LinkType'
      BY <2>1, <2>2, <2>4, <3>3, <3>5, <3>6, Zenon DEF LinkType
    <3>8. rxq' = <<[len |-> pieceLen(0)', buf |-> "b0", off |-> 0]>>
      <4>1. img.len \in Nat /\ TRANS \in Nat
        BY <3>2, ImageDownloadAssumption, Zenon DEF ImageType
      <4>2. Min2(img.len, TRANS) = pieceLen(0)'
        BY <3>3, <4>1 DEF pieceLen, Min2
      <4> HIDE DEF img, legacy
      <4> QED
        BY <2>4, <3>1, <4>2
    <3>9. host.sent = 0
      BY <2>1, <2>2, Zenon DEF Handling
    <3>10. Offered'
      BY <2>4, <3>1, <3>3, <3>4, <3>8, <3>9, Zenon DEF Offered
    <3>11. Downloading'
      BY <2>4, <3>1, <3>2, <3>3, <3>10, Zenon DEF Downloading
    <3> QED
      BY <3>3, <3>7, <3>11, Zenon DEF Link
  <2> QED
      BY <2>3, <2>4, Zenon DEF handle_download
<1>ReceiveLink.
      ASSUME DTypeOK, Link, receivePiece
      PROVE  Link'
  <2> USE <1>ReceiveLink
  <2>1. PICK pos \in 0..d_size, b \in Buffers :
           /\ HandsOver(pos, b) /\ pieceLen(pos) \in 1..TRANS /\ placeOf(pos) \in Nat
           /\ pos \in Nat /\ pos < d_size /\ b \in {"b0", "b1"}
      BY PieceHandedOver, Zenon
  <2>2. /\ Received /\ Downloading /\ LinkType /\ save = NoSave /\ d_size # 0
      BY PieceHandedOver, Zenon
  <2>3. d_size \in Nat /\ d_bytes \in Nat /\ TRANS \in Nat \ {0}
      BY ImageDownloadAssumption, Zenon DEF DTypeOK
  <2>4. /\ rxq = <<>> /\ events = <<>> /\ ~tx.queued /\ tx.status = "ok" /\ configured
        /\ Awaited(pos) /\ Loaded(pos, b)
      BY <2>1, <2>2, Zenon DEF Received, Downloading, HandsOver
  <2>5. /\ pc' = "data" /\ inhand' = b /\ length' = pieceLen(pos) /\ save' = NoSave
        /\ UNCHANGED <<configured, mem, tx, events, host, image, d_size, d_bytes, d_legacy>>
      BY <2>1, <2>2, Zenon DEF HandsOver, lockVars, Receive
  <2>6. step' # "idle" /\ (d_legacy => UNCHANGED d_status)
      BY <2>1, Zenon DEF HandsOver, Receive, handleDownload, Failed, startDownload, progress
  <2> DEFINE n == pieceLen(pos)
             b2 == IF d_legacy THEN b ELSE otherBuffer(b)
  <2>7. CASE d_size - d_bytes - n > 0
    <3>1. /\ d_status = 0 /\ pos = d_bytes /\ n = TRANS /\ d_bytes + n < d_size
      BY <2>1, <2>3, <2>4, <2>7 DEF Awaited, pieceLen, Min2
    <3>2. /\ rxq' = <<[len |-> Min2(d_size - d_bytes - n, TRANS), buf |-> b2,
                       off |-> IF d_legacy THEN placeOf(pos) + n ELSE 0]>>
          /\ rx' = NoRx
      BY <2>1, <2>4, <2>7 DEF HandsOver
    <3>3. Min2(d_size - d_bytes - n, TRANS) = pieceLen(d_bytes + n)
      <4>1. d_size - d_bytes - n = d_size - (d_bytes + n)
        BY <2>1, <2>3
      <4> HIDE DEF n
      <4> QED
        BY <2>3, <3>1, <4>1 DEF pieceLen, Min2
    <3>4. (IF d_legacy THEN placeOf(pos) + n ELSE 0) = placeOf(d_bytes + n)
      BY <3>1, Zenon DEF placeOf
    <3>5. rxq' = <<[len |-> pieceLen(d_bytes + n), buf |-> b2, off |-> placeOf(d_bytes + n)]>>
      BY <3>2, <3>3, <3>4, Zenon
    <3>6. PieceBuffer(b2) /\ (~d_legacy => b2 # b) /\ b2 \in Buffers
      BY <2>1, <2>4, Zenon DEF Loaded, PieceBuffer, otherBuffer, Buffers
    <3>7. Len(mem[b2]) >= placeOf(d_bytes + n)
      <4>1. CASE d_legacy
        BY <2>4, <3>1, <4>1, Zenon DEF Loaded, placeOf
      <4>2. CASE ~d_legacy
        <5>1. mem[b2] \in Seq(ByteType \cup CommandType)
          BY <2>2, <3>6, Zenon DEF LinkType
        <5>2. Len(mem[b2]) \in Nat
          BY <5>1, LenProperties, Zenon
        <5> QED
          BY <4>2, <5>2 DEF placeOf
      <4> QED
        BY <4>1, <4>2, Zenon
    <3>8. host.phase = "data" /\ host.sent = d_bytes + n
      <4>1. pos + n # d_size
        BY <2>3, <3>1
      <4> QED
        BY <2>4, <3>1, <4>1, Zenon DEF Loaded
    <3> HIDE DEF n, b2
    <3>9. Coming(d_bytes + n, b2, <<>>)'
      <4>1. d_bytes' + n' = d_bytes + n
        BY <2>5, Zenon DEF n, pieceLen
      <4>2. pieceLen(d_bytes + n)' = pieceLen(d_bytes + n) /\ placeOf(d_bytes + n)' = placeOf(d_bytes + n)
        BY <2>5, <4>1, Zenon DEF pieceLen, placeOf
      <4>3. b2' = b2
        BY <2>5, Zenon DEF b2, otherBuffer
      <4> QED
        BY <2>4, <2>5, <3>1, <3>2, <3>5, <3>6, <3>7, <3>8, <4>1, <4>2, <4>3 DEF Coming, PieceBuffer
    <3>10. /\ length' = n /\ n \in 1..TRANS /\ d_bytes' + length' < d_size'
           /\ d_bytes' + length' = (d_bytes + n)'
      BY <2>1, <2>5, <3>1, Zenon DEF n, pieceLen
    <3>11. Storing'
      <4>1. b2' = b2
        BY <2>5 DEF b2, otherBuffer
      <4>2. Coming(d_bytes + length, b2, <<>>)'
        BY <3>9, <3>10, Zenon
      <4>3. length' = TRANS
        BY <3>1, <3>10, Zenon
      <4> QED
        BY <2>1, <2>4, <2>5, <2>6, <3>6, <3>10, <4>1, <4>2, <4>3 DEF Storing
    <3>12. NoRx \in RxType
      BY ImageDownloadAssumption DEF NoRx, RxType
    <3>13. LinkType'
      BY <2>2, <2>5, <2>6, <3>2, <3>12, Zenon DEF LinkType
    <3> QED
      BY <2>2, <2>5, <3>11, <3>13, Zenon DEF Link, Downloading
  <2>8. CASE ~ (d_size - d_bytes - n > 0)
    <3>1. UNCHANGED <<rx, rxq>> /\ rx.buf = b
      BY <2>1, <2>8, Zenon DEF HandsOver, given
    <3>2. pos + n = d_size /\ ~ (d_bytes + n < d_size)
      BY <2>1, <2>3, <2>4, <2>8 DEF Awaited, pieceLen, Min2
    <3>3. host.phase = "resp"
      BY <2>4, <3>2, Zenon DEF Loaded
    <3>4. Storing'
      BY <2>1, <2>4, <2>5, <2>6, <3>1, <3>2, <3>3, Zenon DEF Storing
    <3>5. LinkType'
      BY <2>2, <2>5, <2>6, <3>1, Zenon DEF LinkType
    <3> QED
      BY <2>2, <2>5, <3>4, <3>5 DEF Link, Downloading
  <2> QED
      BY <2>7, <2>8, Zenon
<1>StoreLink.
      ASSUME DInv, Link, storePiece
      PROVE  Link'
  <2> USE <1>StoreLink
  <2>1. /\ pc = "data" /\ UNCHANGED <<pending_ptn_name, lockVars, usbVars, pc, host>>
        /\ \E ok \in BOOLEAN : handleDirectDownload(ok) \/ handleSparseDownload
      BY Zenon DEF storePiece
  <2>2. LinkType /\ Downloading /\ Storing /\ d_size # 0 /\ save = NoSave
      BY <2>1, PieceStored, Zenon
  <2>3. /\ UNCHANGED <<image, pending_ptn, d_size, d_bytes, d_legacy, length>>
        /\ step' # "idle" /\ step \in {"direct", "chunk"}
      BY <2>1, Zenon DEF handleDirectDownload, handleSparseDownload, Failed
  <2>4. ~d_legacy
      BY <2>3, Zenon DEF DInv
  <2>5. LinkType'
      BY <2>1, <2>2, <2>3, <2>4, Zenon DEF LinkType, usbVars, lockVars
  <2>6. Storing'
      BY <2>1, <2>2, <2>3
         DEF Storing, Coming, Loaded, PieceBuffer, pieceLen, placeOf, usbVars
  <2> QED
      BY <2>1, <2>2, <2>3, <2>5, <2>6, Zenon DEF Link, Downloading, usbVars
<1>FinishLink.
      ASSUME FullInv, FailsLate, Link, finishPiece
      PROVE  Link'
  <2> USE <1>FinishLink
  <2>1. /\ pc = "data" /\ Finish /\ pc' = "loop" /\ inhand' = "none"
        /\ UNCHANGED <<pending_ptn_name, lockVars, configured, events, host>>
      BY Zenon DEF finishPiece
  <2>2. LinkType /\ Downloading /\ Storing /\ d_size # 0 /\ save = NoSave
      BY <2>1, PieceStored, Zenon
  <2>3. /\ step = "done" /\ step' = "idle"
        /\ UNCHANGED <<image, d_legacy, d_status, length>>
      BY <2>1, Zenon DEF Finish, progress
  <2>4. /\ d_size \in Nat /\ d_bytes \in Nat /\ length \in Nat /\ TRANS \in Nat
        /\ d_status \in {-1, 0, 1}
      BY ImageDownloadAssumption, Zenon DEF FullInv, DInv, DTypeOK
  <2>5. CASE d_bytes + length < d_size
    <3>1. PICK b \in Buffers : Coming(d_bytes + length, b, <<>>)
      BY <2>2, <2>5, Zenon DEF Storing
    <3>2. length = TRANS /\ ~tx.queued /\ tx.status = "ok"
      BY <2>2, <2>5, Zenon DEF Storing
    <3>3. d_status \in {0, -1}
      <4>1. CASE d_legacy
        BY <2>2, <4>1, Zenon DEF LinkType
      <4>2. CASE ~d_legacy
        BY <2>3, <2>4, <2>5, <4>2 DEF FullInv, EndInv
      <4> QED
        BY <4>1, <4>2, Zenon
    <3>4. moreToCome
      BY <2>5, <3>3 DEF moreToCome
    <3>5. /\ d_size' = d_size /\ UNCHANGED <<mem, rx, rxq, tx>>
          /\ d_bytes' = d_bytes + length + (IF d_status < 0 THEN length ELSE 0)
      BY <2>1, <3>4, Zenon DEF Finish, finishPiece
    <3>6. LinkType'
      BY <2>1, <2>2, <2>3, <3>5, Zenon DEF LinkType, lockVars
    <3> DEFINE pos == d_bytes + length
    <3>7. pos \in 0..d_size
      BY <2>4, <2>5
    <3>8. \A p \in 0..d_size : p = pos => Awaited(p)'
      <4>1. CASE d_status = 0
        BY <2>3, <2>4, <3>5, <4>1 DEF Awaited
      <4>2. CASE d_status = -1
        BY <2>3, <2>4, <3>2, <3>5, <4>2 DEF Awaited, FailsLate
      <4> QED
        BY <3>3, <4>1, <4>2, Zenon
    <3> HIDE DEF pos
    <3>9. Coming(pos, b, <<>>)
      BY <3>1, Zenon DEF pos
    <3>10. \A p \in 0..d_size : p = pos => Coming(p, b, <<>>)'
      BY <2>1, <2>3, <3>5, <3>9, Zenon DEF Coming, Loaded, PieceBuffer, pieceLen, placeOf
    <3>11. Awaiting'
      BY <2>1, <2>3, <3>2, <3>5, <3>7, <3>8, <3>10, Zenon DEF Awaiting
    <3> QED
      BY <2>1, <2>2, <2>3, <3>5, <3>6, <3>11, Zenon DEF Link, Downloading
  <2>6. CASE ~ (d_bytes + length < d_size)
    <3>1. ~moreToCome
      BY <2>6, Zenon DEF moreToCome
    <3>2. /\ d_size' = 0 /\ \E r \in {OKAY, FAIL} : respond(r)
          /\ clearAndListen(mem)
      BY <2>1, <3>1, Zenon DEF Finish, finishPiece
    <3>3. PICK r \in {OKAY, FAIL} : respond(r)
      BY <3>2, Zenon
    <3>4. /\ rxq = <<>> /\ events = <<>> /\ host.phase = "resp" /\ rx.buf \in Buffers
          /\ tx.status = "ok" /\ host.script # <<>> /\ configured
      BY <2>2, <2>6, Zenon DEF Storing, Downloading, Buffers
    <3>5. mem' \in [Buffers -> Seq(Cell)]
      BY <2>2, <3>2, <3>4, <1>ClearKeepsType, Zenon DEF LinkType, Cell
    <3>6. rx' = NoRx /\ rxq' = <<commandRead>>
      BY <3>2, <3>4 DEF clearAndListen
    <3>7. tx' = [buffer |-> r, queued |-> TRUE, status |-> "busy"]
      BY <3>3, <3>4, Zenon DEF respond
    <3>8. tx' \in TxType /\ tx'.queued = TRUE /\ tx'.status = "busy" /\ tx'.buffer = r
      BY <3>7, Zenon DEF TxType
    <3>9. NoRx \in RxType
      BY ImageDownloadAssumption DEF NoRx, RxType
    <3>10. LinkType'
      BY <2>1, <2>2, <3>2, <3>5, <3>6, <3>8, <3>9, Zenon DEF LinkType, Cell, lockVars
    <3>11. Listening'
      BY <2>1, <3>4, <3>6, <3>8, Zenon DEF Listening
    <3> QED
      BY <2>3, <3>2, <3>10, <3>11, Zenon DEF Link
  <2> QED
      BY <2>5, <2>6, Zenon
(* saveenv, and what follows it.                                           *)
<1>SaveLink.
      ASSUME Link, saveenv
      PROVE  Link'
  <2> USE <1>SaveLink
  <2>1. /\ pc \in {"save", "save2"} /\ UNCHANGED <<d_size, step>>
      BY Zenon DEF saveenv, dlVars
  <2>2. LinkType /\ d_size = 0 /\ step = "idle" /\ (Handling \/ Unplugged)
      BY <2>1, Zenon DEF Link, Listening, Sent, Resetting, Leaving, Downloading, Offered, Awaiting,
                  Received, Storing
  <2>3. /\ save \in [val : {"0", "1"}, by : {"lock", "accept", "init"}]
        /\ configured <=> save.by # "init"
        /\ mem \in [Buffers -> Seq(Cell)]
      BY <2>1, <2>2, Zenon DEF LinkType, Cell
  <2>4. CASE pc' = "save2" /\ UNCHANGED <<save, usbVars, host>>
    <3>1. LinkType'
      BY <2>1, <2>2, <2>4, Zenon DEF LinkType, usbVars
    <3>2. Handling' \/ Unplugged'
      BY <2>1, <2>2, <2>4, Zenon DEF Handling, Unplugged, cmd, usbVars
    <3> QED
      BY <2>1, <2>2, <3>1, <3>2, Zenon DEF Link
  <2>5. CASE saved
    <3>1. save' = NoSave
      BY <2>5, Zenon DEF saved
    <3>2. CASE save.by = "lock"
      <4>1. answer(OKAY) /\ Handling
        BY <2>2, <2>3, <2>5, <3>2, Zenon DEF saved, Unplugged
      <4>2. Answers(mem, OKAY)
        BY <4>1, Zenon DEF answer, Answers
      <4> QED
        BY <2>1, <2>2, <2>3, <3>1, <4>1, <4>2, <1>AnswersLink, Zenon
    <3>3. CASE save.by = "accept"
      <4>1. /\ respond(OKAY) /\ pc' = "leave" /\ Handling
            /\ UNCHANGED <<configured, mem, inhand, rx, rxq, events, host>>
        BY <2>2, <2>3, <2>5, <3>3, Zenon DEF saved, Unplugged
      <4>2. cmd.op \notin {"download", "flash"}
        BY <2>1, <4>1, Zenon DEF Handling
      <4> QED
        BY <2>1, <2>2, <3>1, <4>1, <4>2, <1>LeaveLink, Zenon
    <3>4. CASE save.by = "init"
      <4>1. pc' = "loop" /\ UNCHANGED <<usbVars, host>> /\ Unplugged
        BY <2>2, <2>3, <2>5, <3>4, Zenon DEF saved, Handling
      <4>2. LinkType'
        BY <2>1, <2>2, <3>1, <4>1, Zenon DEF LinkType, usbVars
      <4>3. Unplugged'
        BY <2>1, <4>1, Zenon DEF Unplugged, usbVars
      <4> QED
        BY <2>1, <2>2, <4>2, <4>3, Zenon DEF Link
    <3> QED
      BY <2>3, <3>2, <3>3, <3>4, Zenon
  <2> QED
      BY <2>4, <2>5, Zenon DEF saveenv
<1>TurnOffLink.
      ASSUME turnOff
      PROVE  Link'
  <2> USE <1>TurnOffLink
  <2>1. /\ pc' = "off" /\ d_size' = 0 /\ step' = "idle" /\ save' = NoSave
        /\ configured' = FALSE /\ mem' = NoData /\ rx' = NoRx /\ rxq' = <<>> /\ events' = <<>>
        /\ tx' = [buffer |-> "none", queued |-> FALSE, status |-> "ok"] /\ host' = idleHost
      BY Zenon DEF turnOff, Restart
  <2>2. tx'.queued = FALSE
      BY <2>1, Zenon
  <2>3. LinkType'
      BY <2>1, IdleTypes, Zenon DEF LinkType
  <2>4. Unplugged'
      BY <2>1, <2>2, Zenon DEF Unplugged
  <2> QED
      BY <2>1, <2>3, <2>4, Zenon DEF Link
<1>PowerOnLink.
      ASSUME Link, powerOn
      PROVE  Link'
  <2> USE <1>PowerOnLink
  <2>1. /\ pc = "off" /\ UNCHANGED <<dlVars, usbVars, host>>
        /\ \/ pc' = "save" /\ save' = [val |-> "0", by |-> "init"]
           \/ pc' = "loop" /\ UNCHANGED save
      BY DEF powerOn, set_unlocked
  <2>2. d_size = 0 /\ step = "idle" /\ LinkType /\ Unplugged /\ save = NoSave
      BY <2>1, Zenon DEF Link, LinkType, Listening, Sent, Handling, Resetting, Leaving, Downloading,
                  Offered, Awaiting, Received, Storing
  <2>3. ~configured
      BY <2>2, Zenon DEF Unplugged
  <2>4. LinkType'
      BY <2>1, <2>2, <2>3 DEF LinkType, usbVars, dlVars
  <2>5. Unplugged'
      BY <2>1, <2>2, Zenon DEF Unplugged, usbVars
  <2> QED
      BY <2>1, <2>2, <2>4, <2>5, Zenon DEF Link, dlVars
(* The kernel and the clock do not touch the link.                         *)
<1>AsideLink.
      ASSUME Link, runKernel \/ unlockExpires \/ UNCHANGED vars
      PROVE  Link'
  <2> USE <1>AsideLink
  <2>1. UNCHANGED <<configured, mem, inhand, rx, rxq, tx, events, pc, host, save, image,
                    d_size, d_bytes, d_legacy, d_status, length, step>>
      BY Zenon DEF runKernel, unlockExpires, vars, Command, dlVars, progress, usbVars, lockVars
  <2>2. LinkType'
      BY <2>1, Zenon DEF Link, LinkType
  <2>3. CASE d_size = 0
    <3>1. Unplugged => Unplugged'
      BY <2>1, Zenon DEF Unplugged
    <3>2. Listening => Listening'
      BY <2>1, Zenon DEF Listening
    <3>3. Sent => Sent'
      BY <2>1, Zenon DEF Sent
    <3>4. Handling => Handling'
      BY <2>1, Zenon DEF Handling, cmd
    <3>5. Resetting => Resetting'
      BY <2>1, Zenon DEF Resetting
    <3>6. Leaving => Leaving'
      BY <2>1, Zenon DEF Leaving
    <3> QED
      BY <2>1, <2>2, <2>3, <3>1, <3>2, <3>3, <3>4, <3>5, <3>6 DEF Link
  <2>4. CASE d_size # 0
    <3>1. \A pos : /\ pieceLen(pos)' = pieceLen(pos) /\ placeOf(pos)' = placeOf(pos)
                   /\ Awaited(pos)' = Awaited(pos)
      BY <2>1, Zenon DEF pieceLen, placeOf, Awaited
    <3>2. \A pos, b : Loaded(pos, b)' = Loaded(pos, b) /\ PieceBuffer(b)' = PieceBuffer(b)
      BY <2>1, <3>1 DEF Loaded, PieceBuffer
    <3>3. \A pos, b, E : Coming(pos, b, E) => Coming(pos, b, E)'
      BY <2>1, <3>1, <3>2 DEF Coming
    <3>4. Offered => Offered'
      BY <2>1, <3>1, Zenon DEF Offered
    <3>5. Awaiting => Awaiting'
      BY <2>1, <3>1, <3>3, Zenon DEF Awaiting
    <3>6. Received => Received'
      BY <2>1, <3>1, <3>2, Zenon DEF Received
    <3>7. Storing => Storing'
      BY <2>1, <3>3, Zenon DEF Storing
    <3> QED
      BY <2>1, <2>2, <2>4, <3>4, <3>5, <3>6, <3>7 DEF Link, Downloading
  <2> QED
      BY <2>3, <2>4, Zenon
<1>HostMovesType.
      ASSUME LinkType, hostMoves, configured' = configured,
             mem' \in [Buffers -> Seq(ByteType \cup CommandType)], rx' = rx,
             tx' \in TxType, host' \in HostType
      PROVE  LinkType'
  <2> USE <1>HostMovesType
  <2>1. UNCHANGED <<d_size, d_legacy, d_status, pc, save>>
      BY Zenon DEF hostMoves, dlVars, progress, lockVars
  <2> QED
      BY <2>1, Zenon DEF LinkType
<1>ConfigureLink.
      ASSUME Link, hostConfigure
      PROVE  Link'
  <2> USE <1>ConfigureLink
  <2>1. /\ pc \notin {"off", "leave"} /\ ~configured /\ events' = <<ConfiguredEvent>>
        /\ host' = idleHost /\ hostMoves
        /\ UNCHANGED <<configured, mem, inhand, rx, rxq, tx>>
      BY Zenon DEF hostConfigure, attached, ConfiguredEvent
  <2>2. UNCHANGED <<d_size, step, pc>>
      BY <2>1, Zenon DEF hostMoves, dlVars
  <2>3. LinkType /\ Unplugged /\ d_size = 0 /\ step = "idle"
      BY <2>1, Zenon DEF Link, Listening, Sent, Handling, Resetting, Leaving, Downloading
  <2>4. LinkType'
      BY <2>1, <2>3, IdleTypes, <1>HostMovesType, Zenon DEF LinkType
  <2>5. Unplugged'
      BY <2>1, <2>2, <2>3, Zenon DEF Unplugged
  <2> QED
      BY <2>2, <2>3, <2>4, <2>5, Zenon DEF Link
<1>ResetLink.
      ASSUME Link, hostReset
      PROVE  Link'
  <2> USE <1>ResetLink
  <2>1. /\ pc \notin {"off", "leave"} /\ configured /\ events' = Append(events, ResetEvent)
        /\ host' = resetHost /\ hostMoves
        /\ UNCHANGED <<configured, mem, inhand, rx, rxq, tx>>
        /\ \/ host.phase = "idle"
           \/ host.phase = "resp" /\ Head(host.script).op # "download"
      BY Zenon DEF hostReset, attached, ResetEvent, resetHost
  <2>2. UNCHANGED <<d_size, step, pc>>
      BY <2>1, Zenon DEF hostMoves, dlVars
  <2>3. ~Downloading
    <3> SUFFICES ASSUME Downloading PROVE FALSE
      BY Zenon
    <3>1. host.phase = "resp" \/ host.phase = "data"
      BY Zenon DEF Downloading, Offered, Awaiting, Received, Storing, Coming, Loaded
    <3> QED
      BY <2>1, <3>1 DEF Downloading
  <2>4. LinkType /\ d_size = 0 /\ step = "idle" /\ (Listening \/ Sent \/ Handling)
      BY <2>1, <2>3, IdleTypes, Zenon DEF Link, Unplugged, Resetting, Leaving
  <2>5. LinkType'
      BY <2>1, <2>4, IdleTypes, <1>HostMovesType, Zenon DEF LinkType
  <2>6. CASE Listening
    <3>1. events \in {<<>>, <<TxEvent>>} /\ rxq = <<commandRead>> /\ pc = "loop"
      BY <2>6, Zenon DEF Listening
    <3>2. events' \in {<<ResetEvent>>, <<TxEvent, ResetEvent>>}
      BY <2>1, <3>1, AppendEvent, Zenon
    <3>3. Resetting'
      BY <2>1, <2>2, <3>1, <3>2, Zenon DEF Resetting
    <3> QED
      BY <2>2, <2>4, <2>5, <3>3, Zenon DEF Link
  <2>7. CASE Sent
    <3>1. /\ events \in {<<rxEvent(1, "rx", 0)>>, <<TxEvent, rxEvent(1, "rx", 0)>>}
          /\ rxq = <<>> /\ pc = "loop"
      BY <2>7, Zenon DEF Sent
    <3>2. events' \in {<<rxEvent(1, "rx", 0), ResetEvent>>,
                       <<TxEvent, rxEvent(1, "rx", 0), ResetEvent>>}
      BY <2>1, <3>1, AppendEvent, Zenon
    <3>3. Resetting'
      BY <2>1, <2>2, <3>1, <3>2, Zenon DEF Resetting
    <3> QED
      BY <2>2, <2>4, <2>5, <3>3 DEF Link
  <2>8. CASE Handling
    <3>1. events = <<>> /\ cmd.op # "download"
      BY <2>1, <2>8, IdleTypes, Zenon DEF Handling
    <3>2. events' = <<ResetEvent>>
      BY <2>1, <3>1
    <3>3. Handling'
      BY <2>1, <2>2, <2>8, <3>1, <3>2, Zenon DEF Handling, cmd
    <3> QED
      BY <2>2, <2>4, <2>5, <3>3, Zenon DEF Link
  <2> QED
      BY <2>4, <2>6, <2>7, <2>8, Zenon
<1>StartLink.
      ASSUME Link, hostStart
      PROVE  Link'
  <2> USE <1>StartLink
  <2>1. PICK script \in Scripts : host' = [host EXCEPT !.script = script]
      BY Zenon DEF hostStart
  <2>2. /\ pc \notin {"off", "leave"} /\ configured /\ host = idleHost /\ hostMoves
        /\ UNCHANGED <<configured, mem, inhand, rx, rxq, tx, events>>
      BY Zenon DEF hostStart, attached, usbVars
  <2>3. UNCHANGED <<d_size, step, pc>>
      BY <2>2, Zenon DEF hostMoves, dlVars
  <2>4. ~Downloading
      BY <2>2, IdleTypes, Zenon DEF Downloading
  <2>5. LinkType /\ d_size = 0 /\ step = "idle" /\ Listening
      BY <2>2, <2>4, IdleTypes DEF Link, Unplugged, Sent, Handling, Resetting, Leaving
  <2>6. host' \in HostType /\ host'.phase = "idle"
    <3>1. script \in Seq(CommandType)
      BY FastbootAssumption, Zenon
    <3>2. host' = [phase |-> "idle", script |-> script, sent |-> 0]
      BY <2>1, <2>2, Zenon DEF idleHost
    <3> QED
      BY <3>1, <3>2, Zenon DEF HostType
  <2>7. LinkType'
      BY <2>2, <2>5, <2>6, <1>HostMovesType, Zenon DEF LinkType
  <2>8. Listening'
      BY <2>2, <2>3, <2>5, <2>6, IdleTypes, Zenon DEF Listening
  <2> QED
      BY <2>3, <2>5, <2>7, <2>8, Zenon DEF Link
(* A transfer into the buffer of the read that is queued.                  *)
<1>Transferred.
      ASSUME LinkType, NEW n \in Nat, NEW b \in Buffers, NEW o \in Nat,
             rxq = <<[len |-> n, buf |-> b, off |-> o]>>,
             Len(mem[b]) >= o,
             NEW content \in Seq(ByteType \cup CommandType), transfer(content)
      PROVE  /\ rxq' = <<>> /\ events' = Append(events, rxEvent(Len(content), b, o))
             /\ mem' \in [Buffers -> Seq(ByteType \cup CommandType)]
             /\ Len(mem'[b]) = o + Len(content)
             /\ SubSeq(mem'[b], o + 1, o + Len(content)) = content
             /\ mem'[b] = SubSeq(mem[b], 1, o) \o content
             /\ hostMoves /\ UNCHANGED <<configured, inhand, rx, tx>>
  <2> USE <1>Transferred
  <2> DEFINE C == ByteType \cup CommandType
             v == SubSeq(mem[b], 1, o)
  <2>1. Head(rxq) = [len |-> n, buf |-> b, off |-> o] /\ Tail(rxq) = <<>>
      OBVIOUS
  <2>2. /\ mem' = [mem EXCEPT ![b] = v \o content] /\ rxq' = <<>>
        /\ events' = Append(events, rxEvent(Len(content), b, o))
        /\ hostMoves /\ UNCHANGED <<configured, inhand, rx, tx>>
    <3> DEFINE r == Head(rxq)
    <3>1. r.buf = b /\ r.off = o
      BY <2>1
    <3>2. /\ mem' = [mem EXCEPT ![r.buf] = SubSeq(mem[r.buf], 1, r.off) \o content]
          /\ rxq' = Tail(rxq)
          /\ events' = Append(events, rxEvent(Len(content), r.buf, r.off))
          /\ hostMoves /\ UNCHANGED <<configured, inhand, rx, tx>>
      BY Zenon DEF transfer, rxEvent
    <3> HIDE DEF r
    <3> QED
      BY <2>1, <3>1, <3>2, Zenon
  <2>3. mem \in [Buffers -> Seq(C)]
      BY Zenon DEF LinkType
  <2> HIDE DEF C
  <2>4. mem[b] \in Seq(C) /\ content \in Seq(C)
      BY <2>3, Zenon DEF C
  <2>5. v \in Seq(C) /\ Len(v) = o
    <3>1. \A i \in 1..o : mem[b][i] \in C
      BY <2>4, ElementOfSeq, LenProperties
    <3>2. 1 \in Int /\ o \in Int /\ (IF 1 <= o THEN o - 1 + 1 ELSE 0) = o
      OBVIOUS
    <3>3. /\ SubSeq(mem[b], 1, o) \in Seq(C)
          /\ Len(SubSeq(mem[b], 1, o)) = IF 1 <= o THEN o - 1 + 1 ELSE 0
      <4> DEFINE w == mem[b]
      <4> HIDE DEF w
      <4>1. \A i \in 1..o : w[i] \in C
        BY <3>1, Zenon DEF w
      <4>2. /\ SubSeq(w, 1, o) \in Seq(C)
            /\ Len(SubSeq(w, 1, o)) = IF 1 <= o THEN o - 1 + 1 ELSE 0
        BY <3>2, <4>1, SubSeqProperties
      <4> QED
        BY <4>2, Zenon DEF w
    <3> QED
      BY <3>3, <3>2
  <2> HIDE DEF v
  <2>6. v \o content \in Seq(C) /\ Len(v \o content) = o + Len(content)
      BY <2>4, <2>5, ConcatProperties, Zenon
  <2>7. mem' \in [Buffers -> Seq(C)] /\ mem'[b] = v \o content
      BY <2>2, <2>3, <2>6, Zenon
  <2>8. SubSeq(v \o content, o + 1, o + Len(content)) = content
    <3>1. Len(content) \in Nat
      BY <2>4, LenProperties, Zenon
    <3> QED
      BY <2>4, <2>5, <2>6, <3>1
  <2> QED
      BY <2>2, <2>6, <2>7, <2>8, Zenon DEF C, v
<1>CommandLink.
      ASSUME Link, hostCommand
      PROVE  Link'
  <2> USE <1>CommandLink
  <2> DEFINE c == Head(host.script)
  <2>1. /\ pc \notin {"off", "leave"} /\ host.phase = "idle" /\ host.script # <<>> /\ rxq # <<>>
        /\ transfer(<<c>>) /\ host' = [host EXCEPT !.phase = "resp", !.sent = 0]
      BY Zenon DEF hostCommand, attached
  <2>2. ~Downloading
      BY <2>1, Zenon DEF Downloading, Offered, Awaiting, Received, Storing, Coming, Loaded
  <2>3. LinkType /\ d_size = 0 /\ step = "idle" /\ Listening
      BY <2>1, <2>2, IdleTypes DEF Link, Unplugged, Sent, Handling, Resetting, Leaving
  <2>4. /\ rxq = <<[len |-> CMD, buf |-> "rx", off |-> 0]>> /\ configured /\ rx = NoRx /\ pc = "loop"
        /\ ~tx.queued
        /\ \/ events = <<>> /\ tx.status = "ok"
           \/ events = <<TxEvent>> /\ tx.status = "busy"
      BY <2>1, <2>3, Zenon DEF Listening, commandRead
  <2>5. host \in HostType /\ host.script \in Seq(CommandType)
      BY <2>3, Zenon DEF LinkType, HostType
  <2>6. c \in CommandType /\ <<c>> \in Seq(ByteType \cup CommandType) /\ Len(<<c>>) = 1
      BY <2>1, <2>5, HeadTailProperties
  <2>7. CMD \in Nat /\ "rx" \in Buffers /\ Len(mem["rx"]) >= 0
    <3>1. mem["rx"] \in Seq(ByteType \cup CommandType)
      BY <2>3, Zenon DEF LinkType, Buffers
    <3>2. Len(mem["rx"]) \in Nat
      BY <3>1, LenProperties, Zenon
    <3>3. CMD \in Nat /\ "rx" \in Buffers
      BY FastbootAssumption, Zenon DEF Buffers
    <3> QED
      BY <3>2, <3>3
  <2> HIDE DEF c
  <2>8. /\ rxq' = <<>> /\ events' = Append(events, rxEvent(1, "rx", 0))
        /\ mem' \in [Buffers -> Seq(ByteType \cup CommandType)]
        /\ mem'["rx"] = SubSeq(mem["rx"], 1, 0) \o <<c>>
        /\ hostMoves /\ UNCHANGED <<configured, inhand, rx, tx>>
    <3> DEFINE w == <<c>>
    <3>1. w \in Seq(ByteType \cup CommandType) /\ Len(w) = 1 /\ transfer(w) /\ 0 \in Nat
      BY <2>1, <2>6, Zenon DEF w
    <3> HIDE DEF w
    <3>2. /\ rxq' = <<>> /\ events' = Append(events, rxEvent(Len(w), "rx", 0))
          /\ mem' \in [Buffers -> Seq(ByteType \cup CommandType)]
          /\ mem'["rx"] = SubSeq(mem["rx"], 1, 0) \o w
          /\ hostMoves /\ UNCHANGED <<configured, inhand, rx, tx>>
      BY <2>3, <2>4, <2>7, <3>1, <1>Transferred, Zenon
    <3> QED
      BY <3>1, <3>2, Zenon DEF w
  <2>9. mem'["rx"] = <<c>>
    <3>1. SubSeq(mem["rx"], 1, 0) = <<>>
      <4>1. mem["rx"] \in Seq(ByteType \cup CommandType)
        BY <2>3 DEF LinkType, Buffers
      <4> QED
        BY <4>1, SubSeqEmpty
    <3> QED
      BY <2>6, <2>8, <3>1, ConcatEmptySeq, Zenon
  <2>10. UNCHANGED <<d_size, step, pc>>
      BY <2>8, Zenon DEF hostMoves, dlVars
  <2>11. /\ host' \in HostType /\ host'.phase = "resp" /\ host'.sent = 0
         /\ host'.script = host.script
      BY <2>1, <2>5, Zenon DEF HostType
  <2>12. LinkType'
      BY <2>3, <2>8, <2>11, <1>HostMovesType, Zenon DEF LinkType
  <2>13. Sent'
    <3>1. \/ events' = <<rxEvent(1, "rx", 0)>> /\ tx.status = "ok"
          \/ events' = <<TxEvent, rxEvent(1, "rx", 0)>> /\ tx.status = "busy"
      BY <2>4, <2>8, AppendEvent, Zenon
    <3> QED
      BY <2>1, <2>4, <2>8, <2>9, <2>10, <2>11, <3>1, Zenon DEF Sent, c
  <2> QED
      BY <2>3, <2>10, <2>12, <2>13, Zenon DEF Link
(* The next piece arrives in the buffer that awaits it.                    *)
<1>PieceArrives.
      ASSUME DInv, LinkType, d_size # 0, Downloading, hostData,
             NEW pos \in Nat, NEW b \in Buffers, NEW E, Coming(pos, b, E)
      PROVE  /\ Coming(pos, b, E)' /\ hostMoves /\ UNCHANGED <<configured, inhand, rx, tx>>
             /\ LinkType' /\ host'.script = host.script
  <2> USE <1>PieceArrives
  <2>1. /\ host.phase = "data" /\ rxq # <<>>
      BY Zenon DEF hostData
  <2>2. /\ rx = NoRx /\ PieceBuffer(b) /\ pos < d_size
        /\ rxq = <<[len |-> pieceLen(pos), buf |-> b, off |-> placeOf(pos)]>>
        /\ events = E /\ Len(mem[b]) >= placeOf(pos) /\ host.sent = pos
      BY <2>1, Zenon DEF Coming
  <2>3. /\ d_size \in Nat /\ TRANS \in Nat \ {0} /\ d_size = image.len /\ image \in Images
      BY ImageDownloadAssumption, Zenon DEF DInv, DTypeOK
  <2>4. Head(host.script).img = image
      BY DEF Downloading
  <2>5. PICK k \in Nat, o \in Nat : k = pieceLen(pos) /\ o = placeOf(pos)
      BY <2>2, <2>3 DEF pieceLen, placeOf, Min2
  <2>6. k > 0 /\ k <= d_size - pos
      BY <2>2, <2>3, <2>5 DEF pieceLen, Min2
  <2>7. Min2(Head(rxq).len, image.len - host.sent) = k
    <3>1. Head(rxq).len = k
      BY <2>2, <2>5
    <3> QED
      BY <2>2, <2>3, <2>6, <3>1 DEF Min2
  <2>8. PICK w : w = Slice(image, pos, k)
      BY Zenon
  <2>9. w \in Seq(ByteType) /\ Len(w) = k
      BY <2>3, <2>8, SliceProps, Zenon
  <2>10. w \in Seq(ByteType \cup CommandType)
      BY <2>9
  <2>11. /\ transfer(w)
         /\ host' = [host EXCEPT !.sent = @ + k,
                                 !.phase = IF pos + k = d_size THEN "resp" ELSE "data"]
      BY <2>2, <2>3, <2>4, <2>7, <2>8, Zenon DEF hostData
  <2>12. rxq = <<[len |-> k, buf |-> b, off |-> o]>> /\ Len(mem[b]) >= o
      BY <2>2, <2>5, Zenon
  <2>13. /\ rxq' = <<>> /\ events' = Append(events, rxEvent(Len(w), b, o))
         /\ mem' \in [Buffers -> Seq(ByteType \cup CommandType)]
         /\ Len(mem'[b]) = o + Len(w)
         /\ SubSeq(mem'[b], o + 1, o + Len(w)) = w
         /\ hostMoves /\ UNCHANGED <<configured, inhand, rx, tx>>
      BY <2>10, <2>11, <2>12, <1>Transferred
  <2>14. UNCHANGED <<image, d_size, d_legacy>>
      BY <2>13, Zenon DEF hostMoves, dlVars
  <2>15. pieceLen(pos)' = k /\ placeOf(pos)' = o
      BY <2>5, <2>14, Zenon DEF pieceLen, placeOf
  <2>16. host \in HostType /\ host.sent \in Nat
      BY Zenon DEF LinkType, HostType
  <2>17. /\ host' \in HostType /\ host'.sent = pos + k /\ host'.script = host.script
         /\ host'.phase = IF pos + k = d_size THEN "resp" ELSE "data"
    <3> DEFINE ph == IF pos + k = d_size THEN "resp" ELSE "data"
    <3>1. ph \in {"resp", "data"} /\ pos + k \in Nat
      OBVIOUS
    <3>2. host' = [host EXCEPT !.sent = pos + k, !.phase = ph]
      BY <2>2, <2>11, Zenon
    <3> HIDE DEF ph
    <3>3. /\ host' \in HostType /\ host'.sent = pos + k /\ host'.script = host.script
          /\ host'.phase = ph
      BY <2>16, <3>1, <3>2, Zenon DEF HostType
    <3> QED
      BY <3>3, Zenon DEF ph
  <2>18. LinkType'
      BY <2>13, <2>17, <1>HostMovesType, Zenon DEF LinkType
  <2>19. Loaded(pos, b)'
    <3>1. PieceBuffer(b)' /\ pos < d_size'
      BY <2>2, <2>14, Zenon DEF PieceBuffer
    <3>2. Slice(image, pos, k)' = w
      BY <2>8, <2>14, Zenon DEF Slice, Byte
    <3>3. Slice(image', pos, pieceLen(pos)') = w
      BY <2>8, <2>14, <2>15, Zenon
    <3>4. Len(mem'[b]) >= o + k /\ SubSeq(mem'[b], o + 1, o + k) = w
      BY <2>9, <2>13
    <3> QED
      BY <2>14, <2>15, <2>17, <3>1, <3>3, <3>4, Zenon DEF Loaded
  <2>20. events' = Append(E, rxEvent(pieceLen(pos)', b, placeOf(pos)'))
      BY <2>2, <2>9, <2>13, <2>15, Zenon
  <2>21. Coming(pos, b, E)'
      BY <2>2, <2>13, <2>19, <2>20, Zenon DEF Coming, rxEvent
  <2> QED
      BY <2>13, <2>17, <2>18, <2>21, Zenon
<1>DataLink.
      ASSUME DInv, Link, hostData
      PROVE  Link'
  <2> USE <1>DataLink
  <2>1. host.phase = "data" /\ rxq # <<>> /\ pc \notin {"off", "leave"}
      BY Zenon DEF hostData, attached
  <2>2. LinkType /\ d_size # 0 /\ Downloading
      BY <2>1, IdleTypes, Zenon DEF Link, Unplugged, Listening, Sent, Handling, Resetting, Leaving
  <2>3. d_size \in Nat /\ d_bytes \in Nat /\ length \in Nat
      BY Zenon DEF DInv, DTypeOK
  <2>4. CASE Awaiting
    <3>1. PICK pos \in 0..d_size, b \in Buffers :
            /\ Awaited(pos)
            /\ \/ tx.status = "ok" /\ Coming(pos, b, <<>>)
               \/ tx.status = "busy" /\ Coming(pos, b, <<TxEvent>>)
      BY <2>4, Zenon DEF Awaiting
    <3>2. pos \in Nat
      BY <2>3
    <3>3. /\ tx.status = "ok" => Coming(pos, b, <<>>)'
          /\ tx.status = "busy" => Coming(pos, b, <<TxEvent>>)'
          /\ hostMoves /\ UNCHANGED <<configured, inhand, rx, tx>>
          /\ LinkType' /\ host'.script = host.script
      <4>1. CASE tx.status = "ok" /\ Coming(pos, b, <<>>)
        BY <2>2, <3>2, <4>1, <1>PieceArrives, Zenon
      <4>2. CASE tx.status = "busy" /\ Coming(pos, b, <<TxEvent>>)
        BY <2>2, <3>2, <4>2, <1>PieceArrives, Zenon
      <4> QED
        BY <3>1, <4>1, <4>2, Zenon
    <3>4. UNCHANGED <<image, d_size, d_bytes, d_status, step, pc>>
      BY <3>3, Zenon DEF hostMoves, dlVars, progress
    <3>5. Awaited(pos)'
      BY <3>1, <3>4, Zenon DEF Awaited
    <3>6. Awaiting'
      BY <2>4, <3>1, <3>3, <3>4, <3>5, Zenon DEF Awaiting
    <3> QED
      BY <2>2, <3>3, <3>4, <3>6, Zenon DEF Link, Downloading
  <2>5. CASE Storing
    <3>1. d_bytes + length < d_size /\ length = TRANS
      BY <2>1, <2>5, Zenon DEF Storing
    <3>2. PICK b \in Buffers : Coming(d_bytes + length, b, <<>>) /\ (~d_legacy => b # inhand)
      BY <2>5, <3>1, Zenon DEF Storing
    <3>3. PICK pos \in Nat : pos = d_bytes + length
      BY <2>3
    <3>4. Coming(pos, b, <<>>)
      BY <3>2, <3>3, Zenon
    <3>5. /\ Coming(pos, b, <<>>)' /\ hostMoves /\ UNCHANGED <<configured, inhand, rx, tx>>
          /\ LinkType' /\ host'.script = host.script
      BY <2>2, <3>4, <1>PieceArrives, Zenon
    <3>6. UNCHANGED <<image, d_size, d_bytes, d_legacy, length, step, pc>>
      BY <3>5, Zenon DEF hostMoves, dlVars
    <3>7. Coming(d_bytes + length, b, <<>>)'
      BY <3>3, <3>5, <3>6, Zenon
    <3>8. Storing'
      BY <2>5, <3>1, <3>2, <3>5, <3>6, <3>7, Zenon DEF Storing
    <3> QED
      BY <2>2, <3>5, <3>6, <3>8, Zenon DEF Link, Downloading
  <2> QED
      BY <2>1, <2>2, <2>4, <2>5, Zenon DEF Downloading, Offered, Received
(* The host fetches an answer.                                             *)
<1>HostAnswerLink.
      ASSUME DTypeOK, Link, hostAnswer
      PROVE  Link'
  <2> USE <1>HostAnswerLink
  <2>1. /\ pc # "off" /\ host.phase = "resp" /\ tx.queued
        /\ tx' = [tx EXCEPT !.queued = FALSE] /\ events' = Append(events, TxEvent)
        /\ hostMoves /\ UNCHANGED <<configured, mem, inhand, rx, rxq>>
      BY Zenon DEF hostAnswer, TxEvent
  <2>2. LinkType /\ tx \in TxType /\ host \in HostType /\ host.script \in Seq(CommandType)
      BY Zenon DEF Link, LinkType, HostType
  <2>3. tx' \in TxType /\ ~tx'.queued /\ tx'.status = tx.status /\ tx'.buffer = tx.buffer
      BY <2>1, <2>2, Zenon DEF TxType
  <2>4. UNCHANGED <<image, d_size, d_bytes, d_legacy, d_status, length, step, pc>>
      BY <2>1, Zenon DEF hostMoves, dlVars, progress
  <2>5. host.script # <<>> /\ (Listening \/ Leaving \/ (Downloading /\ Offered))
    <3>1. Listening \/ Leaving \/ (Downloading /\ Offered)
      BY <2>1, IdleTypes DEF Link, Unplugged, Sent, Handling, Resetting, Downloading, Awaiting,
                             Received, Storing
    <3> QED
      BY <2>1, <3>1, IdleTypes, Zenon DEF Listening, Leaving, Downloading
  <2>6. CASE Listening \/ Leaving
    <3>1. events = <<>> /\ tx.buffer \in {OKAY, FAIL} /\ d_size = 0 /\ step = "idle"
      <4>1. events = <<>> /\ tx.buffer \in {OKAY, FAIL}
        BY <2>1, <2>6, IdleTypes, Zenon DEF Listening, Leaving
      <4>2. ~Downloading
        <5>1. Downloading => Offered
          BY <2>1, Zenon DEF Downloading, Awaiting, Received, Storing
        <5>2. Offered => tx.buffer = DATA
          BY DEF Offered
        <5> QED
          BY <4>1, <5>1, <5>2, Zenon DEF OKAY, FAIL, DATA
      <4> QED
        BY <4>1, <4>2, Zenon DEF Link
    <3>2. PICK sc \in Seq(CommandType) : host' = [idleHost EXCEPT !.script = sc]
      <4>1. Tail(host.script) \in Seq(CommandType) /\ <<>> \in Seq(CommandType)
        BY <2>2, <2>5, HeadTailProperties, EmptySeq, Zenon
      <4>2. idleHost = [idleHost EXCEPT !.script = <<>>]
        BY DEF idleHost
      <4>3. tx.buffer # DATA
        BY <3>1, Zenon DEF OKAY, FAIL, DATA
      <4>4. host' = [idleHost EXCEPT !.script = Tail(host.script)] \/ host' = idleHost
        BY <4>3, Zenon DEF hostAnswer
      <4> QED
        BY <4>1, <4>2, <4>4, Zenon
    <3>3. host' = [phase |-> "idle", script |-> sc, sent |-> 0]
      BY <3>2, Zenon DEF idleHost
    <3>4. host' \in HostType /\ host'.phase = "idle"
      BY <3>3, Zenon DEF HostType
    <3>5. LinkType'
      BY <2>1, <2>2, <2>3, <3>4, <1>HostMovesType, Zenon DEF LinkType
    <3>6. events' = <<TxEvent>>
      BY <2>1, <3>1, AppendEvent, Zenon
    <3>7. Listening => Listening'
      <4> SUFFICES ASSUME Listening PROVE Listening'
        BY Zenon
      <4>1. tx.status = "busy" /\ pc = "loop" /\ configured /\ rx = NoRx /\ rxq = <<commandRead>>
        BY <2>1, Zenon DEF Listening
      <4> QED
        BY <2>1, <2>3, <2>4, <3>4, <3>6, <4>1, Zenon DEF Listening, commandRead, NoRx
    <3>8. Leaving => Leaving'
      BY <2>1, <2>3, <2>4, <3>4, <3>6, Zenon DEF Leaving
    <3> QED
      BY <2>4, <2>6, <3>1, <3>5, <3>7, <3>8, Zenon DEF Link
  <2>7. CASE Downloading /\ Offered
    <3>1. /\ pc = "loop" /\ step = "idle" /\ d_status = 0 /\ d_bytes = 0 /\ configured
          /\ tx.buffer = DATA /\ tx.status = "busy" /\ host.sent = 0 /\ events = <<>>
          /\ rx = NoRx /\ rxq = <<[len |-> pieceLen(0), buf |-> "b0", off |-> 0]>>
      BY <2>7, Zenon DEF Downloading, Offered
    <3>2. host' = [host EXCEPT !.phase = "data"]
      BY <3>1, Zenon DEF hostAnswer
    <3>3. /\ host' \in HostType /\ host'.phase = "data" /\ host'.script = host.script
          /\ host'.sent = 0
      BY <2>2, <3>1, <3>2, Zenon DEF HostType
    <3>4. LinkType'
      BY <2>1, <2>2, <2>3, <3>3, <1>HostMovesType, Zenon DEF LinkType
    <3>5. events' = <<TxEvent>>
      BY <2>1, <3>1, AppendEvent, Zenon
    <3>6. d_size \in Nat /\ d_size > 0
      <4>1. d_size # 0
        BY <2>1, <3>1, IdleTypes
           DEF Link, Unplugged, Listening, Sent, Handling, Resetting, Leaving, OKAY, FAIL, DATA
      <4> QED
        BY <4>1 DEF DTypeOK
    <3>7. Coming(0, "b0", <<TxEvent>>)'
      <4>1. PieceBuffer("b0")' /\ 0 < d_size' /\ placeOf(0)' = 0 /\ pieceLen(0)' = pieceLen(0)
        BY <2>4, <3>6, Zenon DEF PieceBuffer, placeOf, pieceLen
      <4>2. Len(mem'["b0"]) >= 0
        <5>1. mem'["b0"] \in Seq(ByteType \cup CommandType)
          BY <3>4, Zenon DEF LinkType, Buffers
        <5>2. Len(mem'["b0"]) \in Nat
          BY <5>1, LenProperties, Zenon
        <5> QED
          BY <5>2
      <4> QED
        BY <2>1, <3>1, <3>3, <3>5, <4>1, <4>2, Zenon DEF Coming, NoRx
    <3>8. Awaited(0)'
      BY <2>4, <3>1, Zenon DEF Awaited
    <3>9. Awaiting'
      <4>1. 0 \in 0..d_size' /\ "b0" \in Buffers
        BY <2>4, <3>6 DEF Buffers
      <4> QED
        BY <2>3, <2>4, <3>1, <3>7, <3>8, <4>1, Zenon DEF Awaiting
    <3> QED
      BY <2>1, <2>4, <2>7, <3>3, <3>4, <3>6, <3>9 DEF Link, Downloading
  <2> QED
      BY <2>5, <2>6, <2>7, Zenon
<1>1. DInv /\ DTypeOK
    BY Zenon DEF FullInv, DInv
<1>2. CASE handleInterrupt
    BY <1>1, <1>2, <1>InterruptLink, Zenon
<1>3. CASE \/ getvar_partition_type \/ handle_flash \/ handle_erase \/ oem_unlock \/ unknown
    BY <1>3, <1>SimpleLink, Zenon
<1>4. CASE getvar_checksum
    BY <1>4, <1>ChecksumLink, Zenon
<1>5. CASE oem_unlock_accept
    BY <1>5, <1>AcceptLink
<1>6. CASE oem_lock
    BY <1>6, <1>LockLink
<1>7. CASE handle_leave
    BY <1>7, <1>HandleLeaveLink
<1>8. CASE handle_download
    BY <1>1, <1>8, <1>DownloadLink
<1>9. CASE receivePiece
    BY <1>1, <1>9, <1>ReceiveLink
<1>10. CASE storePiece
    BY <1>1, <1>10, <1>StoreLink, Zenon
<1>11. CASE finishPiece
    BY <1>11, <1>FinishLink, Zenon
<1>12. CASE saveenv
    BY <1>12, <1>SaveLink
<1>13. CASE leave \/ powerLoss
    BY <1>13, <1>TurnOffLink, Zenon DEF leave, powerLoss
<1>14. CASE powerOn
    BY <1>14, <1>PowerOnLink
<1>15. CASE runKernel \/ unlockExpires
    BY <1>15, <1>AsideLink
<1>16. CASE hostStart
    BY <1>16, <1>StartLink
<1>17. CASE hostConfigure
    BY <1>17, <1>ConfigureLink
<1>18. CASE hostReset
    BY <1>18, <1>ResetLink
<1>19. CASE hostCommand
    BY <1>19, <1>CommandLink
<1>20. CASE hostData
    BY <1>1, <1>20, <1>DataLink
<1>21. CASE hostAnswer
    BY <1>1, <1>21, <1>HostAnswerLink
<1>22. CASE UNCHANGED vars
    BY <1>22, <1>AsideLink, Zenon
<1> QED
    BY <1>2, <1>3, <1>4, <1>5, <1>6, <1>7, <1>8, <1>9, <1>10, <1>11, <1>12, <1>13, <1>14,
       <1>15, <1>16, <1>17, <1>18, <1>19, <1>20, <1>21, <1>22
       DEF Next, device, fbt_rx_process, hostGoesOn

LEMMA StepAside ==
    ASSUME FullInv, Link, AsideType, [Next]_vars
    PROVE  AsideType'
<1>1. DInv /\ DTypeOK /\ TRANS \in Nat
    BY ImageDownloadAssumption, Zenon DEF FullInv, DInv
<1>2. CASE UNCHANGED vars
    BY <1>2, Zenon DEF AsideType, vars, dlVars, lockVars
<1>3. CASE Next
  <2>1. [DNext]_dlVars
    BY <1>1, <1>3, StepRefines, Zenon
  <2>2. disk' = [p \in Partitions |-> disk'[p]]
    <3>1. CASE UNCHANGED disk
      BY <3>1, Zenon DEF AsideType
    <3>2. CASE AnyDisk
      BY <3>2, Zenon DEF AnyDisk
    <3>3. CASE \E p, e : disk' = [disk EXCEPT ![p] = e]
      BY <1>1, <3>3, DiskStored, Zenon DEF AnyDisk
    <3> QED
      BY <2>1, <3>1, <3>2, <3>3, Zenon
         DEF DNext, Download, DownloadRefused, Receive, handleDirectDownload,
             handleSparseDownload, Finish, dlVars
  <2>3. length' <= TRANS
    <3>1. CASE receivePiece
      <4>1. \E pos \in 0..d_size, b \in Buffers :
               length' = pieceLen(pos) /\ pieceLen(pos) \in 1..TRANS
        BY <1>1, <3>1, PieceHandedOver, Zenon DEF HandsOver
      <4> QED
        BY <1>1, <4>1
    <3>2. CASE UNCHANGED length
      BY <3>2, Zenon DEF AsideType
    <3>3. CASE turnOff
      <4>1. length' = 0
        BY <3>3, Zenon DEF turnOff, Restart
      <4> QED
        BY <1>1, <4>1
    <3>4. CASE ~receivePiece /\ ~turnOff
      <4>1. UNCHANGED length
        BY <1>3, <3>4, Zenon
           DEF Next, device, fbt_rx_process, hostGoesOn, handleInterrupt, getvar_checksum,
               oem_unlock, oem_lock, handle_leave, unknown, saveenv, unlockExpires, powerOn,
               hostStart, hostConfigure, hostCommand, hostData, hostAnswer, hostReset,
               transfer, hostMoves, getvar_partition_type, handle_flash, handle_erase,
               oem_unlock_accept, runKernel, Command, handle_download, Download,
               DownloadRefused, storePiece, handleDirectDownload, handleSparseDownload,
               finishPiece, Finish, leave, powerLoss, dlVars
      <4> QED
        BY <4>1, Zenon DEF AsideType
    <3> QED
      BY <3>1, <3>2, <3>3, <3>4, Zenon
  <2>4. unlocked' \in BOOLEAN /\ unlock_pending' \in BOOLEAN /\ env' \in {"0", "1", "bad"}
    <3>1. pc = "save2" => save.val \in {"0", "1"}
      BY Zenon DEF Link, LinkType
    <3>2. /\ UNCHANGED unlocked \/ unlocked' \in BOOLEAN
          /\ UNCHANGED unlock_pending \/ unlock_pending' \in BOOLEAN
          /\ UNCHANGED env \/ env' = "bad" \/ (pc = "save2" /\ env' = save.val)
      BY <1>3, Zenon
         DEF Next, device, fbt_rx_process, hostGoesOn, handleInterrupt, getvar_checksum,
             oem_unlock, oem_lock, handle_leave, unknown, saveenv, unlockExpires, powerOn,
             hostStart, hostConfigure, hostCommand, hostData, hostAnswer, hostReset,
             transfer, hostMoves, getvar_partition_type, handle_flash, handle_erase,
             oem_unlock_accept, runKernel, handle_download, storePiece, receivePiece,
             finishPiece, leave, powerLoss, turnOff, set_unlocked, lockVars
    <3> QED
      BY <3>1, <3>2, Zenon DEF AsideType
  <2> QED
    BY <2>2, <2>3, <2>4, Zenon DEF AsideType
<1> QED
    BY <1>2, <1>3, Zenon

LEMMA InitLink == Init => LinkInv
<1> SUFFICES ASSUME Init PROVE LinkInv
    BY Zenon
<1>1. DInit /\ d_size = 0 /\ step = "idle"
    BY Zenon DEF Init, DInit
<1>2. FullInv
    BY <1>1, InitInv, Zenon DEF FullInv, DInit, SparseInv, EndInv
<1>3. /\ configured = FALSE /\ mem = NoData /\ rx = NoRx /\ rxq = <<>> /\ events = <<>>
      /\ tx = [buffer |-> "none", queued |-> FALSE, status |-> "ok"]
      /\ pc = "off" /\ host = idleHost /\ save = NoSave
    BY Zenon DEF Init
<1>4. LinkType
    BY <1>1, <1>3, IdleTypes, Zenon DEF LinkType
<1>5. Unplugged
    BY <1>3, Zenon DEF Unplugged
<1>6. Link
    BY <1>1, <1>4, <1>5, Zenon DEF Link
<1>7. AsideType
  <2>1. disk = [p \in Partitions |-> disk[p]]
    BY Zenon DEF Init
  <2>2. length <= TRANS
    BY <1>1, ImageDownloadAssumption DEF DInit
  <2> QED
    BY <2>1, <2>2, Zenon DEF Init, AsideType
<1> QED
    BY <1>2, <1>6, <1>7, Zenon DEF LinkInv

LEMMA StepInvariant ==
    ASSUME LinkInv, FailsLate, [Next]_vars
    PROVE  LinkInv' /\ [DNext]_dlVars
<1>1. FullInv /\ Link /\ AsideType /\ DInv
    BY Zenon DEF LinkInv, FullInv
<1>2. [DNext]_dlVars
  <2>1. CASE Next
    BY <1>1, <2>1, StepRefines, Zenon
  <2>2. CASE UNCHANGED vars
    BY <2>2, Zenon DEF vars
  <2> QED
    BY <2>1, <2>2, Zenon
<1>3. FullInv'
    BY <1>1, <1>2, FullStep, Zenon
<1>4. Link'
    BY <1>1, StepLink, Zenon
<1>5. AsideType'
    BY <1>1, StepAside, Zenon
<1> QED
    BY <1>2, <1>3, <1>4, <1>5, Zenon DEF LinkInv

-----------------------------------------------------------------------------
(* What the situations say.                                                *)

LEMMA TypesInv == LinkInv => TypeOK
<1> SUFFICES ASSUME LinkInv PROVE TypeOK
    BY Zenon
<1>1. DTypeOK /\ Link /\ LinkType /\ AsideType
    BY Zenon DEF LinkInv, FullInv, DInv, Link
<1>2. length \in 0..TRANS
    BY <1>1, ImageDownloadAssumption DEF DTypeOK, AsideType
<1>3. pc \in {"off", "loop", "rx", "data", "save", "save2", "leave"}
    BY <1>1, Zenon DEF Link, Unplugged, Listening, Sent, Handling, Resetting, Leaving, Downloading,
                Offered, Awaiting, Received, Storing
<1>4. /\ rx.actual \in 0..TRANS /\ rx.buf \in {"none", "rx", "b0", "b1"}
      /\ tx.buffer \in {"none", OKAY, FAIL, DATA} /\ tx.status \in {"ok", "busy", "error"}
      /\ host.phase \in {"idle", "resp", "data", "reset"} /\ configured \in BOOLEAN
    BY <1>1, Zenon DEF LinkType, RxType, TxType, HostType, Buffers
<1> QED
    BY <1>1, <1>2, <1>3, <1>4, Zenon DEF TypeOK, DTypeOK, AsideType

LEMMA PacketsInv == LinkInv => NextPacketIsCommand
<1> SUFFICES ASSUME LinkInv, pc = "rx" PROVE d_size # 0 <=> cmd.op = "byte"
    BY Zenon DEF NextPacketIsCommand
<1>1. DTypeOK /\ Link
    BY Zenon DEF LinkInv, FullInv, DInv
<1>2. CASE d_size = 0
  <2>1. cmd \in CommandType
    BY <1>1, <1>2 DEF Link, Unplugged, Listening, Sent, Handling, Resetting, Leaving
  <2>2. cmd.op # "byte"
    BY <2>1, Zenon DEF CommandType
  <2> QED
    BY <1>2, <2>2, Zenon
<1>3. CASE d_size # 0
  <2>1. Received
    BY <1>1, <1>3, Zenon DEF Link, Downloading, Offered, Awaiting, Storing
  <2>2. PICK pos \in 0..d_size, b \in Buffers :
           Loaded(pos, b) /\ rx = given(pieceLen(pos), b, placeOf(pos))
    BY <2>1, Zenon DEF Received
  <2>3. PICK k \in Nat, o \in Nat : k = pieceLen(pos) /\ o = placeOf(pos) /\ k > 0
    <3>1. pos \in Nat /\ pos < d_size /\ d_size \in Nat /\ TRANS \in Nat \ {0}
      BY <1>1, <2>2, ImageDownloadAssumption DEF DTypeOK, Loaded
    <3>2. pieceLen(pos) \in Nat /\ pieceLen(pos) > 0 /\ placeOf(pos) \in Nat
      BY <3>1 DEF pieceLen, placeOf, Min2
    <3> QED
      BY <3>2, Zenon
  <2>4. rx.buf = b /\ rx.off = o
    BY <2>2, <2>3, Zenon DEF given
  <2>5. /\ SubSeq(mem[b], o + 1, o + k) = Slice(image, pos, k) /\ Len(mem[b]) >= o + k
        /\ mem[b] \in Seq(ByteType \cup CommandType)
    BY <1>1, <2>2, <2>3, Zenon DEF Loaded, Link, LinkType
  <2>6. SubSeq(mem[b], o + 1, o + k)[1] = mem[b][o + 1]
    <3> DEFINE v == mem[b]
               C == ByteType \cup CommandType
    <3>1. v \in Seq(C) /\ o + k <= Len(v)
      BY <2>5, Zenon
    <3> HIDE DEF v, C
    <3>2. \A i \in (o + 1)..(o + k) : v[i] \in C
      BY <2>3, <3>1, ElementOfSeq, LenProperties
    <3>3. SubSeq(v, o + 1, o + k)[1] = v[o + 1]
      <4>1. PICK m \in Int, n \in Int : m = o + 1 /\ n = o + k
        OBVIOUS
      <4>2. \A i \in m..n : v[i] \in C
        BY <3>2, <4>1, Zenon
      <4>3. \A i \in 1..(n - m + 1) : SubSeq(v, m, n)[i] = v[m + i - 1]
        BY <3>1, <4>2, SubSeqProperties
      <4>4. 1 \in 1..(n - m + 1) /\ m + 1 - 1 = o + 1
        BY <2>3, <4>1
      <4>5. SubSeq(v, m, n)[1] = v[m + 1 - 1]
        BY <4>3, <4>4, Zenon
      <4> QED
        BY <4>1, <4>4, <4>5, Zenon
    <3> QED
      BY <3>3, Zenon DEF v
  <2>7. Slice(image, pos, k)[1] = Byte(image, pos + 1)
    BY <2>3 DEF Slice
  <2>8. Byte(image, pos + 1).op = "byte"
    BY Zenon DEF Byte, Zero
  <2> QED
    BY <1>3, <2>4, <2>5, <2>6, <2>7, <2>8, Zenon DEF cmd
<1> QED
    BY <1>2, <1>3, Zenon

LEMMA ReadsInv == LinkInv => ReadsApart
<1> SUFFICES ASSUME LinkInv PROVE ReadsApart
    OBVIOUS
<1>1. Link /\ DTypeOK
    BY DEF LinkInv, FullInv, DInv
<1>2. rxq = <<>> \/ \E r : rxq = <<r>>
    BY <1>1, Zenon DEF Link, Unplugged, Listening, Sent, Handling, Resetting, Leaving, Downloading,
                Offered, Awaiting, Received, Storing, Coming
<1>3. Len(rxq) <= 1
  <2>1. CASE rxq = <<>>
    BY <2>1, EmptySeq
  <2>2. CASE \E r : rxq = <<r>>
    BY <2>2
  <2> QED
    BY <1>2, <2>1, <2>2, Zenon
<1>4. ASSUME pc = "data", ~d_legacy
      PROVE  /\ \A i \in DOMAIN rxq : rxq[i].buf # inhand
             /\ \A i \in DOMAIN events : events[i].op = "rx" => events[i].buf # inhand
  <2>1. Storing
    BY <1>1, <1>4, PieceStored, Zenon
  <2>2. CASE rxq = <<>> /\ events = <<>>
    BY <2>2
  <2>3. CASE \E b \in Buffers : Coming(d_bytes + length, b, <<>>) /\ b # inhand
    <3>1. PICK b \in Buffers : Coming(d_bytes + length, b, <<>>) /\ b # inhand
      BY <2>3, Zenon
    <3> DEFINE n == pieceLen(d_bytes + length)
               o == placeOf(d_bytes + length)
    <3>2. CASE rxq = <<[len |-> n, buf |-> b, off |-> o]>> /\ events = <<>>
      <4> HIDE DEF n, o
      <4> QED
        BY <3>1, <3>2
    <3>3. CASE rxq = <<>> /\ events = Append(<<>>, rxEvent(n, b, o))
      <4> HIDE DEF n, o
      <4>1. events = <<rxEvent(n, b, o)>>
        BY <3>3, AppendEvent, Zenon
      <4> QED
        BY <3>1, <3>3, <4>1 DEF rxEvent
    <3> QED
      BY <3>1, <3>2, <3>3, Zenon DEF Coming
  <2> QED
    BY <1>4, <2>1, <2>2, <2>3, Zenon DEF Storing
<1> QED
    BY <1>3, <1>4, Zenon DEF ReadsApart

-----------------------------------------------------------------------------
(* Where failures come late, device and host are always in one of the      *)
(* situations of Link together: whatever is lost, reset, switched off or   *)
(* refused, each knows what the other will send or read next.              *)
THEOREM LinkKept == Spec /\ []FailsLate => []LinkInv
<1>1. Init => LinkInv
    BY InitLink, Zenon
<1>2. LinkInv /\ FailsLate /\ [Next]_vars => LinkInv'
    BY StepInvariant, Zenon
<1> QED
    BY <1>1, <1>2, PTL DEF Spec

(* Every variable keeps its type.                                          *)
THEOREM GadgetTyped == Spec /\ []FailsLate => []TypeOK
    BY TypesInv, LinkKept, PTL

(* Device and host agree on whether a packet is a command or data.         *)
THEOREM PacketsTold == Spec /\ []FailsLate => []NextPacketIsCommand
    BY PacketsInv, LinkKept, PTL

(* No read fills the buffer whose contents are being written.              *)
THEOREM BuffersApart == Spec /\ []FailsLate => []ReadsApart
    BY ReadsInv, LinkKept, PTL

(* The gadget's part of a session is a run of the download path alone.     *)
THEOREM GadgetStreams == Spec /\ []FailsLate => Streams
<1>1. Init => DInit
    BY Zenon DEF Init
<1>2. LinkInv /\ FailsLate /\ [Next]_vars => [DNext]_dlVars
    BY StepInvariant, Zenon
<1> QED
    BY <1>1, <1>2, LinkKept, PTL DEF Spec, Streams, DSpec

(* Through the gadget too, a download that rkimage.c calls complete is all *)
(* there, raw or sparse.                                                   *)
THEOREM GadgetComplete == Spec /\ []FailsLate => []ImageComplete
    BY GadgetStreams, ImageIsComplete, PTL DEF Streams

(* And what a piece leaves over always fits d_cache with the next one.     *)
THEOREM GadgetCacheFits == Spec /\ []FailsLate => []CacheFits
    BY GadgetStreams, CacheAlwaysFits, PTL DEF Streams

-----------------------------------------------------------------------------
(* When failures come late.                                                *)

(* The medium refuses a write only when at most one more piece is to come, *)
(* and only short images have a chunk that the loader refuses.             *)
LateFaults ==
    /\ "write_early" \notin Faults
    /\ \A img \in Images : img.sparse /\ img.len > 2 * TRANS =>
          \A k \in DOMAIN img.chunks : img.chunks[k].ok /\ img.chunks[k].type # "fill"

(* What is streamed to a partition that the device does not know is short. *)
NamedFirst == d_size # 0 /\ ~d_legacy /\ pending_ptn = NoPtn => d_size <= 2 * TRANS

LEMMA StepLate ==
    ASSUME LateFaults, LinkInv, FailsLate, NamedFirst, [Next]_vars
    PROVE  FailsLate'
<1>ReceiveLate.
      ASSUME DInv, Link, NamedFirst, receivePiece
      PROVE  FailsLate'
  <2> USE <1>ReceiveLate
  <2>1. DTypeOK /\ d_size \in Nat /\ d_bytes \in Nat /\ TRANS \in Nat /\ BLK \in Nat
      BY ImageDownloadAssumption, Zenon DEF DInv, DTypeOK
  <2>2. PICK pos \in 0..d_size, b \in Buffers :
           HandsOver(pos, b) /\ pieceLen(pos) \in 1..TRANS /\ pos \in Nat
      BY <2>1, PieceHandedOver, Zenon
  <2>3. LinkType /\ d_size # 0
      BY <2>1, PieceHandedOver, Zenon
  <2>0. PICK n \in 1..TRANS : n = pieceLen(pos)
      BY <2>2, Zenon
  <2>4. PICK w : n = pieceLen(pos) /\ w = Slice(image, pos, n)
      BY <2>0, Zenon
  <2>5. Awaited(pos) /\ Receive(w)
      BY <2>2, <2>4, Zenon DEF HandsOver
  <2>6. Len(w) = n
    <3>1. image \in Images /\ n \in Nat
      BY <2>1 DEF DTypeOK
    <3> QED
      BY <2>2, <2>4, <3>1, SliceProps, Zenon
  <2>7. UNCHANGED <<d_size, d_bytes>>
      BY <2>5, Zenon DEF Receive
  <2>8. CASE d_status # 0
    <3>1. d_bytes >= d_size
      BY <2>5, <2>8, Zenon DEF Awaited
    <3> QED
      BY <2>1, <2>7, <3>1 DEF FailsLate
  <2>9. CASE d_status = 0
    <3>1. CASE d_legacy
      <4>1. d_status' = 0
        BY <2>5, <2>9, <3>1, Zenon DEF Receive, progress
      <4> QED
        BY <4>1 DEF FailsLate
    <3>2. CASE ~d_legacy /\ pending_ptn = NoPtn
      <4>1. d_size <= 2 * TRANS
        BY <2>3, <3>2, Zenon DEF NamedFirst
      <4> QED
        BY <2>1, <2>7, <4>1 DEF FailsLate
    <3>3. CASE ~d_legacy /\ pending_ptn # NoPtn
      <4>1. ~ (Len(w) + Len(d_cache) > TRANS + BLK)
        <5>1. Len(d_cache) \in Nat /\ Len(d_cache) < BLK
          BY <2>1, LenProperties, Zenon DEF DInv, DTypeOK
        <5> QED
          BY <2>1, <2>6, <5>1
      <4>2. d_status' = 0
        BY <2>5, <2>9, <3>3, <4>1, Zenon DEF Receive, handleDownload, startDownload, progress
      <4> QED
        BY <4>2 DEF FailsLate
    <3> QED
      BY <3>1, <3>2, <3>3, Zenon
  <2> QED
      BY <2>8, <2>9, Zenon
(* The chunk loop refuses a chunk of the image, and nothing else.          *)
<1>ChunkLate.
      ASSUME LateFaults, FullInv, handleSparseDownload
      PROVE  FailsLate'
  <2> USE <1>ChunkLate
  <2> DEFINE n == d_bytes + length - Len(work)
             c == sparse_cur_chunk
             N == Len(image.chunks)
             H == HeaderAt(image)
  <2>1. /\ DInv /\ DTypeOK /\ step = "chunk" /\ d_status = 0 /\ ~d_legacy /\ d_size # 0
        /\ flag_sparse /\ d_size = image.len
      BY Zenon DEF FullInv, DInv, RawInv, handleSparseDownload
  <2>2. Tracks(n, work) /\ d_direct_size = 0
      BY <2>1, Zenon DEF FullInv, SparseInv
  <2>3. UNCHANGED <<d_size, d_bytes>>
      BY Zenon DEF handleSparseDownload
  <2>4. /\ image \in Images /\ image.sparse /\ c \in Nat /\ c <= N /\ N \in Nat
        /\ d_bytes \in Nat /\ d_size \in Nat /\ TRANS \in Nat
        /\ Len(work) \in Nat /\ n \in Nat /\ CHUNKHDR \in Nat \ {0}
        /\ image.chunks \in Seq(ChunkType)
      BY <2>1, <2>2, ChunkSteps, LenProperties, ImageDownloadAssumption, Zenon DEF DTypeOK, Tracks
  <2>5. CASE d_size <= 2 * TRANS
      BY <2>3, <2>4, <2>5 DEF FailsLate
  <2>6. CASE c >= N \/ Len(work) < CHUNKHDR
    <3>1. d_status' \in {0, 1}
      BY <2>1, <2>6, Zenon DEF handleSparseDownload, progress
    <3> QED
      BY <3>1 DEF FailsLate
  <2>7. CASE c < N /\ Len(work) >= CHUNKHDR /\ d_size > 2 * TRANS
    <3>1. c + 1 \in 1..N /\ n = H[c + 1]
      <4>1. n + d_direct_size = H[c + 1]
        BY <2>2, Zenon DEF Tracks
      <4> HIDE DEF n, H
      <4> QED
        BY <2>2, <2>4, <2>7, <4>1
    <3>2. work[1] = Byte(image, n + 1)
      <4>1. work = Slice(image, n, Len(work)) /\ 1 \in 1..Len(work)
        BY <2>2, <2>4, <2>7 DEF Tracks
      <4>2. \A i \in 1..Len(work) : Slice(image, n, Len(work))[i] = Byte(image, n + i)
        BY <2>4, SliceProps, Zenon
      <4> HIDE DEF n
      <4> QED
        BY <4>1, <4>2, Zenon
    <3>3. ChunkAt(work[1]) = image.chunks[c + 1]
      BY <2>4, <3>1, <3>2, ChunkFound, Zenon
    <3>4. /\ image.chunks[c + 1] \in ChunkType /\ c + 1 \in DOMAIN image.chunks
      BY <2>4, <3>1
    <3>5. image.chunks[c + 1].ok /\ image.chunks[c + 1].type # "fill"
      BY <2>1, <2>4, <2>7, <3>4, Zenon DEF LateFaults
    <3>6. image.chunks[c + 1].ok /\ image.chunks[c + 1].type \in {"raw", "dont_care"}
      BY <3>4, <3>5, Zenon DEF ChunkType
    <3>7. d_status' = 0
      <4>1. ~ (sparse_cur_chunk >= Len(image.chunks)) /\ ~ (Len(work) < CHUNKHDR)
        BY <2>4, <2>7
      <4>2. \/ ChunkAt(work[1]).ok /\ ChunkAt(work[1]).type = "raw"
            \/ ChunkAt(work[1]).ok /\ ChunkAt(work[1]).type = "dont_care"
        BY <3>3, <3>6, Zenon
      <4>3. UNCHANGED d_status
        BY <4>1, <4>2, Zenon DEF handleSparseDownload
      <4> QED
        BY <2>1, <4>3, Zenon
    <3> QED
      BY <3>7 DEF FailsLate
  <2> QED
      BY <2>4, <2>5, <2>6, <2>7
<1>DirectLate.
      ASSUME LateFaults, DInv, storePiece, step = "direct"
      PROVE  FailsLate'
  <2> USE <1>DirectLate
  <2>1. d_size \in Nat /\ d_bytes \in Nat /\ d_status = 0 /\ TRANS \in Nat
      BY ImageDownloadAssumption, Zenon DEF DInv, DTypeOK
  <2>2. handleDirectDownload(TRUE) \/ (mayFail /\ handleDirectDownload(FALSE))
      BY Zenon DEF storePiece, handleSparseDownload
  <2>3. CASE handleDirectDownload(TRUE)
    <3>1. d_status' \in {0, 1}
      BY <2>1, <2>3, Zenon DEF handleDirectDownload
    <3> QED
      BY <3>1 DEF FailsLate
  <2>4. CASE mayFail /\ handleDirectDownload(FALSE)
    <3>1. d_size - d_bytes <= 2 * TRANS
      BY <2>4, Zenon DEF mayFail, LateFaults
    <3>2. UNCHANGED <<d_size, d_bytes>>
      BY <2>4, Zenon DEF handleDirectDownload
    <3> QED
      BY <2>1, <3>1, <3>2 DEF FailsLate
  <2> QED
      BY <2>2, <2>3, <2>4, Zenon
<1>1. FullInv /\ DInv /\ Link /\ AsideType
    BY Zenon DEF LinkInv, FullInv
<1>2. CASE UNCHANGED vars
    BY <1>2, Zenon DEF FailsLate, vars, dlVars, progress
<1>3. CASE receivePiece
    BY <1>1, <1>3, <1>ReceiveLate, Zenon
<1>4. CASE storePiece
  <2>1. step = "direct" \/ handleSparseDownload
    BY <1>4, Zenon DEF storePiece, handleDirectDownload
  <2> QED
    BY <1>1, <1>4, <2>1, <1>ChunkLate, <1>DirectLate, Zenon
<1>5. CASE Next /\ ~receivePiece /\ ~storePiece
  <2>1. step' = "idle" \/ UNCHANGED <<step, d_status, d_size, d_bytes>>
    BY <1>5, Zenon
       DEF Next, device, fbt_rx_process, hostGoesOn, handleInterrupt, getvar_checksum,
           oem_unlock, oem_lock, handle_leave, unknown, saveenv, unlockExpires, powerOn,
           hostStart, hostConfigure, hostCommand, hostData, hostAnswer, hostReset,
           transfer, hostMoves, getvar_partition_type, handle_flash, handle_erase,
           oem_unlock_accept, runKernel, Command, handle_download, Download,
           DownloadRefused, finishPiece, Finish, leave, powerLoss, turnOff, Restart,
           dlVars, progress
  <2> QED
    BY <2>1, Zenon DEF FailsLate
<1> QED
    BY <1>2, <1>3, <1>4, <1>5, Zenon

(* A download fails early for three reasons only: the medium, a chunk that *)
(* the loader refuses, or a partition that it does not know.  Without them *)
(* every failure leaves device and host together.                          *)
THEOREM FailuresLate == LateFaults => (Spec /\ []NamedFirst => []FailsLate)
<1> SUFFICES ASSUME LateFaults PROVE Spec /\ []NamedFirst => []FailsLate
    BY Zenon
<1>1. Init => LinkInv /\ FailsLate
  <2>1. Init => step = "idle"
    BY Zenon DEF Init, DInit
  <2> QED
    BY <2>1, InitLink, Zenon DEF FailsLate
<1>2. LinkInv /\ FailsLate /\ NamedFirst /\ [Next]_vars => LinkInv' /\ FailsLate'
    BY StepInvariant, StepLate, Zenon
<1> QED
    BY <1>1, <1>2, PTL DEF Spec

-----------------------------------------------------------------------------
(* The lock.                                                               *)

LEMMA StepLock ==
    ASSUME LinkInv, LockInv, [Next]_vars
    PROVE  LockInv'
<1>1. DTypeOK /\ Link
    BY Zenon DEF LinkInv, FullInv, DInv
<1>2. CASE handle_download
  <2>1. d_size = 0 /\ UNCHANGED unlocked
    BY <1>2, Zenon DEF handle_download, handling, lockVars
  <2>2. unlocked \/ UNCHANGED d_size
    BY <1>2, Zenon DEF handle_download, downloadAllowed, DownloadRefused
  <2> QED
    BY <2>1, <2>2, Zenon DEF LockInv
<1>3. CASE oem_unlock_accept \/ oem_lock \/ powerOn
  <2>1. d_size = 0
    <3>1. CASE powerOn
      <4>1. pc = "off"
        BY <3>1, Zenon DEF powerOn
      <4> QED
        BY <1>1, <4>1, Zenon DEF Link, Downloading, Offered, Awaiting, Received, Storing
    <3> QED
      BY <1>3, <3>1, Zenon DEF oem_unlock_accept, oem_lock, handling
  <2>2. UNCHANGED d_size
    BY <1>3, Zenon DEF oem_unlock_accept, oem_lock, powerOn, Command, dlVars
  <2> QED
    BY <2>1, <2>2, Zenon DEF LockInv
<1>4. CASE leave \/ powerLoss
    BY <1>4, Zenon DEF leave, powerLoss, turnOff, Restart, LockInv
<1>5. CASE /\ ~handle_download /\ ~oem_unlock_accept /\ ~oem_lock /\ ~powerOn
           /\ ~leave /\ ~powerLoss
  <2>1. UNCHANGED unlocked /\ (d_size' = 0 \/ UNCHANGED d_size)
    BY <1>5, Zenon
       DEF Next, device, fbt_rx_process, hostGoesOn, handleInterrupt, receivePiece, Receive,
           getvar_partition_type, getvar_checksum, handle_flash, handle_erase, oem_unlock,
           handle_leave, unknown, storePiece, handleDirectDownload, handleSparseDownload,
           finishPiece, Finish, saveenv, unlockExpires, runKernel, Command, hostStart,
           hostConfigure, hostCommand, hostData, hostAnswer, hostReset, transfer,
           hostMoves, vars, lockVars, dlVars
  <2> QED
    BY <2>1, Zenon DEF LockInv
<1> QED
    BY <1>2, <1>3, <1>4, <1>5, Zenon

(* A download goes on under an open lock: nothing locks the device between *)
(* the command and its last piece.                                         *)
THEOREM LockKept == Spec /\ []FailsLate => []LockInv
<1>1. Init => LinkInv /\ LockInv
  <2>1. Init => d_size = 0
    BY Zenon DEF Init, DInit
  <2> QED
    BY <2>1, InitLink, Zenon DEF LockInv
<1>2. LinkInv /\ LockInv /\ FailsLate /\ [Next]_vars => LinkInv' /\ LockInv'
    BY StepInvariant, StepLock, Zenon
<1> QED
    BY <1>1, <1>2, PTL DEF Spec

(* Fastboot writes to the medium of an unlocked device only, whichever way *)
(* an image takes.                                                         *)
THEOREM LockedDevice == Spec /\ []FailsLate => LockedUntouched
<1>1. ASSUME LinkInv, LockInv, [Next]_vars
      PROVE  [disk' # disk => unlocked \/ pc \in {"off", "leave"}]_vars
  <2> SUFFICES ASSUME disk' # disk PROVE unlocked \/ pc \in {"off", "leave"}
    BY Zenon
  <2>1. CASE storePiece
    <3>1. step # "idle"
      BY <2>1, Zenon DEF storePiece, handleDirectDownload, handleSparseDownload
    <3>2. d_size # 0
      BY <1>1, <3>1, Zenon DEF LinkInv, FullInv, DInv
    <3> QED
      BY <1>1, <3>2, Zenon DEF LockInv
  <2>2. CASE handle_flash
    BY <2>2, Zenon DEF handle_flash
  <2>3. CASE runKernel \/ leave
    BY <2>3, Zenon DEF runKernel, leave
  <2>4. CASE ~storePiece /\ ~handle_flash /\ ~runKernel /\ ~leave
    BY <1>1, <2>4, Zenon
       DEF Next, device, fbt_rx_process, hostGoesOn, handleInterrupt, getvar_checksum,
           oem_unlock, oem_unlock_accept, oem_lock, handle_leave, unknown, saveenv,
           unlockExpires, powerOn, hostStart, hostConfigure, hostCommand, hostData,
           hostAnswer, hostReset, transfer, hostMoves, getvar_partition_type,
           handle_download, Download, DownloadRefused, handle_erase, erase, receivePiece,
           Receive, finishPiece, Finish, powerLoss, vars, dlVars
  <2> QED
    BY <2>1, <2>2, <2>3, <2>4, Zenon
<1> QED
    BY <1>1, LinkKept, LockKept, PTL DEF Spec, LockedUntouched

-----------------------------------------------------------------------------
(* What the host's scripts ask for: the download of a flash follows the    *)
(* query that names its partition.                                         *)

LEMMA EmptyScript ==
    Followed(<<>>) /\ Queried(<<>>) /\ ~FlashNext(<<>>) /\ ~DownloadNext(<<>>)
    BY DEF Followed, Queried, FlashNext, DownloadNext

(* A script of the tool begins with no flash, and with no download for one. *)
LEMMA ScriptStart ==
    ASSUME ToolScripts, NEW s \in Scripts
    PROVE  Followed(s) /\ Queried(s) /\ ~FlashNext(s) /\ ~DownloadNext(s)
<1>1. Len(s) \in Nat
    BY FastbootAssumption, LenProperties, Zenon
<1>2. \A j \in 1..Len(s) : /\ s[j].op = "flash" => DownloadBefore(s, j)
                           /\ ForFlash(s, j) => TypeBefore(s, j)
    BY Zenon DEF ToolScripts
<1>3. ASSUME NEW j \in 1..Len(s), AsideIn(s, 1, j - 1), DownloadBefore(s, j) PROVE FALSE
    BY <1>3, Zenon DEF DownloadBefore, AsideIn, Aside
<1>4. ASSUME NEW j \in 1..Len(s), AsideIn(s, 1, j - 1), TypeBefore(s, j) PROVE FALSE
    BY <1>4, Zenon DEF TypeBefore, AsideIn, Aside
<1> QED
    BY <1>2, <1>3, <1>4, Zenon DEF Followed, Queried, FlashNext, DownloadNext

(* As it goes on, the flash it comes to next is of the download before,    *)
(* and the download it comes to next is for the partition of the query     *)
(* before.                                                                 *)
LEMMA ScriptTail ==
    ASSUME NEW s \in Seq(CommandType), s # <<>>, Followed(s), Queried(s)
    PROVE  /\ Followed(Tail(s)) /\ Queried(Tail(s))
           /\ FlashNext(Tail(s)) => \/ Head(s).op = "download" /\ DownloadNext(s)
                                    \/ Head(s).op \in Aside /\ FlashNext(s)
           /\ DownloadNext(Tail(s)) => \/ Head(s).op = "type" /\ Head(s).ptn # ""
                                       \/ Head(s).op \in Aside /\ DownloadNext(s)
<1> DEFINE t == Tail(s)
<1>1. /\ Len(s) \in Nat /\ Len(s) > 0 /\ Len(t) = Len(s) - 1 /\ Head(s) = s[1]
      /\ \A k \in 1..Len(t) : t[k] = s[k + 1]
    OBVIOUS
<1> HIDE DEF t
<1>2. ASSUME NEW i \in 1..Len(s), NEW j \in 1..Len(t)
      PROVE  AsideIn(t, i, j - 1) <=> AsideIn(s, i + 1, j)
  <2>1. ASSUME AsideIn(t, i, j - 1) PROVE AsideIn(s, i + 1, j)
    <3> SUFFICES ASSUME NEW k \in (i + 1)..j PROVE s[k].op \in Aside
      BY DEF AsideIn
    <3>1. k - 1 \in i..(j - 1) /\ k - 1 \in 1..Len(t) /\ (k - 1) + 1 = k
      BY <1>1
    <3> QED
      BY <1>1, <2>1, <3>1 DEF AsideIn
  <2>2. ASSUME AsideIn(s, i + 1, j) PROVE AsideIn(t, i, j - 1)
    BY <1>1, <2>2 DEF AsideIn
  <2> QED
    BY <2>1, <2>2
<1>3. ASSUME NEW j \in 1..Len(t)
      PROVE  /\ j + 1 \in 1..Len(s) /\ (j + 1) - 1 = j /\ t[j] = s[j + 1]
             /\ 1 \in 1..Len(s) /\ 1 + 1 = 2 /\ j \in 1..Len(s) /\ 1 \in 1..j
    BY <1>1
(* The command before the aside ones: the head, or in the tail as well.    *)
<1>4. ASSUME NEW j \in 1..Len(t), NEW k \in 1..j, AsideIn(s, k + 1, j), s[k].op \notin Aside
      PROVE  \/ k = 1 /\ AsideIn(t, 1, j - 1)
             \/ /\ ~AsideIn(t, 1, j - 1)
                /\ \E i \in 1..(j - 1) : t[i] = s[k] /\ AsideIn(t, i + 1, j - 1)
  <2>1. CASE k = 1
    BY <1>2, <1>3, <1>4, <2>1
  <2>2. CASE k # 1
    <3>1. /\ k - 1 \in 1..(j - 1) /\ k - 1 \in 1..Len(t) /\ (k - 1) + 1 = k
          /\ k \in 1..Len(s)
      BY <1>1, <2>2
    <3>2. t[k - 1] = s[k]
      BY <1>1, <3>1
    <3>3. AsideIn(t, (k - 1) + 1, j - 1)
      BY <1>2, <1>4, <3>1
    <3>4. ~AsideIn(t, 1, j - 1)
      BY <1>4, <3>1, <3>2, Zenon DEF AsideIn
    <3> QED
      BY <3>1, <3>2, <3>3, <3>4, Zenon
  <2> QED
    BY <2>1, <2>2, Zenon
<1>5. ASSUME NEW j \in 1..Len(t), AsideIn(s, 1, j)
      PROVE  AsideIn(t, 1, j - 1) /\ Head(s).op \in Aside
  <2>1. AsideIn(s, 2, j)
    BY <1>5 DEF AsideIn
  <2> QED
    BY <1>1, <1>2, <1>3, <1>5, <2>1 DEF AsideIn
<1>6. ASSUME NEW j \in 1..Len(t), ForFlash(t, j) PROVE ForFlash(s, j + 1)
  <2>1. t[j].op = "download" /\
        \E i \in (j + 1)..Len(t) : t[i].op = "flash" /\ AsideIn(t, j + 1, i - 1)
    BY <1>6, Zenon DEF ForFlash
  <2>2. PICK i \in (j + 1)..Len(t) : t[i].op = "flash" /\ AsideIn(t, j + 1, i - 1)
    BY <2>1, Zenon
  <2>3. i \in 1..Len(t) /\ i + 1 \in ((j + 1) + 1)..Len(s) /\ j + 1 \in 1..Len(s)
    BY <1>1, <2>2
  <2>4. AsideIn(s, (j + 1) + 1, (i + 1) - 1)
    BY <1>2, <1>3, <2>2, <2>3
  <2> QED
    BY <1>3, <2>1, <2>2, <2>3, <2>4, Zenon DEF ForFlash
<1>7. ASSUME NEW j \in 1..Len(t), t[j].op = "flash"
      PROVE  /\ DownloadBefore(t, j) \/ AsideIn(t, 1, j - 1)
             /\ AsideIn(t, 1, j - 1) => \/ Head(s).op = "download" /\ DownloadNext(s)
                                        \/ Head(s).op \in Aside /\ FlashNext(s)
  <2>1. DownloadBefore(s, j + 1) \/ AsideIn(s, 1, j)
    BY <1>3, <1>7, Zenon DEF Followed
  <2>2. CASE AsideIn(s, 1, j)
    BY <1>3, <1>5, <1>7, <2>2, Zenon DEF FlashNext
  <2>3. CASE DownloadBefore(s, j + 1)
    <3>1. PICK k \in 1..j : s[k].op = "download" /\ AsideIn(s, k + 1, j)
      BY <1>3, <2>3, Zenon DEF DownloadBefore
    <3>2. \/ k = 1 /\ AsideIn(t, 1, j - 1)
          \/ /\ ~AsideIn(t, 1, j - 1)
             /\ \E i \in 1..(j - 1) : t[i] = s[k] /\ AsideIn(t, i + 1, j - 1)
      BY <1>4, <3>1, Zenon DEF Aside
    <3>3. ASSUME k = 1 PROVE Head(s).op = "download" /\ DownloadNext(s)
      <4>1. /\ s[1].op = "download" /\ j + 1 \in (1 + 1)..Len(s)
            /\ s[j + 1].op = "flash" /\ AsideIn(s, 1 + 1, (j + 1) - 1)
        BY <1>1, <1>3, <1>7, <3>1, <3>3
      <4>2. AsideIn(s, 1, 1 - 1)
        BY DEF AsideIn
      <4> QED
        BY <1>1, <1>3, <4>1, <4>2, Zenon DEF ForFlash, DownloadNext
    <3> QED
      BY <3>1, <3>2, <3>3, Zenon DEF DownloadBefore
  <2> QED
    BY <2>1, <2>2, <2>3, Zenon
<1>8. ASSUME NEW j \in 1..Len(t), ForFlash(t, j)
      PROVE  /\ TypeBefore(t, j) \/ AsideIn(t, 1, j - 1)
             /\ AsideIn(t, 1, j - 1) => \/ Head(s).op = "type" /\ Head(s).ptn # ""
                                        \/ Head(s).op \in Aside /\ DownloadNext(s)
  <2>0. ForFlash(s, j + 1)
    BY <1>6, <1>8, Zenon
  <2>1. TypeBefore(s, j + 1) \/ AsideIn(s, 1, j)
    BY <1>3, <2>0, Zenon DEF Queried
  <2>2. CASE AsideIn(s, 1, j)
    BY <1>3, <1>5, <2>0, <2>2, Zenon DEF DownloadNext
  <2>3. CASE TypeBefore(s, j + 1)
    <3>1. PICK k \in 1..j : s[k].op = "type" /\ s[k].ptn # "" /\ AsideIn(s, k + 1, j)
      BY <1>3, <2>3, Zenon DEF TypeBefore
    <3>2. \/ k = 1 /\ AsideIn(t, 1, j - 1)
          \/ /\ ~AsideIn(t, 1, j - 1)
             /\ \E i \in 1..(j - 1) : t[i] = s[k] /\ AsideIn(t, i + 1, j - 1)
      BY <1>4, <3>1, Zenon DEF Aside
    <3> QED
      BY <1>1, <3>1, <3>2, Zenon DEF TypeBefore
  <2> QED
    BY <2>1, <2>2, <2>3, Zenon
<1>9. Followed(t) /\ Queried(t)
    BY <1>7, <1>8, Zenon DEF Followed, Queried
<1> QED
    BY <1>7, <1>8, <1>9, Zenon DEF FlashNext, DownloadNext, t

(* What the next flash is depends on what comes before it only.            *)
LEMMA FlashHead ==
    ASSUME NEW s \in Seq(CommandType), s # <<>>
    PROVE  /\ Head(s).op = "flash" => FlashNext(s)
           /\ FlashNext(s) => Head(s).op \in Aside \cup {"flash"}
<1>1. Len(s) \in Nat /\ Len(s) > 0 /\ Head(s) = s[1] /\ 1 \in 1..Len(s)
    OBVIOUS
<1>2. Head(s).op = "flash" => FlashNext(s)
  <2>1. AsideIn(s, 1, 1 - 1)
    BY DEF AsideIn
  <2> QED
    BY <1>1, <2>1, Zenon DEF FlashNext
<1>3. ASSUME NEW j \in 1..Len(s), s[j].op = "flash", AsideIn(s, 1, j - 1)
      PROVE  s[1].op \in Aside \cup {"flash"}
  <2>1. CASE j = 1
    BY <1>3, <2>1, Zenon
  <2>2. CASE j # 1
    BY <1>3, <2>2 DEF AsideIn
  <2> QED
    BY <2>1, <2>2, Zenon
<1> QED
    BY <1>1, <1>2, <1>3 DEF FlashNext

(* Where a command is handled, it is the head of the script or the host is *)
(* resetting.                                                              *)
LEMMA HandledHead ==
    ASSUME Link, pc \in {"rx", "save", "save2"}, configured, d_size = 0
    PROVE  /\ ~tx.queued /\ tx.status = "ok" /\ cmd \in CommandType
           /\ host.script \in Seq(CommandType)
           /\ pc # "rx" => cmd.op \in {"lock", "unlock_accept"}
           /\ \/ host.phase = "resp" /\ host.script # <<>> /\ cmd = Head(host.script)
              \/ host.phase # "resp" /\ host.script = <<>>
<1>1. Handling /\ LinkType
    BY Zenon DEF Link, Unplugged, Listening, Sent, Resetting, Leaving
<1>2. host.script \in Seq(CommandType)
    BY <1>1, Zenon DEF LinkType, HostType
<1>3. resetHost.phase # "resp" /\ resetHost.script = <<>>
    BY Zenon DEF resetHost, idleHost
<1> QED
    BY <1>1, <1>2, <1>3 DEF Handling

LEMMA StepNamed ==
    ASSUME ToolScripts, LinkInv, LinkInv', NamedInv, [Next]_vars
    PROVE  NamedInv'
<1>1. /\ FullInv /\ DInv /\ DTypeOK /\ Link /\ LinkType /\ Link'
      /\ host.script \in Seq(CommandType)
    BY Zenon DEF LinkInv, FullInv, DInv, Link, LinkType, HostType
<1>2. pc = "rx" => configured
    BY <1>1, Zenon DEF Link, Unplugged, Listening, Sent, Handling, Resetting, Leaving, Downloading
<1>3. ASSUME d_size # 0 PROVE host.script # <<>> /\ Remaining = Tail(host.script)
    BY <1>1, <1>3, Zenon DEF Link, Downloading, Remaining
(* A script that is over names nothing.                                    *)
<1>NoScript.
      ASSUME host'.script = <<>>, FlashNamed'
      PROVE  NamedInv'
  <2> USE <1>NoScript
  <2>1. Remaining' = <<>>
      BY Zenon DEF Remaining
  <2> QED
      BY <2>1, EmptyScript, Zenon DEF NamedInv
(* Nothing that matters changes.                                           *)
<1>SameNames.
      ASSUME UNCHANGED <<pending_ptn, pending_ptn_name, d_legacy>>,
             Followed(host'.script), Queried(host'.script),
             Remaining' = Remaining, FlashNamed'
      PROVE  NamedInv'
  <2> USE <1>SameNames
  <2>1. (NameKept => NameKept') /\ (LegacyNamed => LegacyNamed')
      BY Zenon DEF NameKept, LegacyNamed
  <2> QED
      BY <2>1, Zenon DEF NamedInv
(* An answer to the command at the head of the script.                     *)
<1>HeadAnswered.
      ASSUME host.script # <<>>, ~tx.queued, d_size = 0, UNCHANGED host, tx'.queued, FlashNamed',
             FlashNext(Tail(host.script)) => LegacyNamed',
             DownloadNext(Tail(host.script)) => NameKept'
      PROVE  NamedInv'
  <2> USE <1>HeadAnswered
  <2>1. Remaining' = Tail(host.script)
      BY Zenon DEF Remaining
  <2> QED
      BY <2>1, Zenon DEF NamedInv
<1>4. CASE handleInterrupt
  <2>1. /\ UNCHANGED <<host, d_size, d_legacy, pending_ptn, pending_ptn_name>>
        /\ pc = "loop" /\ (events # <<>> \/ (configured /\ rx.actual # 0)) /\ events' = <<>>
    BY <1>4, Zenon DEF handleInterrupt, dlVars
  <2>2. Followed(host'.script) /\ Queried(host'.script)
    BY <2>1, Zenon DEF NamedInv
  <2>3. Remaining' = Remaining
    <3>1. CASE host.script = <<>> \/ d_size # 0
      BY <2>1, <3>1, Zenon DEF Remaining
    <3>2. CASE host.script # <<>> /\ d_size = 0
      <4>1. NoRx.actual = 0 /\ resetHost.script = <<>> /\ idleHost.script = <<>>
        BY Zenon DEF NoRx, resetHost, idleHost
      <4>2. \/ events = <<TxEvent>>
            \/ events = <<rxEvent(1, "rx", 0)>>
            \/ events = <<TxEvent, rxEvent(1, "rx", 0)>>
        BY <1>1, <2>1, <3>2, <4>1, Zenon
           DEF Link, Unplugged, Listening, Sent, Handling, Resetting, Leaving
      <4>3. tx' = tx \/ tx' = [tx EXCEPT !.status = "ok"]
        <5>1. CASE events = <<TxEvent>>
          <6>1. delivered = [usbState EXCEPT !.tx.status = "ok"]
            BY <5>1, DeliverOne, DeliverTx
          <6>2. delivered.tx = [tx EXCEPT !.status = "ok"]
            BY <6>1, Zenon DEF usbState
          <6> QED
            BY <1>4, <6>2, Zenon DEF handleInterrupt
        <5>2. CASE events = <<rxEvent(1, "rx", 0)>>
          BY <1>4, <5>2, BecomesRx, Zenon DEF Became
        <5>3. CASE events = <<TxEvent, rxEvent(1, "rx", 0)>>
          BY <1>4, <5>3, BecomesTxRx, Zenon DEF Became
        <5> QED
          BY <4>2, <5>1, <5>2, <5>3, Zenon
      <4>4. tx'.queued = tx.queued
        BY <1>1, <4>3, Zenon DEF LinkType, TxType
      <4> QED
        BY <2>1, <4>4, Zenon DEF Remaining
    <3> QED
      BY <3>1, <3>2, Zenon
  <2>4. ASSUME pc' = "rx", d_size' = 0, (cmd.op)' = "flash" PROVE LegacyNamed'
    <3>1. Handling'
      BY <1>1, <2>4, Zenon DEF Link, Unplugged, Listening, Sent, Resetting, Leaving
    <3>2. ~tx'.queued /\ host'.script # <<>> /\ cmd' = Head(host'.script)
      <4>1. events' # <<ResetEvent>>
        BY <2>1
      <4> QED
        BY <3>1, <4>1, Zenon DEF Handling
    <3>3. Remaining' = host.script
      BY <2>1, <2>4, <3>2, Zenon DEF Remaining
    <3>4. FlashNext(host.script)
      BY <1>1, <2>1, <2>4, <3>2, FlashHead, Zenon
    <3>5. LegacyNamed
      BY <2>3, <3>3, <3>4, Zenon DEF NamedInv
    <3> QED
      BY <2>1, <3>5, Zenon DEF LegacyNamed
  <2> QED
    BY <2>1, <2>2, <2>3, <2>4, <1>SameNames, Zenon DEF FlashNamed
(* The commands.                                                           *)
<1>5. CASE \/ getvar_partition_type \/ getvar_checksum \/ handle_erase \/ oem_unlock
           \/ oem_unlock_accept \/ oem_lock \/ handle_leave \/ unknown \/ handle_flash
           \/ handle_download \/ saveenv
  <2>1. /\ pc \in {"rx", "save", "save2"} /\ UNCHANGED host
        /\ pc \notin {"save", "save2"} => d_size = 0
    <3>1. CASE saveenv
      BY <1>1, <1>5, <3>1, Zenon DEF saveenv, saved, answer, LinkType
    <3> QED
      BY <1>5, <3>1, Zenon
         DEF getvar_partition_type, getvar_checksum, handle_erase, oem_unlock, answer,
             oem_unlock_accept, oem_lock, handle_leave, unknown, handle_flash, store_image,
             handle_download, handling, usbVars
  <2>2. d_size = 0
    BY <1>1, <2>1, Zenon DEF Link, Downloading, Offered, Awaiting, Received, Storing
  <2>3. pc' # "rx"
    <3>1. CASE saveenv
      <4>1. save.by \in {"lock", "accept", "init"}
        BY <1>1, <3>1, Zenon DEF saveenv, LinkType
      <4> QED
        BY <3>1, <4>1, Zenon DEF saveenv, saved, answer
    <3>2. CASE oem_lock \/ oem_unlock_accept
      BY <3>2, Zenon DEF oem_lock, oem_unlock_accept, set_unlocked, answer
    <3> QED
      BY <1>5, <3>1, <3>2, Zenon
         DEF getvar_partition_type, getvar_checksum, handle_erase, oem_unlock, answer,
             handle_leave, unknown, handle_flash, store_image, handle_download
  <2>4. FlashNamed'
    BY <2>3, Zenon DEF FlashNamed
  <2>5. CASE host.script = <<>>
    BY <2>1, <2>4, <2>5, <1>NoScript, Zenon
  <2>6. CASE host.script # <<>>
    <3>1. configured
      BY <1>1, <2>1, <2>2, <2>6 DEF Link, Unplugged, Listening, Sent, Handling, Resetting,
                                    Leaving, idleHost, resetHost
    <3>2. /\ ~tx.queued /\ tx.status = "ok" /\ cmd = Head(host.script)
          /\ pc # "rx" => cmd.op \in {"lock", "unlock_accept"}
      BY <1>1, <2>1, <2>2, <2>6, <3>1, HandledHead, Zenon
    <3>3. Remaining = host.script
      BY <2>2, <3>2, Zenon DEF Remaining
    <3>4. /\ DownloadNext(host.script) => NameKept
          /\ FlashNext(host.script) => LegacyNamed
      BY <3>3, Zenon DEF NamedInv
    <3>5. /\ FlashNext(Tail(host.script)) => \/ cmd.op = "download" /\ DownloadNext(host.script)
                                             \/ cmd.op \in Aside /\ FlashNext(host.script)
          /\ DownloadNext(Tail(host.script)) => \/ cmd.op = "type" /\ cmd.ptn # ""
                                                \/ cmd.op \in Aside /\ DownloadNext(host.script)
      BY <1>1, <2>6, <3>2, ScriptTail, Zenon DEF NamedInv
    <3>6. ASSUME NEW r, respond(r) PROVE tx'.queued
      BY <1>1, <3>2, <3>6 DEF respond, LinkType, TxType
    <3>7. CASE saveenv \/ oem_lock \/ oem_unlock_accept
      <4>1. UNCHANGED <<pending_ptn, pending_ptn_name, d_legacy, d_size>>
        BY <3>7, Zenon DEF saveenv, oem_lock, oem_unlock_accept, Command, dlVars
      <4>2. UNCHANGED tx \/ \E r : respond(r)
        BY <1>1, <2>1, <3>7, Zenon
           DEF saveenv, saved, oem_lock, oem_unlock_accept, answer, usbVars, LinkType
      <4>3. CASE UNCHANGED tx
        <5>1. Remaining' = Remaining
          BY <2>1, <4>1, <4>3, Zenon DEF Remaining
        <5> QED
          BY <2>1, <2>4, <4>1, <5>1, <1>SameNames, Zenon DEF NamedInv
      <4>4. CASE \E r : respond(r)
        <5>1. cmd.op \in {"lock", "unlock_accept"}
          BY <2>1, <3>2, <3>7, Zenon DEF saveenv, oem_lock, oem_unlock_accept, handling
        <5>2. (NameKept => NameKept') /\ (LegacyNamed => LegacyNamed')
          BY <4>1, Zenon DEF NameKept, LegacyNamed
        <5> QED
          BY <2>1, <2>2, <2>4, <2>6, <3>2, <3>4, <3>5, <3>6, <4>4, <5>1, <5>2,
             <1>HeadAnswered, Zenon DEF Aside
      <4> QED
        BY <4>2, <4>3, <4>4, Zenon
    <3>8. CASE \/ getvar_checksum \/ handle_erase \/ oem_unlock \/ handle_leave \/ unknown
      <4>1. /\ UNCHANGED <<pending_ptn, pending_ptn_name, d_legacy>>
            /\ cmd.op \in Aside \cup {"byte"} /\ \E r : respond(r)
        BY <3>8, Zenon
           DEF getvar_checksum, handle_erase, oem_unlock, handle_leave, unknown, answer,
               handling, Command, dlVars, Aside
      <4>2. (NameKept => NameKept') /\ (LegacyNamed => LegacyNamed')
        BY <4>1, Zenon DEF NameKept, LegacyNamed
      <4>3. cmd.op \notin {"download", "type"}
        BY <4>1, Zenon DEF Aside
      <4> QED
        BY <2>1, <2>2, <2>4, <2>6, <3>2, <3>4, <3>5, <3>6, <4>1, <4>2, <4>3,
           <1>HeadAnswered, Zenon
    <3>9. CASE getvar_partition_type
      <4>1. /\ cmd.op = "type" /\ \E r : respond(r)
            /\ pending_ptn_name' = cmd.ptn
            /\ pending_ptn' = IF cmd.ptn \in Partitions THEN cmd.ptn ELSE NoPtn
        BY <3>9, Zenon DEF getvar_partition_type, answer, handling
      <4>2. cmd.ptn # "" => NameKept'
        BY <4>1, FastbootAssumption, Zenon DEF NameKept
      <4> QED
        BY <2>1, <2>2, <2>4, <2>6, <3>2, <3>5, <3>6, <4>1, <4>2, <1>HeadAnswered, Zenon
           DEF Aside
    <3>10. CASE handle_flash
      <4>1. cmd.op = "flash" /\ \E r : respond(r)
        BY <3>10, Zenon DEF handle_flash, store_image, answer, handling
      <4> QED
        BY <2>1, <2>2, <2>4, <2>6, <3>2, <3>5, <3>6, <4>1, <1>HeadAnswered, Zenon
           DEF Aside
    <3>11. CASE handle_download
      <4>1. /\ cmd.op = "download" /\ \E r : respond(r)
            /\ UNCHANGED <<pending_ptn, pending_ptn_name>>
            /\ d_legacy' = (pending_ptn_name = "" \/ pending_ptn_name \in Verified)
        BY <3>11, Zenon
           DEF handle_download, Download, DownloadRefused, answer, handling
      <4>2. NameKept => LegacyNamed'
        BY <4>1, Zenon DEF NameKept, LegacyNamed
      <4> QED
        BY <2>1, <2>2, <2>4, <2>6, <3>2, <3>4, <3>5, <3>6, <4>1, <4>2, <1>HeadAnswered,
           Zenon DEF Aside
    <3> QED
      BY <1>5, <3>7, <3>8, <3>9, <3>10, <3>11, Zenon
  <2> QED
    BY <2>5, <2>6, Zenon
<1>6. CASE receivePiece \/ storePiece \/ finishPiece
  <2>1. /\ d_size # 0 /\ UNCHANGED <<host, pending_ptn, pending_ptn_name, d_legacy>>
        /\ pc' # "rx"
    <3>1. CASE receivePiece
      BY <3>1, Zenon DEF receivePiece, Receive
    <3>2. CASE storePiece \/ finishPiece
      <4>1. step # "idle"
        BY <3>2, Zenon
           DEF storePiece, handleDirectDownload, handleSparseDownload, finishPiece, Finish
      <4>2. d_size # 0 /\ pc # "rx"
        BY <1>1, <4>1, Zenon DEF DInv, Link, Downloading, Received, Storing, Offered, Awaiting
      <4> QED
        BY <3>2, <4>2, Zenon
           DEF storePiece, handleDirectDownload, handleSparseDownload, finishPiece, Finish
    <3> QED
      BY <1>6, <3>1, <3>2, Zenon
  <2>2. host.script # <<>> /\ Remaining = Tail(host.script)
    BY <1>3, <2>1, Zenon
  <2>3. d_size' # 0 \/ tx'.queued
    <3>1. CASE receivePiece \/ storePiece
      BY <2>1, <3>1, Zenon
         DEF receivePiece, Receive, storePiece, handleDirectDownload, handleSparseDownload
    <3>2. CASE finishPiece
      <4>1. pc = "data"
        BY <3>2, Zenon DEF finishPiece
      <4>2. tx.status = "ok"
        BY <1>1, <2>1, <4>1, Zenon DEF Link, Downloading, Received, Storing, Offered, Awaiting
      <4>3. d_size' = d_size \/ \E r : respond(r)
        BY <3>2, Zenon DEF finishPiece, Finish
      <4> QED
        BY <1>1, <2>1, <4>2, <4>3 DEF respond, LinkType, TxType
    <3> QED
      BY <1>6, <3>1, <3>2, Zenon
  <2>4. Remaining' = Remaining
    BY <2>1, <2>2, <2>3, Zenon DEF Remaining
  <2> QED
    BY <2>1, <2>4, <1>SameNames, Zenon DEF NamedInv, FlashNamed
<1>7. CASE leave \/ powerLoss \/ hostConfigure \/ powerOn \/ runKernel
  <2>0. idleHost.script = <<>> /\ resetHost.script = <<>>
    BY Zenon DEF idleHost, resetHost
  <2>1. host'.script = <<>>
    <3>1. CASE leave \/ powerLoss \/ hostConfigure
      <4>1. host' = idleHost
        BY <3>1, Zenon DEF leave, powerLoss, turnOff, hostConfigure
      <4> QED
        BY <2>0, <4>1, Zenon
    <3>2. CASE powerOn \/ runKernel
      <4>1. pc = "off" /\ UNCHANGED host
        BY <3>2 DEF powerOn, runKernel
      <4>2. host \in {idleHost, resetHost}
        BY <1>1, <4>1, Zenon
           DEF Link, Unplugged, Listening, Sent, Handling, Resetting, Leaving,
               Downloading, Offered, Awaiting, Received, Storing
      <4> QED
        BY <2>0, <4>1, <4>2, Zenon
    <3> QED
      BY <1>7, <3>1, <3>2, Zenon
  <2>2. pc' # "rx"
    <3>1. CASE hostConfigure
      BY <1>2, <3>1, Zenon DEF hostConfigure, hostMoves
    <3> QED
      BY <1>7, <3>1, Zenon DEF leave, powerLoss, turnOff, powerOn, set_unlocked, runKernel
  <2> QED
    BY <2>1, <2>2, <1>NoScript, Zenon DEF FlashNamed
<1>8. CASE hostReset \/ unlockExpires \/ UNCHANGED vars
  <2>1. UNCHANGED <<pc, mem, rx, d_size, d_legacy, pending_ptn, pending_ptn_name>>
    BY <1>8, Zenon DEF hostReset, unlockExpires, hostMoves, vars, dlVars, usbVars
  <2>2. FlashNamed'
    BY <2>1, Zenon DEF NamedInv, FlashNamed, LegacyNamed, cmd
  <2>3. CASE hostReset
    <3>1. host'.script = <<>>
      BY <2>3, Zenon DEF hostReset, idleHost
    <3> QED
      BY <2>2, <3>1, <1>NoScript, Zenon
  <2>4. CASE unlockExpires \/ UNCHANGED vars
    <3>1. UNCHANGED <<host, tx, d_size>>
      BY <2>4, Zenon DEF unlockExpires, vars, dlVars, usbVars
    <3>2. Remaining' = Remaining
      BY <3>1, Zenon DEF Remaining
    <3> QED
      BY <2>1, <2>2, <3>1, <3>2, <1>SameNames, Zenon DEF NamedInv
  <2> QED
    BY <1>8, <2>3, <2>4, Zenon
<1>9. CASE hostStart
  <2>1. PICK s \in Scripts : host' = [host EXCEPT !.script = s]
    BY <1>9, Zenon DEF hostStart
  <2>2. /\ host = idleHost /\ UNCHANGED <<tx, d_size, pc, mem, rx, d_legacy, pending_ptn>>
        /\ pc \notin {"off", "leave"}
    BY <1>9, Zenon DEF hostStart, attached, hostMoves, dlVars, usbVars
  <2>3. host'.script = s
    BY <1>1, <2>1, Zenon DEF LinkType, HostType
  <2>4. d_size = 0 /\ ~tx.queued /\ idleHost # resetHost
    BY <1>1, <2>2 DEF Link, Unplugged, Listening, Sent, Handling, Resetting, Leaving,
                      Downloading, idleHost, resetHost
  <2>5. Remaining' = s
    BY <2>2, <2>3, <2>4, Zenon DEF Remaining
  <2>6. FlashNamed'
    BY <2>2, Zenon DEF NamedInv, FlashNamed, LegacyNamed, cmd
  <2> QED
    BY <2>3, <2>5, <2>6, ScriptStart, Zenon DEF NamedInv
<1>10. CASE hostCommand \/ hostData
  <2>1. /\ UNCHANGED <<tx, d_size, pc, d_legacy, pending_ptn, pending_ptn_name>>
        /\ rxq # <<>>
    BY <1>10, Zenon DEF hostCommand, hostData, transfer, hostMoves, dlVars
  <2>2. host'.script = host.script
    BY <1>1, <1>10, Zenon DEF hostCommand, hostData, LinkType, HostType
  <2>3. Remaining' = Remaining
    BY <2>1, <2>2, Zenon DEF Remaining
  <2>4. FlashNamed'
    <3>1. ~(pc = "rx" /\ d_size = 0)
      BY <1>1, <2>1, Zenon DEF Link, Unplugged, Listening, Sent, Handling, Resetting, Leaving
    <3> QED
      BY <2>1, <3>1, Zenon DEF FlashNamed
  <2> QED
    BY <2>1, <2>2, <2>3, <2>4, <1>SameNames, Zenon DEF NamedInv
<1>11. CASE hostAnswer
  <2>1. /\ UNCHANGED <<d_size, pc, mem, rx, d_legacy, pending_ptn, pending_ptn_name>>
        /\ host.phase = "resp" /\ tx.queued /\ tx' = [tx EXCEPT !.queued = FALSE]
    BY <1>11, Zenon DEF hostAnswer, hostMoves, dlVars
  <2>2. ~tx'.queued
    BY <1>1, <2>1, Zenon DEF LinkType, TxType
  <2>3. FlashNamed'
    BY <2>1, Zenon DEF NamedInv, FlashNamed, LegacyNamed, cmd
  <2>4. /\ host.script # <<>> /\ (d_size = 0 <=> tx.buffer # DATA)
    BY <1>1, <2>1 DEF Link, Unplugged, Listening, Sent, Handling, Resetting, Leaving,
                      Downloading, Offered, Awaiting, Received, Storing, idleHost, resetHost,
                      OKAY, FAIL, DATA
  <2>5. Remaining = Tail(host.script)
    BY <2>1, <2>4, Zenon DEF Remaining
  <2>6. CASE host'.script = <<>>
    BY <2>3, <2>6, <1>NoScript, Zenon
  <2>7. CASE tx.buffer = DATA
    <3>1. host'.script = host.script
      BY <1>1, <1>11, <2>7, Zenon DEF hostAnswer, LinkType, HostType
    <3>2. Remaining' = Remaining
      BY <2>1, <2>4, <2>5, <2>7, <3>1, Zenon DEF Remaining
    <3> QED
      BY <2>1, <2>3, <3>1, <3>2, <1>SameNames, Zenon DEF NamedInv
  <2>8. CASE tx.buffer # DATA /\ host'.script # <<>>
    <3>0. idleHost.script = <<>>
      BY Zenon DEF idleHost
    <3>1. host' = [idleHost EXCEPT !.script = Tail(host.script)]
      BY <1>11, <2>8, <3>0, Zenon DEF hostAnswer
    <3>2. host'.script = Tail(host.script)
      BY <3>1 DEF idleHost
    <3>3. Remaining' = Remaining
      BY <2>1, <2>2, <2>4, <2>5, <2>8, <3>2, Zenon DEF Remaining
    <3>4. Followed(Tail(host.script)) /\ Queried(Tail(host.script))
      BY <1>1, <2>4, ScriptTail, Zenon DEF NamedInv
    <3> QED
      BY <2>1, <2>3, <3>2, <3>3, <3>4, <1>SameNames, Zenon
  <2> QED
    BY <2>6, <2>7, <2>8, Zenon
<1> QED
    BY <1>4, <1>5, <1>6, <1>7, <1>8, <1>9, <1>10, <1>11
       DEF Next, device, fbt_rx_process, hostGoesOn

(* A legacy image is flashed under the name that it was downloaded under,  *)
(* and so verified.                                                        *)
THEOREM NamesKept == ToolScripts => (Spec /\ []FailsLate => []NamedInv)
<1> SUFFICES ASSUME ToolScripts PROVE Spec /\ []FailsLate => []NamedInv
    BY Zenon
<1>1. Init => LinkInv /\ NamedInv
  <2> SUFFICES ASSUME Init PROVE NamedInv
    BY InitLink, Zenon
  <2>1. host.script = <<>> /\ pc # "rx"
    BY Zenon DEF Init, idleHost
  <2>2. Remaining = <<>>
    BY <2>1, Zenon DEF Remaining
  <2> QED
    BY <2>1, <2>2, EmptyScript, Zenon DEF NamedInv, FlashNamed
<1>2. LinkInv /\ NamedInv /\ FailsLate /\ [Next]_vars => LinkInv' /\ NamedInv'
    BY StepInvariant, StepNamed, Zenon
<1> QED
    BY <1>1, <1>2, PTL DEF Spec

-----------------------------------------------------------------------------
(* What the partitions hold.                                               *)

(* Sectors of an image are added to what a partition holds.                *)
Adds(img, c, W, e) ==
    /\ DOMAIN e = DOMAIN c \cup W
    /\ \A s \in DOMAIN c \ W : e[s] = c[s]
    /\ \A s \in W : s \in DOMAIN Expected(img) /\ e[s] = Expected(img)[s]

(* A sector of a raw image.                                                *)
LEMMA RawSector ==
    ASSUME NEW img \in Images, ~img.sparse, NEW s \in Nat, s * BLK < img.len
    PROVE  /\ s \in DOMAIN Expected(img)
           /\ Expected(img)[s] = Slice(img, s * BLK, Min2(BLK, img.len - s * BLK))
<1>1. BLK \in Nat /\ BLK > 0 /\ img.len \in Nat
    BY ImageDownloadAssumption DEF ImageType
<1>2. s <= s * BLK
  <2>1. PICK d \in Nat : BLK = 1 + d
    <3>1. BLK - 1 \in Nat /\ BLK = 1 + (BLK - 1)
      BY <1>1
    <3> QED
      BY <3>1, Zenon
  <2>2. s * BLK = s + s * d /\ s * d \in Nat
    BY <2>1
  <2> QED
    BY <2>2
<1>3. s \in {t \in 0..img.len : t * BLK < img.len}
  <2>1. s * BLK \in Nat
    BY <1>1
  <2> QED
    BY <1>1, <1>2, <2>1
<1>4. Expected(img) = [t \in {t \in 0..img.len : t * BLK < img.len} |->
                         Slice(img, t * BLK, Min2(BLK, img.len - t * BLK))]
    BY Zenon DEF Expected
<1> QED
    BY <1>3, <1>4, Zenon

(* Sectors k and on of a raw image, stored, n of the b that m bytes fill.  *)
LEMMA RawAdds ==
    ASSUME NEW img \in Images, ~img.sparse, NEW c, NEW k \in Nat, NEW m \in Nat,
           NEW b \in Nat, b = DIV_ROUND_UP(m, BLK), k * BLK + m <= img.len,
           b * BLK = m \/ k * BLK + m = img.len, NEW n \in 0..b
    PROVE  Adds(img, c, k..(k + n - 1), Store(c, k, n, Slice(img, k * BLK, m)))
<1> DEFINE W == k..(k + n - 1)
           w == Slice(img, k * BLK, m)
           e == Store(c, k, n, w)
           S(s) == SubSeq(w, (s - k) * BLK + 1, Min2(Len(w), (s - k + 1) * BLK))
<1>1. BLK \in Nat /\ BLK > 0 /\ img.len \in Nat /\ k * BLK \in Nat
    BY ImageDownloadAssumption DEF ImageType
<1>2. DOMAIN e = DOMAIN c \cup W /\ \A s \in DOMAIN c \ W : e[s] = c[s]
    BY Zenon DEF Store
<1>3. ASSUME NEW s \in W PROVE s \in DOMAIN Expected(img) /\ e[s] = Expected(img)[s]
  <2>1. s \in k..(k + b - 1) /\ s \in Nat
    OBVIOUS
  <2>2. Store(c, k, b, w)[s] = Slice(img, s * BLK, Min2(BLK, img.len - s * BLK))
    BY <2>1, StoreRaw
  <2>3. Store(c, k, b, w)[s] = S(s)
    BY <2>1, Zenon DEF Store
  <2>4. e[s] = S(s)
    BY Zenon DEF Store
  <2>5. s * BLK < img.len
    <3>1. PICK j \in Nat : s = k + j /\ j < b
      <4>1. s - k \in Nat /\ s = k + (s - k) /\ s - k < b
        BY <2>1
      <4> QED
        BY <4>1, Zenon
    <3>2. s * BLK = k * BLK + j * BLK /\ j * BLK \in Nat
      BY <1>1, <3>1
    <3>3. j * BLK + BLK <= b * BLK
      BY <3>1, SectorStart
    <3>4. b * BLK < m + BLK /\ b * BLK \in Nat
      BY <1>1, NeededSectors
    <3> QED
      BY <1>1, <3>2, <3>3, <3>4
  <2> HIDE DEF w, e, S
  <2> QED
    BY <2>1, <2>2, <2>3, <2>4, <2>5, RawSector, Zenon
<1> QED
    BY <1>2, <1>3, Zenon DEF Adds

(* A partition is given contents that are true to the images.              *)
Renewed(p) == \E e : disk' = [disk EXCEPT ![p] = e] /\ TrueContents(e)

LEMMA EmptyTrue == TrueContents(<<>>) /\ TrueContents(UserData)
<1>1. TrueContents(<<>>)
    BY DEF TrueContents
<1>2. TrueContents(UserData)
  <2>1. \A s \in DOMAIN UserData : \A i \in DOMAIN UserData[s] : UserData[s][i].img = "user"
    BY DEF UserData
  <2>2. \A img \in Images : img.id # "user"
    BY NamesAssumption, Zenon DEF ImageIds
  <2> QED
    BY <2>1, <2>2 DEF TrueContents, TrueSector
<1> QED
    BY <1>1, <1>2, Zenon

(* A legacy image that verifies is raw, and whole in the transfer buffer.  *)
LEMMA VerifiedImage ==
    ASSUME DTypeOK, LinkType, verifies
    PROVE  /\ ~image.sparse /\ image.len \in Nat /\ image.len = d_bytes
           /\ SubSeq(mem.b0, 1, d_bytes) = Slice(image, 0, image.len)
<1>1. /\ image \in Images /\ d_bytes \in Nat /\ image.len \in Nat /\ 0 \in Nat
    BY ImageDownloadAssumption, Zenon DEF DTypeOK, ImageType
<1>2. image.signed /\ SubSeq(mem.b0, 1, d_bytes) = Slice(image, 0, image.len)
    BY Zenon DEF verifies
<1>3. Len(Slice(image, 0, image.len)) = image.len
    BY <1>1, SliceProps, Zenon
<1>4. Len(SubSeq(mem.b0, 1, d_bytes)) = d_bytes
    BY <1>1
<1> QED
    BY <1>1, <1>2, <1>3, <1>4, NamesAssumption

(* A flash stores a legacy image that verifies, or nothing.                *)
LEMMA FlashStores ==
    ASSUME DTypeOK, LinkType, FlashNamed, handle_flash
    PROVE  \/ /\ UNCHANGED disk
              /\ answer(FAIL) \/ (~d_legacy /\ pending_ptn = cmd.ptn /\ d_status > 0)
           \/ /\ d_legacy /\ verifies /\ cmd.ptn \in Partitions
              /\ \E n \in 0..DIV_ROUND_UP(d_bytes, BLK) :
                   /\ disk' = [disk EXCEPT ![cmd.ptn] =
                                 Store(disk[cmd.ptn], 0, n, SubSeq(mem.b0, 1, d_bytes))]
                   /\ answer(IF n = DIV_ROUND_UP(d_bytes, BLK) THEN OKAY ELSE FAIL)
<1>1. d_legacy => pending_ptn \in Verified
    BY Zenon DEF handle_flash, handling, FlashNamed, LegacyNamed
<1>2. CASE d_legacy /\ verifies /\ unlocked /\ d_bytes # 0 /\ cmd.ptn \in Partitions
  <2>1. store_image(cmd.ptn)
    BY <1>2, Zenon DEF handle_flash
  <2>2. ~image.sparse
    BY <1>2, VerifiedImage, Zenon
  <2> QED
    BY <1>2, <2>1, <2>2, Zenon DEF store_image
<1>3. CASE ~(d_legacy /\ verifies /\ unlocked /\ d_bytes # 0 /\ cmd.ptn \in Partitions)
  <2>1. CASE d_legacy
    BY <1>1, <1>3, <2>1, Zenon DEF handle_flash
  <2>2. CASE ~d_legacy
    <3>1. d_status > 0 <=> ~(d_status <= 0)
      BY DEF DTypeOK
    <3> QED
      BY <2>2, <3>1, Zenon DEF handle_flash
  <2> QED
    BY <2>1, <2>2, Zenon
<1> QED
    BY <1>2, <1>3, Zenon

LEMMA StepContents ==
    ASSUME LinkInv, NamedInv, ContentsInv, [Next]_vars
    PROVE  ContentsInv'
<1>ExpectedBytes.
      ASSUME NEW img \in Images, NEW s \in DOMAIN Expected(img),
             NEW i \in DOMAIN Expected(img)[s]
      PROVE  Expected(img)[s][i].img \in {img.id, "zero"}
  <2> USE <1>ExpectedBytes
  <2>1. \E x, n : Expected(img)[s] = Slice(img, x, n)
    <3>1. CASE img.sparse
      <4>1. PICK k \in 1..Len(img.chunks) : s \in Extent(img, k)
        BY <3>1, ExpectedOnly, Zenon
      <4> QED
        BY <3>1, <4>1, ExpectedSector, Zenon
    <3>2. CASE ~img.sparse
      BY <3>2, Zenon DEF Expected
    <3> QED
      BY <3>1, <3>2, Zenon
  <2>2. PICK x, n : Expected(img)[s] = Slice(img, x, n)
      BY <2>1, Zenon
  <2>3. \A j \in 1..n : Slice(img, x, n)[j] = Byte(img, x + j)
      BY Zenon DEF Slice
  <2>4. i \in 1..n
      BY <2>2, Zenon DEF Slice
  <2>5. \A j : Byte(img, j).img \in {img.id, "zero"}
      BY Zenon DEF Byte, Zero
  <2> QED
      BY <2>2, <2>3, <2>4, <2>5, Zenon
<1>AddsTrue.
      ASSUME NEW img \in Images, NEW c, NEW W, NEW e, Adds(img, c, W, e), TrueContents(c)
      PROVE  TrueContents(e)
  <2> USE <1>AddsTrue
  <2> SUFFICES ASSUME NEW a \in Images, NEW s \in DOMAIN e, NEW i \in DOMAIN e[s],
                      e[s][i].img = a.id
               PROVE  s \in DOMAIN Expected(a) /\ e[s] = Expected(a)[s]
      BY Zenon DEF TrueContents, TrueSector
  <2>1. CASE s \notin W
      BY <2>1 DEF Adds, TrueContents, TrueSector
  <2>2. CASE s \in W
    <3>1. s \in DOMAIN Expected(img) /\ e[s] = Expected(img)[s]
      BY <2>2, Zenon DEF Adds
    <3>2. e[s][i].img \in {img.id, "zero"}
      BY <3>1, <1>ExpectedBytes, Zenon
    <3>3. a.id \in ImageIds
      BY Zenon DEF ImageIds
    <3>4. a = img
      BY <3>2, <3>3, NamesAssumption, Zenon
    <3> QED
      BY <3>1, <3>4, Zenon
  <2> QED
      BY <2>1, <2>2, Zenon
<1>StoreTrue.
      ASSUME FullInv, ContentsInv, storePiece
      PROVE  UNCHANGED disk \/ \E p : Renewed(p)
  <2> USE <1>StoreTrue
  <2>1. CASE UNCHANGED disk
      BY <2>1, Zenon
  <2>2. CASE disk' # disk
    <3>1. PICK m, b, p, k : /\ m = writeLen /\ b = DIV_ROUND_UP(m, BLK)
                            /\ p = pending_ptn /\ k = d_direct_offset
      BY Zenon
    <3>2. PICK c : c = disk[p]
      BY Zenon
    <3>3. step = "direct" /\ disk' = [disk EXCEPT ![p] = Store(c, k, b, SubSeq(work, 1, m))]
      BY <2>2, <3>1, <3>2, Zenon DEF storePiece, handleDirectDownload, handleSparseDownload
    <3>4. /\ DInv /\ DTypeOK /\ p \in Partitions /\ image \in Images /\ k \in Nat
          /\ d_size # 0 /\ ~d_legacy
      BY <3>1, <3>3 DEF FullInv, DInv, DTypeOK
    <3>5. PICK img \in Images : img = image
      BY <3>4, Zenon
    <3>6. TrueContents(c)
      BY <3>2, <3>4, Zenon DEF ContentsInv
    <3>7. PICK e : e = Store(c, k, b, SubSeq(work, 1, m))
      BY Zenon
    <3>8. \E W : Adds(img, c, W, e)
      <4>1. CASE ~flag_sparse
        <5>1. /\ m \in Nat /\ b \in Nat /\ SubSeq(work, 1, m) = Slice(image, k * BLK, m)
              /\ k * BLK + m <= image.len
              /\ b * BLK = m \/ k * BLK + m = image.len
          BY <3>1, <3>3, <3>4, <4>1, DirectRaw, Zenon
        <5>2. ~image.sparse
          BY <3>3, <3>4, <4>1 DEF DInv, RawInv, At
        <5>3. b \in 0..b
          BY <5>1
        <5>4. Adds(img, c, k..(k + b - 1), Store(c, k, b, Slice(img, k * BLK, m)))
          BY <3>1, <3>4, <3>5, <5>1, <5>2, <5>3, RawAdds
        <5> QED
          BY <3>5, <3>7, <5>1, <5>4, Zenon
      <4>2. CASE flag_sparse
        <5>1. PICK n : n = d_bytes + length - Len(work)
          BY Zenon
        <5>2. Tracks(n, work) /\ InExtent
          BY <3>3, <3>4, <4>2, <5>1 DEF FullInv, SparseInv
        <5>3. /\ SubSeq(work, 1, m) = Slice(image, n, m)
              /\ \A s \in k..(k + b - 1) :
                   /\ s \in DOMAIN Expected(image)
                   /\ Store(c, k, b, Slice(image, n, m))[s] = Expected(image)[s]
          <6>1. SubSeq(work, 1, m) = Slice(image, n, m) /\ StoredInPlace(n, m, b)
            BY <3>1, <3>4, <5>2, SparseWrite, Zenon
          <6> QED
            BY <3>1, <6>1, Zenon DEF StoredInPlace
        <5>4. /\ DOMAIN e = DOMAIN c \cup k..(k + b - 1)
              /\ \A s \in DOMAIN c \ (k..(k + b - 1)) : e[s] = c[s]
          BY <3>7, Zenon DEF Store
        <5>5. Adds(img, c, k..(k + b - 1), e)
          BY <3>5, <3>7, <5>3, <5>4, Zenon DEF Adds
        <5> QED
          BY <5>5, Zenon
      <4> QED
        BY <4>1, <4>2, Zenon
    <3>9. TrueContents(e)
      BY <3>6, <3>8, <1>AddsTrue, Zenon
    <3>10. Renewed(p)
      BY <3>3, <3>7, <3>9, Zenon DEF Renewed
    <3> QED
      BY <3>10, Zenon
  <2> QED
      BY <2>1, <2>2
<1>FlashTrueContents.
      ASSUME FullInv, ContentsInv, Link, FlashNamed, handle_flash
      PROVE  UNCHANGED disk \/ \E p : Renewed(p)
  <2> USE <1>FlashTrueContents
  <2>1. CASE UNCHANGED disk
      BY <2>1, Zenon
  <2>2. CASE disk' # disk
    <3>0. PICK p : p = cmd.ptn
      BY Zenon
    <3>2. DTypeOK /\ LinkType /\ image \in Images
      BY Zenon DEF FullInv, DInv, DTypeOK, Link
    <3>1. /\ verifies /\ p \in Partitions
          /\ \E n \in 0..DIV_ROUND_UP(d_bytes, BLK) :
                disk' = [disk EXCEPT ![p] = Store(disk[p], 0, n, SubSeq(mem.b0, 1, d_bytes))]
      BY <2>2, <3>0, <3>2, FlashStores, Zenon
    <3>3. PICK img \in Images, m \in Nat : img = image /\ m = image.len
      BY <3>1, <3>2, VerifiedImage, Zenon
    <3>4. ~img.sparse /\ d_bytes = m /\ SubSeq(mem.b0, 1, d_bytes) = Slice(img, 0, m)
      BY <3>1, <3>2, <3>3, VerifiedImage, Zenon
    <3>5. PICK b : b = DIV_ROUND_UP(m, BLK)
      BY Zenon
    <3>6. b \in Nat
      BY <3>5, NeededSectors, Zenon
    <3>7. PICK n \in 0..b : disk' = [disk EXCEPT ![p] = Store(disk[p], 0, n, Slice(img, 0, m))]
      BY <3>1, <3>4, <3>5, Zenon
    <3>8. PICK c : c = disk[p]
      BY Zenon
    <3>9. 0 \in Nat /\ 0 * BLK = 0 /\ 0 * BLK + m = img.len
      BY <3>3, ImageDownloadAssumption
    <3>10. Adds(img, c, 0..(0 + n - 1), Store(c, 0, n, Slice(img, 0 * BLK, m)))
      BY <3>4, <3>5, <3>6, <3>9, RawAdds
    <3>11. TrueContents(Store(c, 0, n, Slice(img, 0, m)))
      BY <3>1, <3>8, <3>9, <3>10, <1>AddsTrue DEF ContentsInv
    <3> QED
      BY <3>1, <3>7, <3>8, <3>11, Zenon DEF Renewed
  <2> QED
      BY <2>1, <2>2, Zenon
<1>1. FullInv /\ DTypeOK /\ Link /\ LinkType
    BY Zenon DEF LinkInv, FullInv, DInv, Link
<1>2. UNCHANGED disk \/ \E p : Renewed(p)
  <2>1. CASE storePiece
    BY <1>1, <2>1, <1>StoreTrue, Zenon
  <2>2. CASE handle_flash
    BY <1>1, <2>2, <1>FlashTrueContents, Zenon DEF NamedInv
  <2>3. CASE runKernel \/ leave
    BY <2>3, EmptyTrue, Zenon DEF runKernel, leave, Renewed
  <2>4. CASE ~storePiece /\ ~handle_flash /\ ~runKernel /\ ~leave
    <3>1. UNCHANGED disk
      BY <2>4, Zenon
         DEF Next, device, fbt_rx_process, hostGoesOn, handleInterrupt, getvar_checksum,
             oem_unlock, oem_unlock_accept, oem_lock, handle_leave, unknown, saveenv,
             unlockExpires, powerOn, hostStart, hostConfigure, hostCommand, hostData,
             hostAnswer, hostReset, transfer, hostMoves, getvar_partition_type,
             handle_download, Download, DownloadRefused, handle_erase, erase, receivePiece,
             Receive, finishPiece, Finish, powerLoss, vars, dlVars
    <3> QED
      BY <3>1, Zenon
  <2> QED
    BY <2>1, <2>2, <2>3, <2>4
<1>3. CASE UNCHANGED disk
    BY <1>3, Zenon DEF ContentsInv
<1>4. ASSUME NEW p, Renewed(p) PROVE ContentsInv'
  <2>1. PICK e : disk' = [disk EXCEPT ![p] = e] /\ TrueContents(e)
    BY <1>4, Zenon DEF Renewed
  <2>2. \A q \in Partitions : disk'[q] = IF q = p THEN e ELSE disk[q]
    BY <1>1, <2>1, Zenon DEF DTypeOK
  <2>3. \A q \in Partitions : TrueContents(disk'[q])
    BY <2>1, <2>2, Zenon DEF ContentsInv
  <2> QED
    BY <2>3, Zenon DEF ContentsInv
<1> QED
    BY <1>2, <1>3, <1>4, Zenon

(* A sector that has bytes of an image has what the image puts there,      *)
(* whichever image, and for as long as it is there.                        *)
THEOREM ContentsKept == ToolScripts => (Spec /\ []FailsLate => []ContentsInv)
<1> SUFFICES ASSUME ToolScripts PROVE Spec /\ []FailsLate => []ContentsInv
    BY Zenon
<1>1. Init => LinkInv /\ ContentsInv
  <2>1. Init => ContentsInv
    BY EmptyTrue, Zenon DEF Init, ContentsInv
  <2> QED
    BY <2>1, InitLink, Zenon
<1>2. LinkInv /\ NamedInv /\ ContentsInv /\ FailsLate /\ [Next]_vars
        => LinkInv' /\ ContentsInv'
    BY StepInvariant, StepContents, Zenon
<1> QED
    BY <1>1, <1>2, NamesKept, PTL DEF Spec

(* Nothing of the image in hand is written in the wrong place, twice or    *)
(* from a buffer already reused.                                           *)
THEOREM WrittenTrue == ToolScripts => (Spec /\ []FailsLate => []WrittenIsImage)
<1>1. LinkInv /\ ContentsInv => WrittenIsImage
  <2>1. LinkInv => image \in Images
    BY Zenon DEF LinkInv, FullInv, DInv, DTypeOK
  <2> QED
    BY <2>1, Zenon DEF ContentsInv, TrueContents, TrueSector, WrittenIsImage
<1> QED
    BY <1>1, LinkKept, ContentsKept, PTL

-----------------------------------------------------------------------------
(* What a flash command is told.                                           *)

LEMMA StepFlash ==
    ASSUME ToolScripts, LinkInv, NamedInv, FlashInv, [Next]_vars
    PROVE  FlashInv'
(* A script that is over has nothing to be told.                           *)
<1>NoScript.
      ASSUME host'.script = <<>>, host'.phase # "resp"
      PROVE  FlashInv'
  <2> USE <1>NoScript
  <2> QED
      BY EmptyScript, Zenon DEF FlashInv, FlashTrue, Uploaded
(* An answer to another command than download and flash.                   *)
<1>OtherAnswer.
      ASSUME FlashInv, UNCHANGED host,
             host.phase = "resp" => Head(host.script).op \notin {"download", "flash"},
             d_size' = 0 /\ FlashNext(host.script) =>
                UNCHANGED <<d_size, d_legacy, d_status, pending_ptn, disk, image>>
      PROVE  FlashInv'
  <2> USE <1>OtherAnswer
  <2>1. FlashTrue' /\ ~Uploaded'
      BY Zenon DEF FlashInv, FlashTrue, Uploaded
  <2>2. ASSUME d_size' = 0, FlashNext(host'.script) PROVE StreamedInPlace'
    <3>1. /\ d_size' = d_size /\ d_legacy' = d_legacy /\ d_status' = d_status
          /\ pending_ptn' = pending_ptn /\ disk' = disk /\ image' = image
          /\ host'.script = host.script
      BY <2>2, Zenon
    <3>2. d_size = 0 /\ FlashNext(host.script)
      BY <2>2, <3>1, Zenon
    <3>3. StreamedInPlace
      BY <3>2, Zenon DEF FlashInv
    <3> QED
      BY <3>1, <3>3, Zenon DEF StreamedInPlace, Holds
  <2> QED
      BY <2>1, <2>2, Zenon DEF FlashInv
(* Nothing that matters changes.                                           *)
<1>SameFlash.
      ASSUME FlashInv,
             UNCHANGED <<host, d_size, d_legacy, d_status, pending_ptn, disk, image>>,
             tx'.queued => tx.queued /\ tx'.buffer = tx.buffer
      PROVE  FlashInv'
  <2> USE <1>SameFlash
  <2>1. FlashTrue'
      BY Zenon DEF FlashInv, FlashTrue, Holds
  <2>2. Uploaded' => Uploaded
      BY Zenon DEF Uploaded
  <2>3. StreamedInPlace => StreamedInPlace'
      BY Zenon DEF StreamedInPlace, Holds
  <2> QED
      BY <2>1, <2>2, <2>3, Zenon DEF FlashInv
(* The flash command itself.                                               *)
<1>FlashFlash.
      ASSUME LinkInv, FlashNamed, FlashInv, handle_flash
      PROVE  FlashInv'
  <2> USE <1>FlashFlash
  <2>1. /\ pc = "rx" /\ d_size = 0 /\ cmd.op = "flash" /\ pending_ptn' = NoPtn
        /\ UNCHANGED <<host, image, d_size, d_bytes, d_legacy, d_status>>
      BY Zenon DEF handle_flash, store_image, handling, Command, progress, answer
  <2>2. FullInv /\ DTypeOK /\ Link /\ LinkType
      BY Zenon DEF LinkInv, FullInv, DInv, Link
  <2>3. configured
      BY <2>1, <2>2, Zenon DEF Link, Unplugged, Listening, Sent, Handling, Resetting, Leaving
  <2>4. /\ ~tx.queued /\ tx.status = "ok" /\ cmd \in CommandType
        /\ host.script \in Seq(CommandType)
        /\ \/ host.phase = "resp" /\ host.script # <<>> /\ cmd = Head(host.script)
           \/ host.phase # "resp" /\ host.script = <<>>
      BY <2>1, <2>2, <2>3, HandledHead, Zenon
  <2>5. CASE host.phase # "resp" /\ host.script = <<>>
      BY <2>1, <2>5, <1>NoScript, Zenon
  <2>6. CASE host.phase = "resp" /\ host.script # <<>> /\ cmd = Head(host.script)
    <3>1. StreamedInPlace'
      BY <2>1, ImageDownloadAssumption, Zenon DEF StreamedInPlace
    <3>2. ASSUME tx'.queued, tx'.buffer = OKAY PROVE Holds(disk'[cmd.ptn], image)
      <4> DEFINE p == cmd.ptn
                 blocks == DIV_ROUND_UP(d_bytes, BLK)
      <4>1. ASSUME answer(FAIL) PROVE FALSE
        BY <2>4, <3>2, <4>1, Zenon DEF answer, respond, OKAY, FAIL
      <4>2. \/ UNCHANGED disk /\ ~d_legacy /\ pending_ptn = p /\ d_status > 0
            \/ /\ d_legacy /\ verifies /\ p \in Partitions
               /\ disk' = [disk EXCEPT ![p] = Store(disk[p], 0, blocks, SubSeq(mem.b0, 1, d_bytes))]
        BY <2>2, <4>1, FlashStores, Zenon
      <4>3. p \in STRING
        BY <2>1, <2>4, Zenon DEF CommandType
      <4>4. CASE ~d_legacy
        <5>1. pending_ptn = p /\ d_status = 1 /\ UNCHANGED disk
          BY <2>2, <4>2, <4>4 DEF DTypeOK
        <5>2. pending_ptn \in Partitions
          BY <2>2, <4>3, <5>1, NamesAssumption, Zenon DEF DTypeOK
        <5>3. FlashNext(host.script)
          BY <2>1, <2>4, <2>6, FlashHead, Zenon
        <5>4. StreamedInPlace
          BY <2>1, <5>3, Zenon DEF FlashInv
        <5> QED
          BY <4>4, <5>1, <5>2, <5>4, Zenon DEF StreamedInPlace
      <4>5. CASE d_legacy
        <5>1. /\ verifies /\ p \in Partitions
              /\ disk' = [disk EXCEPT ![p] = Store(disk[p], 0, blocks, SubSeq(mem.b0, 1, d_bytes))]
          BY <4>2, <4>5, Zenon
        <5>2. PICK img \in Images, m \in Nat : img = image /\ m = image.len
          BY <2>2, <5>1, VerifiedImage, Zenon DEF DTypeOK
        <5>3. ~img.sparse /\ d_bytes = m /\ SubSeq(mem.b0, 1, d_bytes) = Slice(img, 0, m)
          BY <2>2, <5>1, <5>2, VerifiedImage, Zenon
        <5>4. PICK b : b = DIV_ROUND_UP(m, BLK)
          BY Zenon
        <5>5. b \in Nat /\ m <= b * BLK /\ BLK \in Nat /\ BLK > 0
          BY <5>4, NeededSectors, ImageDownloadAssumption
        <5>6. PICK c, e : c = disk[p] /\ e = Store(c, 0, b, Slice(img, 0, m))
          BY Zenon
        <5>7. disk'[p] = e
          BY <2>2, <5>1, <5>3, <5>4, <5>6, Zenon DEF DTypeOK
        <5>8. 0 \in Nat /\ 0 * BLK = 0 /\ 0 * BLK + m = img.len
          BY <5>2, <5>5
        <5>a. PICK n \in 0..b : n = b
          BY <5>5
        <5>b. b \in Nat
          BY <5>5, Zenon
        <5>9. Adds(img, c, 0..(0 + n - 1), Store(c, 0, n, Slice(img, 0 * BLK, m)))
          BY <5>3, <5>4, <5>8, <5>b, RawAdds
        <5>10. Adds(img, c, 0..(b - 1), e)
          BY <5>5, <5>6, <5>8, <5>9, <5>a
        <5>11. \A s \in DOMAIN Expected(img) : s \in 0..(b - 1)
          <6> TAKE s \in DOMAIN Expected(img)
          <6>1. s \in 0..m /\ s * BLK < m
            BY <5>2, <5>3, Zenon DEF Expected
          <6>2. s \in Nat /\ s * BLK < b * BLK
            BY <5>5, <6>1
          <6>3. SUFFICES ASSUME s >= b PROVE FALSE
            BY <5>5, <6>2
          <6>4. s * BLK = b * BLK + (s - b) * BLK /\ (s - b) * BLK >= 0
            BY <5>5, <6>2, <6>3
          <6> QED
            BY <5>5, <6>2, <6>4
        <5>12. Holds(e, img)
          BY <5>10, <5>11, Zenon DEF Adds, Holds
        <5> QED
          BY <5>2, <5>7, <5>12, Zenon
      <4> QED
        BY <4>4, <4>5, Zenon
    <3>3. FlashTrue'
      BY <2>1, <2>6, <3>2, Zenon DEF FlashTrue
    <3> QED
      BY <3>1, <3>3, Zenon DEF FlashInv
  <2> QED
      BY <2>4, <2>5, <2>6, Zenon
<1>1. FullInv /\ DInv /\ DTypeOK /\ Link /\ LinkType /\ host.script \in Seq(CommandType)
    BY Zenon DEF LinkInv, FullInv, DInv, Link, LinkType, HostType
<1>2. pc = "rx" => configured
    BY <1>1, Zenon DEF Link, Unplugged, Listening, Sent, Handling, Resetting, Leaving, Downloading
<1>3. ASSUME host.phase = "idle", pc # "leave" PROVE ~tx.queued
    BY <1>1, <1>3 DEF Link, Unplugged, Listening, Sent, Handling, Resetting, Leaving,
                      Downloading, Offered, Awaiting, Received, Storing, resetHost, idleHost
<1>4. CASE handleInterrupt
  <2>1. /\ UNCHANGED <<host, d_size, d_legacy, d_status, pending_ptn, disk, image>>
        /\ pc = "loop" /\ (events # <<>> \/ (configured /\ rx.actual # 0))
    BY <1>4, Zenon DEF handleInterrupt, dlVars, progress
  <2>2. CASE d_size # 0
    <3>1. Head(host.script).op = "download"
      BY <1>1, <2>2 DEF Link, Downloading
    <3> QED
      BY <2>1, <2>2, <3>1, Zenon DEF FlashInv, FlashTrue
  <2>3. CASE host.phase # "resp"
    <3>1. FlashTrue' /\ ~Uploaded'
      BY <2>1, <2>3, Zenon DEF FlashTrue, Uploaded
    <3>2. StreamedInPlace => StreamedInPlace'
      BY <2>1, Zenon DEF StreamedInPlace, Holds
    <3> QED
      BY <2>1, <3>1, <3>2, Zenon DEF FlashInv
  <2>4. CASE d_size = 0 /\ host.phase = "resp"
    <3>1. NoRx.actual = 0 /\ resetHost.phase # "resp" /\ idleHost.phase # "resp"
      BY Zenon DEF NoRx, resetHost, idleHost
    <3>2. Sent
      BY <1>1, <2>1, <2>4, <3>1, Zenon
         DEF Link, Unplugged, Listening, Handling, Resetting, Leaving
    <3>3. tx' = [tx EXCEPT !.status = "ok"]
      <4>1. CASE events = <<rxEvent(1, "rx", 0)>> /\ tx.status = "ok"
        <5>1. Became(configured, given(1, "rx", 0), rxq, tx)
          BY <1>4, <4>1, BecomesRx, Zenon
        <5>2. tx = [tx EXCEPT !.status = "ok"]
          BY <1>1, <4>1, Zenon DEF LinkType, TxType
        <5> QED
          BY <5>1, <5>2, Zenon DEF Became
      <4>2. CASE events = <<TxEvent, rxEvent(1, "rx", 0)>>
        <5>1. Became(configured, given(1, "rx", 0), rxq, [tx EXCEPT !.status = "ok"])
          BY <1>4, <4>2, BecomesTxRx, Zenon
        <5> QED
          BY <5>1, Zenon DEF Became
      <4> QED
        BY <3>2, <4>1, <4>2, Zenon DEF Sent
    <3>4. ~tx'.queued
      <4>1. ~tx.queued
        BY <3>2, Zenon DEF Sent
      <4> QED
        BY <1>1, <3>3, <4>1, Zenon DEF LinkType, TxType
    <3> QED
      BY <2>1, <3>4, <1>SameFlash, Zenon
  <2> QED
    BY <2>2, <2>3, <2>4, Zenon
<1>5. CASE \/ getvar_partition_type \/ getvar_checksum \/ handle_erase \/ oem_unlock
           \/ oem_unlock_accept \/ oem_lock \/ handle_leave \/ unknown
  <2>1. /\ pc = "rx" /\ d_size = 0 /\ UNCHANGED host
        /\ cmd.op \in {"type", "unlock_accept", "byte"} \cup Aside
    BY <1>5, Zenon
       DEF getvar_partition_type, getvar_checksum, handle_erase, oem_unlock, answer,
           oem_unlock_accept, oem_lock, handle_leave, unknown, handling, usbVars, Aside
  <2>2. \/ cmd.op \in {"type", "unlock_accept"}
        \/ UNCHANGED <<d_size, d_legacy, d_status, pending_ptn, disk, image>>
    BY <1>5, Zenon
       DEF getvar_partition_type, getvar_checksum, handle_erase, erase, oem_unlock, answer,
           oem_unlock_accept, oem_lock, handle_leave, unknown, handling, Command, dlVars,
           progress
  <2>3. \/ host.phase = "resp" /\ host.script # <<>> /\ cmd = Head(host.script)
        \/ host.phase # "resp" /\ host.script = <<>>
    BY <1>1, <1>2, <2>1, HandledHead, Zenon
  <2>4. CASE host.phase # "resp" /\ host.script = <<>>
    BY <2>1, <2>4, <1>NoScript, Zenon
  <2>5. CASE host.phase = "resp" /\ host.script # <<>> /\ cmd = Head(host.script)
    <3>1. Head(host.script).op \notin {"download", "flash"}
      BY <2>1, <2>5, Zenon DEF Aside
    <3>2. FlashNext(host.script) => cmd.op \notin {"type", "unlock_accept"}
      BY <1>1, <2>5, FlashHead, Zenon DEF Aside
    <3> QED
      BY <2>1, <2>2, <3>1, <3>2, <1>OtherAnswer, Zenon
  <2> QED
    BY <2>3, <2>4, <2>5, Zenon
<1>6. CASE handle_download
  <2>1. /\ pc = "rx" /\ d_size = 0 /\ UNCHANGED host /\ cmd.op = "download"
        /\ answer(FAIL) \/ respond(DATA)
    BY <1>6, Zenon DEF handle_download, handling, answer
  <2>2. /\ tx.status = "ok"
        /\ \/ host.phase = "resp" /\ host.script # <<>> /\ cmd = Head(host.script)
           \/ host.phase # "resp" /\ host.script = <<>>
    BY <1>1, <1>2, <2>1, HandledHead, Zenon
  <2>3. tx'.buffer # OKAY
    BY <2>1, <2>2 DEF answer, respond, OKAY, FAIL, DATA
  <2>4. CASE host.phase # "resp" /\ host.script = <<>>
    BY <2>1, <2>4, <1>NoScript, Zenon
  <2>5. CASE host.phase = "resp" /\ host.script # <<>> /\ cmd = Head(host.script)
    <3>1. ~FlashNext(host.script)
      BY <1>1, <2>1, <2>5, FlashHead, Zenon DEF Aside
    <3> QED
      BY <2>1, <2>3, <3>1, Zenon DEF FlashInv, FlashTrue, Uploaded
  <2> QED
    BY <2>2, <2>4, <2>5, Zenon
<1>7. CASE handle_flash
    BY <1>7, <1>FlashFlash, Zenon DEF NamedInv
<1>8. CASE receivePiece \/ storePiece
  <2>1. d_size # 0 /\ UNCHANGED <<host, d_size>>
    <3>1. CASE receivePiece
      BY <3>1, Zenon DEF receivePiece, Receive
    <3>2. CASE storePiece
      <4>1. step # "idle" /\ UNCHANGED <<host, d_size>>
        BY <3>2, Zenon DEF storePiece, handleDirectDownload, handleSparseDownload
      <4> QED
        BY <1>1, <4>1, Zenon DEF DInv
    <3> QED
      BY <1>8, <3>1, <3>2, Zenon
  <2>2. Head(host.script).op = "download"
    BY <1>1, <2>1 DEF Link, Downloading
  <2> QED
    BY <2>1, <2>2, Zenon DEF FlashInv, FlashTrue
<1>9. CASE finishPiece
  <2>1. /\ step = "done" /\ pc = "data"
        /\ UNCHANGED <<host, d_legacy, d_status, pending_ptn, disk, image>>
    BY <1>9, Zenon DEF finishPiece, Finish, progress
  <2>2. d_size # 0 /\ Downloading
    BY <1>1, <2>1, Zenon DEF DInv, Link
  <2>3. host.script # <<>> /\ Head(host.script).op = "download"
    BY <2>2 DEF Downloading
  <2>4. ~FlashNext(host.script)
    BY <1>1, <2>3, FlashHead, Zenon DEF Aside
  <2>5. ImageComplete
    BY <1>1, FullComplete, Zenon
  <2>6. StreamedInPlace'
    BY <2>1, <2>5, Zenon DEF ImageComplete, StreamedInPlace, Holds
  <2> QED
    BY <2>1, <2>3, <2>6, Zenon DEF FlashInv, FlashTrue
<1>10. CASE saveenv
  <2>1. /\ pc \in {"save", "save2"} /\ UNCHANGED dlVars
        /\ (UNCHANGED tx /\ UNCHANGED host) \/ saved
    BY <1>10, Zenon DEF saveenv, usbVars
  <2>2. d_size = 0
    BY <1>1, <2>1, Zenon DEF Link, Downloading, Offered, Awaiting, Received, Storing
  <2>3. save.by \in {"lock", "accept", "init"}
    BY <1>1, <2>1, Zenon DEF LinkType
  <2>4. UNCHANGED <<host, d_size, d_legacy, d_status, pending_ptn, disk, image>>
    BY <2>1, <2>3, Zenon DEF saved, answer, dlVars, progress
  <2>5. CASE configured
    <3>1. /\ cmd.op \in {"lock", "unlock_accept"}
          /\ \/ host.phase = "resp" /\ host.script # <<>> /\ cmd = Head(host.script)
             \/ host.phase # "resp" /\ host.script = <<>>
      BY <1>1, <2>1, <2>2, <2>5, HandledHead, Zenon
    <3> QED
      BY <2>4, <3>1, <1>OtherAnswer, Zenon
  <2>6. CASE ~configured
    <3>1. host \in {idleHost, resetHost}
      BY <1>1, <2>1, <2>2, <2>6, Zenon
         DEF Link, Unplugged, Listening, Sent, Handling, Resetting, Leaving
    <3> QED
      BY <2>4, <3>1, <1>NoScript DEF idleHost, resetHost
  <2> QED
    BY <2>5, <2>6, Zenon
<1>11. CASE leave \/ powerLoss \/ hostConfigure \/ hostReset
  <2>1. host' \in {idleHost, resetHost}
    BY <1>11, Zenon DEF leave, powerLoss, turnOff, hostConfigure, hostReset, resetHost
  <2> QED
    BY <2>1, <1>NoScript DEF idleHost, resetHost
<1>12. CASE powerOn \/ runKernel
  <2>1. pc = "off" /\ UNCHANGED host
    BY <1>12 DEF powerOn, runKernel
  <2>2. host \in {idleHost, resetHost}
    BY <1>1, <2>1, Zenon DEF Link, Unplugged, Listening, Sent, Handling, Resetting, Leaving,
                      Downloading, Offered, Awaiting, Received, Storing
  <2> QED
    BY <2>1, <2>2, <1>NoScript DEF idleHost, resetHost
<1>13. CASE unlockExpires \/ UNCHANGED vars
  <2>1. UNCHANGED <<host, d_size, d_legacy, d_status, pending_ptn, disk, image, tx>>
    BY <1>13, Zenon DEF unlockExpires, vars, dlVars, progress, usbVars
  <2> QED
    BY <2>1, <1>SameFlash, Zenon
<1>14. CASE hostStart
  <2>1. PICK s \in Scripts : host' = [host EXCEPT !.script = s]
    BY <1>14, Zenon DEF hostStart
  <2>2. host.phase = "idle"
    BY <1>14, Zenon DEF hostStart, idleHost
  <2>3. host'.phase = "idle" /\ host'.script = s
    BY <1>1, <2>1, <2>2, Zenon DEF LinkType, HostType
  <2>4. ~FlashNext(s)
    BY ScriptStart, Zenon
  <2> QED
    BY <2>3, <2>4, Zenon DEF FlashInv, FlashTrue, Uploaded
<1>15. CASE hostCommand \/ hostData
  <2>1. /\ UNCHANGED <<d_size, d_legacy, d_status, pending_ptn, disk, image, tx>>
        /\ host.phase \in {"idle", "data"} /\ pc # "leave"
    BY <1>15, Zenon DEF hostCommand, hostData, transfer, hostMoves, dlVars, progress, attached
  <2>2. host'.script = host.script
    BY <1>1, <1>15, Zenon DEF hostCommand, hostData, LinkType, HostType
  <2>3. ~tx.queued
    <3>1. CASE host.phase = "idle"
      BY <1>3, <2>1, <3>1
    <3>2. CASE host.phase = "data"
      BY <1>1, <3>2
         DEF Link, Unplugged, Listening, Sent, Handling, Resetting, Leaving,
             Downloading, Offered, Awaiting, Received, Storing, idleHost, resetHost
    <3> QED
      BY <2>1, <3>1, <3>2, Zenon
  <2>4. FlashTrue' /\ ~Uploaded'
    BY <2>1, <2>3, Zenon DEF FlashTrue, Uploaded
  <2>5. StreamedInPlace => StreamedInPlace'
    BY <2>1, Zenon DEF StreamedInPlace, Holds
  <2> QED
    BY <2>1, <2>2, <2>4, <2>5, Zenon DEF FlashInv
<1>16. CASE hostAnswer
  <2>1. /\ UNCHANGED <<d_size, d_legacy, d_status, pending_ptn, disk, image>>
        /\ host.phase = "resp" /\ tx.queued /\ tx' = [tx EXCEPT !.queued = FALSE]
    BY <1>16, Zenon DEF hostAnswer, hostMoves, dlVars, progress
  <2>2. ~tx'.queued
    BY <1>1, <2>1, Zenon DEF LinkType, TxType
  <2>3. FlashTrue' /\ ~Uploaded'
    BY <2>2, Zenon DEF FlashTrue, Uploaded
  <2>4. StreamedInPlace => StreamedInPlace'
    BY <2>1, Zenon DEF StreamedInPlace, Holds
  <2>5. CASE tx.buffer = DATA
    <3>1. host'.script = host.script
      BY <1>1, <1>16, <2>5, Zenon DEF hostAnswer, LinkType, HostType
    <3> QED
      BY <2>1, <2>3, <2>4, <3>1, Zenon DEF FlashInv
  <2>6. CASE host' = idleHost
    BY <2>6, <1>NoScript, Zenon DEF idleHost
  <2>7. CASE /\ tx.buffer # DATA /\ host' # idleHost
    <3>1. /\ tx.buffer = OKAY \/ Head(host.script).op = "type"
          /\ host' = [idleHost EXCEPT !.script = Tail(host.script)]
      BY <1>16, <2>7, Zenon DEF hostAnswer
    <3>2. host'.script = Tail(host.script)
      BY <3>1 DEF idleHost
    <3>3. host.script # <<>>
      BY <1>1, <2>1 DEF Link, Unplugged, Listening, Sent, Handling, Resetting, Leaving,
                        Downloading, idleHost, resetHost
    <3>4. FlashNext(Tail(host.script)) =>
               Head(host.script).op = "download" \/ FlashNext(host.script)
      BY <1>1, <3>3, ScriptTail, Zenon DEF NamedInv
    <3>5. FlashNext(host.script) => Head(host.script).op # "type"
      BY <1>1, <3>3, FlashHead, Zenon DEF Aside
    <3>6. ASSUME d_size = 0, FlashNext(Tail(host.script)) PROVE StreamedInPlace
      <4>1. CASE FlashNext(host.script)
        BY <3>6, <4>1, Zenon DEF FlashInv
      <4>2. CASE Head(host.script).op = "download"
        <5>1. Uploaded
          BY <2>1, <3>1, <4>2, Zenon DEF Uploaded
        <5> QED
          BY <3>6, <5>1, Zenon DEF FlashInv
      <4> QED
        BY <3>4, <3>6, <4>1, <4>2, Zenon
    <3> QED
      BY <2>1, <2>3, <2>4, <3>2, <3>6 DEF FlashInv
  <2> QED
    BY <2>5, <2>6, <2>7, Zenon
<1> QED
    BY <1>4, <1>5, <1>6, <1>7, <1>8, <1>9, <1>10, <1>11, <1>12, <1>13, <1>14, <1>15, <1>16
       DEF Next, device, fbt_rx_process, hostGoesOn

LEMMA InitFlash == Init => FlashInv
<1> SUFFICES ASSUME Init PROVE FlashInv
    OBVIOUS
<1>1. host.phase # "resp" /\ host.script = <<>>
    BY Zenon DEF Init, idleHost
<1> QED
    BY <1>1, EmptyScript, Zenon DEF FlashInv, FlashTrue, Uploaded

(* The invariant that the runs check, all of it.                           *)
THEOREM GadgetInvariant == ToolScripts => (Spec /\ []FailsLate => []FInv)
<1> SUFFICES ASSUME ToolScripts PROVE Spec /\ []FailsLate => []FInv
    BY Zenon
<1>1. Init => LinkInv /\ FlashInv
    BY InitLink, InitFlash, Zenon
<1>2. LinkInv /\ NamedInv /\ FlashInv /\ FailsLate /\ [Next]_vars => LinkInv' /\ FlashInv'
    BY StepInvariant, StepFlash, Zenon
<1>3. LinkInv /\ FailsLate /\ LockInv /\ NamedInv /\ ContentsInv /\ FlashInv => FInv
    BY Zenon DEF FInv
<1> QED
    BY <1>1, <1>2, <1>3, LockKept, NamesKept, ContentsKept, PTL DEF Spec

(* A flash command that is told OKAY has its image on its partition,       *)
(* streamed there or verified and stored, wherever a write was refused or  *)
(* the power failed before.                                                *)
THEOREM FlashesTold == ToolScripts => (Spec /\ []FailsLate => []FlashTrue)
<1>1. FInv => FlashTrue
    BY Zenon DEF FInv, FlashInv
<1> QED
    BY <1>1, GadgetInvariant, PTL

=============================================================================
