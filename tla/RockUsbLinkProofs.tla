------------------------- MODULE RockUsbLinkProofs -------------------------
(***************************************************************************)
(* The gadget, the two endpoints and the host stay in step, for every      *)
(* orderly session.                                                        *)
(***************************************************************************)
EXTENDS RockUsbProofs

-----------------------------------------------------------------------------
(* The situations of the link, of a device record.                         *)
Rests(s) == Idle(s.in) /\ s.u.tx = "OK"

Sending(s, len) == Busy(s.in, 1 - s.u.txbuf_num, len) /\ s.u.tx = "IN_PROGRESS"

Sent(s) == s.tb[1 - s.u.txbuf_num]

Listening(s, len) ==
    Busy(s.out, 1 - s.u.rxbuf_num, len) /\ s.u.rx.status = "READY" /\ s.u.rx.actual = 0

(* The status of the command with that tag is being sent, and the next     *)
(* command awaited.                                                        *)
Answers(s, tag) ==
    /\ s.u.status = "IDLE" /\ Listening(s, UNIT) /\ Sending(s, 1)
    /\ Sent(s).kind = "csw" /\ Sent(s).tag = tag

SameAhead(u, v) == v.pre_lba = u.pre_lba /\ v.pre_blocks = u.pre_blocks

(* A request queued to an endpoint at rest is the only one, and started.   *)
LEMMA QueueIdle ==
    ASSUME NEW ep, Idle(ep), NEW k, NEW len
    PROVE  Busy(dwc3_gadget_ep_queue(ep, [buf |-> k, len |-> len]), k, len)
<1> DEFINE r == [buf |-> k, len |-> len]
<1>1. ep = [queue |-> << >>, busy |-> FALSE, enabled |-> TRUE, stray |-> FALSE]
    BY Zenon DEF Idle, NoEp
<1>2. Append(<< >>, r) = <<r>>
    OBVIOUS
<1> HIDE DEF r
<1>3. dwc3_gadget_ep_queue(ep, r) =
        [queue |-> <<r>>, busy |-> TRUE, enabled |-> TRUE, stray |-> FALSE]
    BY <1>1, <1>2, Zenon DEF dwc3_gadget_ep_queue
<1> QED
    BY <1>3, Zenon DEF Busy, r

(* rkusb_send_csw with both endpoints at rest.                             *)
LEMMA CswSent ==
    ASSUME NEW s \in DevType, Rests(s), Idle(s.out)
    PROVE  LET t == rkusb_send_csw(s)
           IN  /\ t \in DevType /\ Answers(t, s.u.cbw.tag) /\ SameRest(s, t)
               /\ SameAhead(s.u, t.u) /\ t.u.cbw = s.u.cbw /\ t.u.lba = s.u.lba
               /\ t.u.reset_flag = s.u.reset_flag /\ t.u.rxbuf_num = 1 - s.u.rxbuf_num
<1> DEFINE t == SendCsw(s, s.u.cbw.tag)
           k == s.u.txbuf_num
           n == s.u.rxbuf_num
           rx == [status |-> "READY", actual |-> 0, buf |-> 0]
           c == Csw(s.u.cbw.tag, s.u.csw)
           r == [s.u EXCEPT !.tx = "IN_PROGRESS", !.txbuf_num = 1 - k, !.rx = rx,
                            !.rxbuf_num = 1 - n, !.status = "IDLE"]
<1>1. rkusb_send_csw(s) = t
    BY Zenon DEF rkusb_send_csw, Rests
<1>2. s.u \in UsbcmdType /\ s.u.cbw.tag \in 0 .. 1 /\ k \in 0 .. 1 /\ n \in 0 .. 1
    BY Zenon DEF DevType, UsbcmdType, CmdType
<1>3. /\ t \in DevType /\ SameRest(s, t) /\ t.u = r /\ t.tb = [s.tb EXCEPT ![k] = c]
      /\ t.in = dwc3_gadget_ep_queue(s.in, [buf |-> k, len |-> 1])
      /\ t.out = dwc3_gadget_ep_queue(s.out, [buf |-> n, len |-> UNIT])
    BY <1>2, SendCswEffect, Zenon
<1>4. Busy(t.in, k, 1) /\ Busy(t.out, n, UNIT)
    BY <1>3, QueueIdle DEF Rests
<1>5. /\ r.tx = "IN_PROGRESS" /\ r.txbuf_num = 1 - k /\ r.rx = rx /\ r.rxbuf_num = 1 - n
      /\ r.status = "IDLE" /\ r.cbw = s.u.cbw /\ r.lba = s.u.lba /\ SameAhead(s.u, r)
      /\ r.reset_flag = s.u.reset_flag
    BY <1>2, Zenon DEF UsbcmdType, SameAhead
<1>6. 1 - (1 - k) = k /\ 1 - (1 - n) = n
    BY <1>2
<1>7. t.tb[k] = c
    BY <1>2, <1>3, Zenon DEF DevType
<1>8. c.kind = "csw" /\ c.tag = s.u.cbw.tag
    BY Zenon DEF Csw
<1> HIDE DEF t, r, c, k, n
<1>9. Listening(t, UNIT)
    BY <1>3, <1>4, <1>5, <1>6 DEF Listening
<1>10. Sending(t, 1) /\ Sent(t) = c
    BY <1>3, <1>4, <1>5, <1>6, <1>7, Zenon DEF Sending, Sent
<1> QED
    BY <1>1, <1>3, <1>5, <1>8, <1>9, <1>10, Zenon DEF Answers, n

(* A command with no data stage is answered in the pass that takes it.     *)
LEMMA ServeControl ==
    ASSUME NEW s \in DevType, NEW rb \in [0 .. 1 -> ContentType],
           NEW c, c = Fetched(s, rb), Control(c.op), HasCommand(s.u), Rests(s), Idle(s.out)
    PROVE  LET t == Serve(s, rb)
           IN  /\ t \in DevType /\ Answers(t, c.tag) /\ SameAhead(s.u, t.u)
               /\ t.med = s.med /\ t.sec = s.sec
<1> DEFINE a == Taken(s, c)
           b == do_rockusb_cmd(s, rb)
           t == rkusb_send_csw(b)
<1>1. c \in CmdType
    BY FetchedTyped, Zenon
<1>2. OnlyU(s, a, [s.u EXCEPT !.cbw = c, !.status = "CMD"])
    BY <1>1, TakenEffect, Zenon
<1>3. ControlDone(a, b)
    BY ControlCommand, Zenon
<1>4. Serve(s, rb) = IF b.u.status = "CSW" THEN t ELSE b
  <2>1. ASSUME b.u.status = "CSW" PROVE ~Responds(b.u)
    BY <2>1, Zenon DEF Responds
  <2>2. b.u.status = "CSW"
    <3>1. a.u \in UsbcmdType
      BY <1>2, Zenon DEF OnlyU, DevType
    <3> HIDE DEF a, b
    <3> QED
      BY <1>3, <3>1, Zenon DEF ControlDone, UsbcmdType
  <2> HIDE DEF b
  <2>3. Serve(s, rb) = LET s1 == b
                           s2 == IF Responds(s1.u) THEN rkusb_handle_response(s1, rb) ELSE s1
                       IN  IF s2.u.status = "CSW" THEN rkusb_send_csw(s2) ELSE s2
    BY Zenon DEF Serve, b
  <2> QED
    BY <2>1, <2>2, <2>3, Zenon
<1> HIDE DEF a, b
<1>5. a \in DevType /\ a.u = [s.u EXCEPT !.cbw = c, !.status = "CMD"] /\ a.in = s.in /\ a.out = s.out
    BY <1>2, Zenon DEF OnlyU
<1>6. s.u \in UsbcmdType
    BY Zenon DEF DevType
<1>7. a.u \in UsbcmdType /\ a.u.cbw = c /\ a.u.tx = s.u.tx /\ SameAhead(s.u, a.u)
    BY <1>5, <1>6, <1>1, Zenon DEF UsbcmdType, SameAhead
<1>8. /\ b \in DevType /\ b.in = a.in /\ b.out = a.out /\ b.med = a.med /\ b.sec = a.sec
      /\ b.u.status = "CSW" /\ b.u.cbw = c /\ b.u.tx = s.u.tx /\ SameAhead(s.u, b.u)
    BY <1>3, <1>7 DEF ControlDone, UsbcmdType, SameAhead
<1>9. Rests(b) /\ Idle(b.out)
    BY <1>5, <1>8, Zenon DEF Rests
<1>10. /\ t \in DevType /\ Answers(t, b.u.cbw.tag) /\ SameRest(b, t) /\ SameAhead(b.u, t.u)
    BY <1>8, <1>9, CswSent, Zenon
<1>11. a.med = s.med /\ a.sec = s.sec
    BY <1>2, Zenon DEF OnlyU, SameRest
<1> HIDE DEF t
<1> QED
    BY <1>4, <1>8, <1>10, <1>11, Zenon DEF SameRest, SameAhead

(* A short answer is sent in the pass that takes the command.              *)
LEMMA ServeShort ==
    ASSUME NEW s \in DevType, NEW rb \in [0 .. 1 -> ContentType],
           NEW c, c = Fetched(s, rb), c.op \in Small, HasCommand(s.u), Rests(s)
    PROVE  LET t == Serve(s, rb)
           IN  /\ t \in DevType /\ t.u.status = "CSW" /\ t.u.cbw = c /\ t.out = s.out
               /\ Sending(t, 1) /\ Sent(t).kind = "small" /\ SameAhead(s.u, t.u)
               /\ SameRest(s, t) /\ t.u.reset_flag = s.u.reset_flag
<1> DEFINE k == s.u.txbuf_num
           b == do_rockusb_cmd(s, rb)
           t == SendShortAnswer(b)
           y == [b.u EXCEPT !.tx = "IN_PROGRESS", !.txbuf_num = 1 - b.u.txbuf_num,
                            !.csw = "GOOD", !.status = "CSW"]
<1>1. c \in CmdType /\ s.u \in UsbcmdType /\ k \in 0 .. 1
    BY FetchedTyped, Zenon DEF DevType, UsbcmdType
<1>2. /\ b \in DevType /\ b.u = [s.u EXCEPT !.cbw = c, !.csw = "GOOD", !.status = "TXDATA"]
      /\ b.tb = [s.tb EXCEPT ![k] = SmallData] /\ b.in = s.in /\ b.out = s.out /\ SameRest(s, b)
  <2>1. ShortReady(s, b, c)
    BY ShortAnswerCommand, Zenon
  <2> HIDE DEF b
  <2> QED
    BY <2>1, Zenon DEF ShortReady
<1>3. Serve(s, rb) = LET s2 == IF Responds(b.u) THEN rkusb_handle_response(b, rb) ELSE b
                     IN  IF s2.u.status = "CSW" THEN rkusb_send_csw(s2) ELSE s2
    BY Zenon DEF Serve
<1> HIDE DEF b
<1>4. /\ b.u \in UsbcmdType /\ b.u.cbw = c /\ b.u.status = "TXDATA" /\ b.u.tx = s.u.tx
      /\ b.u.txbuf_num = k /\ SameAhead(s.u, b.u) /\ b.u.reset_flag = s.u.reset_flag
    BY <1>1, <1>2 DEF UsbcmdType, SameAhead, DevType
<1>5. Responds(b.u) /\ rkusb_handle_response(b, rb) = t
    BY <1>4, Zenon DEF Responds, rkusb_handle_response
<1>6. /\ t \in DevType /\ t.u = y /\ t.out = b.out /\ t.tb = b.tb /\ SameRest(b, t)
      /\ t.in = dwc3_gadget_ep_queue(b.in, [buf |-> b.u.txbuf_num, len |-> 1])
    BY <1>2, ShortAnswerEffect, Zenon
<1>7. /\ y.tx = "IN_PROGRESS" /\ y.txbuf_num = 1 - k /\ y.status = "CSW" /\ y.cbw = c
      /\ SameAhead(s.u, y) /\ y.reset_flag = s.u.reset_flag
    BY <1>4, Zenon DEF UsbcmdType, SameAhead
<1> HIDE DEF t, y
<1>8. Serve(s, rb) = t
    BY <1>3, <1>5, <1>6, <1>7, Zenon DEF rkusb_send_csw
<1>9. Busy(t.in, k, 1)
    BY <1>2, <1>4, <1>6, QueueIdle DEF Rests
<1>10. 1 - (1 - k) = k /\ b.tb[k].kind = "small"
    BY <1>1, <1>2 DEF DevType, SmallData
<1> HIDE DEF k
<1>11. Sending(t, 1) /\ Sent(t).kind = "small"
    BY <1>6, <1>7, <1>9, <1>10 DEF Sending, Sent
<1>12. SameRest(s, t)
    BY <1>2, <1>6, Zenon DEF SameRest
<1> QED
    BY <1>2, <1>6, <1>7, <1>8, <1>11, <1>12

-----------------------------------------------------------------------------
(* Downloads.                                                              *)
LEMMA RoundUpWhole ==
    ASSUME NEW n \in Nat
    PROVE  RoundUp(n * UNIT) = n * UNIT
    BY DEF RoundUp, UNIT

(* More is wanted: the next request is queued, for what remains.           *)
LEMMA MoreWanted ==
    ASSUME NEW s \in DevType, NEW d \in Nat, NEW n \in Nat, d < n,
           s.u.d_bytes = d * UNIT, s.u.d_size = n * UNIT, Idle(s.out)
    PROVE  LET t == RxGoOn(s)
           IN  /\ t \in DevType /\ t.u.status = "RXDATA" /\ t.u.cbw = s.u.cbw
               /\ t.u.d_bytes = s.u.d_bytes /\ t.u.d_size = s.u.d_size /\ t.u.lba = s.u.lba
               /\ Listening(t, Min2(n - d, BLOCK_MAX) * UNIT) /\ t.in = s.in /\ t.u.tx = s.u.tx
               /\ SameAhead(s.u, t.u) /\ t.u.reset_flag = s.u.reset_flag /\ SameRest(s, t)
               /\ t.tb = s.tb /\ t.u.rxbuf_num = 1 - s.u.rxbuf_num
<1> DEFINE t == RxGoOn(s)
           k == s.u.rxbuf_num
           rx == [status |-> "READY", actual |-> 0, buf |-> 0]
           m == Min2(n - d, BLOCK_MAX)
           r == [s.u EXCEPT !.rx = rx, !.rxbuf_num = 1 - k, !.status = "RXDATA"]
<1>1. s.u \in UsbcmdType /\ k \in 0 .. 1
    BY Zenon DEF DevType, UsbcmdType
<1>2. s.u.d_bytes < s.u.d_size /\ (s.u.d_size - s.u.d_bytes) \div UNIT = n - d
    BY DEF UNIT
<1>3. /\ t \in DevType /\ t.u = r /\ t.in = s.in /\ t.tb = s.tb /\ SameRest(s, t)
      /\ t.out = dwc3_gadget_ep_queue(s.out, [buf |-> k, len |-> RoundUp(m * UNIT)])
    BY <1>2, RxMoreEffect, Zenon
<1>4. m \in Nat
    BY RockUsbAssumption DEF Min2
<1> HIDE DEF m
<1>5. Busy(t.out, k, m * UNIT)
    BY <1>3, <1>4, RoundUpWhole, QueueIdle
<1>6. /\ r.status = "RXDATA" /\ r.cbw = s.u.cbw /\ r.d_bytes = s.u.d_bytes
      /\ r.d_size = s.u.d_size /\ r.lba = s.u.lba /\ r.tx = s.u.tx /\ SameAhead(s.u, r)
      /\ r.reset_flag = s.u.reset_flag /\ r.rx = rx /\ r.rxbuf_num = 1 - k
    BY <1>1, Zenon DEF UsbcmdType, SameAhead
<1>7. rx.status = "READY" /\ rx.actual = 0 /\ 1 - (1 - k) = k
    BY <1>1
<1> HIDE DEF t, r, k, rx
<1>8. Listening(t, m * UNIT)
    BY <1>3, <1>5, <1>6, <1>7 DEF Listening
<1> QED
    BY <1>3, <1>6, <1>8 DEF t, m, k

(* Nothing more is wanted: the status is sent.                             *)
LEMMA NoMoreWanted ==
    ASSUME NEW s \in DevType, s.u.d_bytes = s.u.d_size, Rests(s), Idle(s.out)
    PROVE  LET t == RxGoOn(s)
           IN  /\ t \in DevType /\ Answers(t, s.u.cbw.tag) /\ t.u.cbw = s.u.cbw
               /\ t.u.lba = s.u.lba /\ SameAhead(s.u, t.u) /\ SameRest(s, t)
               /\ t.u.reset_flag = s.u.reset_flag /\ t.u.rxbuf_num = 1 - s.u.rxbuf_num
<1>1. s.u \in UsbcmdType /\ s.u.d_bytes \in Nat
    BY Zenon DEF DevType, UsbcmdType
<1>2. PICK a \in DevType : OnlyU(s, a, [s.u EXCEPT !.csw = "GOOD"]) /\ RxGoOn(s) = rkusb_send_csw(a)
    BY <1>1, RxLastEffect
<1>3. /\ a.in = s.in /\ a.out = s.out /\ SameRest(s, a)
      /\ a.u = [s.u EXCEPT !.csw = "GOOD"]
    BY <1>2 DEF OnlyU
<1>4. /\ a.u.tx = s.u.tx /\ a.u.cbw = s.u.cbw /\ a.u.lba = s.u.lba /\ SameAhead(s.u, a.u)
      /\ a.u.reset_flag = s.u.reset_flag /\ a.u.rxbuf_num = s.u.rxbuf_num
    BY <1>1, <1>3 DEF UsbcmdType, SameAhead
<1>5. Rests(a) /\ Idle(a.out)
    BY <1>3, <1>4, Zenon DEF Rests
<1> DEFINE t == rkusb_send_csw(a)
<1>6. /\ t \in DevType /\ Answers(t, a.u.cbw.tag) /\ SameRest(a, t)
      /\ SameAhead(a.u, t.u) /\ t.u.cbw = a.u.cbw /\ t.u.lba = a.u.lba
      /\ t.u.reset_flag = a.u.reset_flag /\ t.u.rxbuf_num = 1 - a.u.rxbuf_num
    BY <1>5, CswSent
<1> HIDE DEF t
<1>7. SameRest(s, t) /\ SameAhead(s.u, t.u)
    BY <1>3, <1>4, <1>6 DEF SameRest, SameAhead
<1> QED
    BY <1>2, <1>4, <1>6, <1>7 DEF t

(* What a write command leaves of the blocks read ahead.                   *)
KeepsAhead(u, v) == v.pre_blocks # 0 => SameAhead(u, v)

(* A write command: its first buffer is requested, or, when it is for no   *)
(* blocks, the status sent.                                                *)
LEMMA ServeWrite ==
    ASSUME NEW s \in DevType, NEW rb \in [0 .. 1 -> ContentType],
           NEW c, c = Fetched(s, rb), c.op \in Writes, HasCommand(s.u), Rests(s), Idle(s.out)
    PROVE  LET t == Serve(s, rb)
           IN  /\ t \in DevType /\ SameRest(s, t) /\ KeepsAhead(s.u, t.u)
               /\ t.u.reset_flag = s.u.reset_flag
               /\ c.n = 0 => Answers(t, c.tag)
               /\ c.n > 0 => /\ t.u.status = "RXDATA" /\ t.u.cbw = c /\ t.u.lba = c.lba
                             /\ t.u.d_size = c.n * UNIT /\ t.u.d_bytes = 0 * UNIT
                             /\ Rests(t) /\ Listening(t, Min2(c.n, BLOCK_MAX) * UNIT)
<1> DEFINE x == [s.u.rx EXCEPT !.actual = 0]
           l == IF Kept(s.u, c) THEN s.u.pre_lba ELSE 0
           p == IF Kept(s.u, c) THEN s.u.pre_blocks ELSE 0
           r == [s.u EXCEPT !.cbw = c, !.d_size = c.n * UNIT, !.d_bytes = 0, !.lba = c.lba,
                            !.rx = x, !.status = "RXDATA_PREPARE", !.pre_lba = l, !.pre_blocks = p]
           b == do_rockusb_cmd(s, rb)
           d == Counted(b)
           y == [b.u EXCEPT !.d_bytes = b.u.d_bytes + b.u.rx.actual]
           t == RxGoOn(d)
<1>1. c \in CmdType /\ c.n \in Nat /\ s.u \in UsbcmdType /\ s.u.rx \in RxType
    BY FetchedTyped DEF CmdType, DevType, UsbcmdType
<1>2. OnlyU(s, b, r)
    BY WriteCommand, Zenon
<1>3. Serve(s, rb) = LET s2 == IF Responds(b.u) THEN rkusb_handle_response(b, rb) ELSE b
                     IN  IF s2.u.status = "CSW" THEN rkusb_send_csw(s2) ELSE s2
    BY Zenon DEF Serve
<1>4. x.actual = 0
    BY <1>1, Zenon DEF RxType
<1>5. p # 0 => p = s.u.pre_blocks /\ l = s.u.pre_lba
    BY Zenon
<1> HIDE DEF b, x, l, p
<1>6. /\ r.cbw = c /\ r.d_size = c.n * UNIT /\ r.d_bytes = 0 /\ r.lba = c.lba /\ r.rx = x
      /\ r.status = "RXDATA_PREPARE" /\ r.pre_lba = l /\ r.pre_blocks = p /\ r.tx = s.u.tx
      /\ r.reset_flag = s.u.reset_flag
    BY <1>1, Zenon DEF UsbcmdType
<1> HIDE DEF r
<1>7. /\ b \in DevType /\ b.u = r /\ b.in = s.in /\ b.out = s.out /\ b.tb = s.tb /\ SameRest(s, b)
    BY <1>2, Zenon DEF OnlyU
<1>8. /\ Responds(b.u)
      /\ rkusb_handle_response(b, rb) = rkusb_handle_datarx(b, rb)
    BY <1>6, <1>7 DEF Responds, rkusb_handle_response
<1>9. rkusb_handle_datarx(b, rb) = t
  <2>1. ~(b.u.rx.actual \div UNIT > 0)
    BY <1>4, <1>6, <1>7 DEF UNIT
  <2> QED
    BY <2>1, Zenon DEF rkusb_handle_datarx
<1>10. /\ d \in DevType /\ d.u = y /\ d.in = b.in /\ d.out = b.out /\ d.tb = b.tb /\ SameRest(b, d)
    BY <1>7, CountedEffect DEF OnlyU
<1>11. b.u \in UsbcmdType
    BY <1>7, Zenon DEF DevType
<1>12. /\ y.d_bytes = 0 /\ y.cbw = c /\ y.d_size = c.n * UNIT /\ y.lba = c.lba
       /\ y.pre_lba = l /\ y.pre_blocks = p /\ y.tx = s.u.tx /\ y.reset_flag = s.u.reset_flag
    BY <1>4, <1>6, <1>7, <1>11 DEF UsbcmdType
<1> HIDE DEF d, y
<1>13. SameRest(s, d) /\ Idle(d.out) /\ Rests(d)
    BY <1>7, <1>10, <1>12 DEF SameRest, Rests
<1>14. /\ t \in DevType /\ SameRest(s, t) /\ SameAhead(d.u, t.u) /\ t.u.reset_flag = s.u.reset_flag
       /\ t.u.status # "CSW"
       /\ c.n = 0 => Answers(t, c.tag)
       /\ c.n > 0 => /\ t.u.status = "RXDATA" /\ t.u.cbw = c /\ t.u.lba = c.lba
                     /\ t.u.d_size = c.n * UNIT /\ t.u.d_bytes = 0 * UNIT
                     /\ Rests(t) /\ Listening(t, Min2(c.n, BLOCK_MAX) * UNIT)
  <2> DEFINE w == 0
  <2>1. w \in Nat /\ w * UNIT = 0 /\ c.n - w = c.n
    BY <1>1 DEF UNIT
  <2>2. CASE c.n = 0
    <3>1. d.u.d_bytes = d.u.d_size
      BY <1>10, <1>12, <2>2 DEF UNIT
    <3>2. /\ t \in DevType /\ Answers(t, d.u.cbw.tag) /\ SameAhead(d.u, t.u) /\ SameRest(d, t)
          /\ t.u.reset_flag = d.u.reset_flag
      BY <1>10, <1>13, <3>1, NoMoreWanted
    <3>3. t.u.status = "IDLE"
      BY <3>2 DEF Answers
    <3>4. SameRest(s, t)
      BY <1>13, <3>2 DEF SameRest
    <3> QED
      BY <1>10, <1>12, <2>2, <3>2, <3>3, <3>4
  <2>3. CASE c.n > 0
    <3> HIDE DEF w
    <3>1. d.u.d_bytes = w * UNIT /\ d.u.d_size = c.n * UNIT /\ w < c.n
      BY <1>10, <1>12, <2>1, <2>3 DEF w
    <3>2. /\ t \in DevType /\ t.u.status = "RXDATA" /\ t.u.cbw = d.u.cbw
          /\ t.u.d_bytes = d.u.d_bytes /\ t.u.d_size = d.u.d_size /\ t.u.lba = d.u.lba
          /\ Listening(t, Min2(c.n - w, BLOCK_MAX) * UNIT) /\ t.in = d.in /\ t.u.tx = d.u.tx
          /\ SameAhead(d.u, t.u) /\ t.u.reset_flag = d.u.reset_flag /\ SameRest(d, t)
      BY <1>1, <1>10, <1>13, <2>1, <3>1, MoreWanted
    <3>3. SameRest(s, t) /\ Rests(t)
      BY <1>13, <3>2 DEF SameRest, Rests
    <3> QED
      BY <1>10, <1>12, <2>1, <2>3, <3>1, <3>2, <3>3 DEF w
  <2> QED
    BY <1>1, <2>2, <2>3
<1> HIDE DEF t
<1>15. Serve(s, rb) = t
    BY <1>3, <1>8, <1>9, <1>14
<1>16. KeepsAhead(s.u, t.u)
    BY <1>5, <1>10, <1>12, <1>14 DEF KeepsAhead, SameAhead
<1> QED
    BY <1>14, <1>15, <1>16

(* A storage call leaves the link as it was.                               *)
LEMMA StoresLink ==
    ASSUME NEW s \in DevType, NEW t, Stores(s, t)
    PROVE  /\ t \in DevType /\ t.in = s.in /\ t.out = s.out /\ t.tb = s.tb
           /\ t.u.status = s.u.status /\ t.u.tx = s.u.tx /\ t.u.rx = s.u.rx
           /\ t.u.txbuf_num = s.u.txbuf_num /\ t.u.rxbuf_num = s.u.rxbuf_num
           /\ t.u.cbw = s.u.cbw /\ t.u.d_bytes = s.u.d_bytes /\ t.u.d_size = s.u.d_size
           /\ SameAhead(s.u, t.u) /\ t.u.reset_flag = s.u.reset_flag
<1>1. s.u \in UsbcmdType
    BY Zenon DEF DevType
<1>2. PICK x \in Nat : t.u = [s.u EXCEPT !.lba = x]
    BY Zenon DEF Stores
<1>3. /\ t.u.status = s.u.status /\ t.u.tx = s.u.tx /\ t.u.rx = s.u.rx
      /\ t.u.txbuf_num = s.u.txbuf_num /\ t.u.rxbuf_num = s.u.rxbuf_num
      /\ t.u.cbw = s.u.cbw /\ t.u.d_bytes = s.u.d_bytes /\ t.u.d_size = s.u.d_size
      /\ SameAhead(s.u, t.u) /\ t.u.reset_flag = s.u.reset_flag
    BY <1>1, <1>2 DEF UsbcmdType, SameAhead
<1> QED
    BY <1>3, Zenon DEF Stores

(* What rkusb_handle_datarx leaves when blocks d + 1 to d + m of n have    *)
(* arrived: a is the device when it goes on to write them to the medium.   *)
Received(s, a, d, m, n) ==
    /\ a \in DevType /\ SameRest(s, a) /\ a.u.cbw = s.u.cbw /\ a.u.lba = s.u.lba
    /\ SameAhead(s.u, a.u) /\ a.u.reset_flag = s.u.reset_flag
    /\ a.u.rxbuf_num = 1 - s.u.rxbuf_num
    /\ d + m < n => /\ a.u.status = "RXDATA" /\ a.u.d_bytes = (d + m) * UNIT
                    /\ a.u.d_size = n * UNIT /\ Rests(a)
                    /\ Listening(a, Min2(n - (d + m), BLOCK_MAX) * UNIT)
    /\ d + m = n => Answers(a, s.u.cbw.tag)

-----------------------------------------------------------------------------
(* Uploads.                                                                *)

(* What is sent when d of n blocks have been: as much as a buffer holds.   *)
LEMMA TxPortion ==
    ASSUME NEW s, NEW d \in Nat, NEW n \in Nat, d < n,
           s.u.u_bytes = d * UNIT, s.u.u_size = n * UNIT,
           NEW b, b = Min2(n - d, BLOCK_MAX)
    PROVE  /\ b \in Nat /\ b > 0 /\ b <= BLOCK_MAX /\ d + b <= n
           /\ (d + b < n => b = BLOCK_MAX)
           /\ TxBlocks(s) = b /\ TxSize(s) = b * UNIT
<1>1. BLOCK_MAX \in Nat /\ BLOCK_MAX > 0
    BY RockUsbAssumption
<1>2. (n * UNIT - d * UNIT) \div UNIT = n - d
    BY DEF UNIT
<1>3. CASE n - d < BLOCK_MAX
  <2>1. Min2(n - d, BLOCK_MAX) = n - d
    BY <1>3, Zenon DEF Min2
  <2>2. TxBlocks(s) = n - d
    BY <1>2, <2>1, Zenon DEF TxBlocks
  <2>3. TxSize(s) = n * UNIT - d * UNIT
    BY <1>1, <1>2, <1>3 DEF TxSize
  <2>4. n * UNIT - d * UNIT = (n - d) * UNIT
    BY DEF UNIT
  <2> QED
    BY <1>1, <1>3, <2>1, <2>2, <2>3, <2>4
<1>4. CASE ~(n - d < BLOCK_MAX)
  <2>1. Min2(n - d, BLOCK_MAX) = BLOCK_MAX
    BY <1>4, Zenon DEF Min2
  <2>2. TxBlocks(s) = BLOCK_MAX
    BY <1>2, <2>1, Zenon DEF TxBlocks
  <2>3. TxSize(s) = BLOCK_MAX * UNIT
    BY <1>1, <1>2, <1>4 DEF TxSize
  <2> QED
    BY <1>1, <1>4, <2>1, <2>2, <2>3
<1> QED
    BY <1>3, <1>4, Zenon

(* One pass of rkusb_handle_datatx, with d of n blocks sent, that finds    *)
(* the next ones read ahead.                                               *)
Uploaded(s, t, d, n) ==
    LET b == Min2(n - d, BLOCK_MAX)
    IN  /\ t \in DevType /\ SameRest(s, t) /\ t.out = s.out
        /\ Sending(t, b * UNIT) /\ Sent(t) = s.tb[s.u.txbuf_num]
        /\ t.u.cbw = s.u.cbw /\ t.u.reset_flag = s.u.reset_flag
        /\ t.u.u_bytes = (d + b) * UNIT /\ t.u.u_size = n * UNIT /\ t.u.lba = s.u.lba + b
        /\ d + b = n => t.u.pre_blocks = 0
        /\ d + b < n => /\ t.u.pre_lba = t.u.lba /\ t.u.pre_blocks = BLOCK_MAX
                        /\ t.tb[t.u.txbuf_num] = Data(MediaRead(s, t.u.lba, BLOCK_MAX))

(* A pass of rkusb_handle_datatx that finds its blocks read ahead.         *)
LEMMA UploadHit ==
    ASSUME NEW s \in DevType, NEW d \in Nat, NEW n \in Nat, d < n,
           s.u.u_bytes = d * UNIT, s.u.u_size = n * UNIT, Idle(s.in),
           s.u.pre_blocks >= Min2(n - d, BLOCK_MAX), s.u.pre_lba = s.u.lba
    PROVE  Uploaded(s, TxPass(s), d, n) /\ TxPass(s).u.status = s.u.status
<1> DEFINE b == Min2(n - d, BLOCK_MAX)
           k == s.u.txbuf_num
           a == TxSend(s, b, b * UNIT)
           r == [s.u EXCEPT !.u_bytes = s.u.u_bytes + b * UNIT, !.lba = s.u.lba + b,
                            !.pre_blocks = s.u.pre_blocks - b,
                            !.tx = "IN_PROGRESS", !.txbuf_num = 1 - s.u.txbuf_num]
           t == TxGoOn(a, b)
<1>1. /\ b \in Nat /\ b > 0 /\ b <= BLOCK_MAX /\ d + b <= n
      /\ (d + b < n => b = BLOCK_MAX)
      /\ TxBlocks(s) = b /\ TxSize(s) = b * UNIT
  <2>1. b = Min2(n - d, BLOCK_MAX)
    OBVIOUS
  <2> HIDE DEF b
  <2> QED
    BY <2>1, TxPortion, SMTT(60)
<1>2. TxPass(s) = t
  <2>1. TxHit(s)
    BY <1>1, Zenon DEF TxHit
  <2> HIDE DEF b
  <2> QED
    BY <1>1, <2>1, Zenon DEF TxPass, b
<1>3. s.u \in UsbcmdType /\ k \in 0 .. 1 /\ s.u.lba \in Nat /\ BLOCK_MAX \in Nat \ {0}
    BY RockUsbAssumption, Zenon DEF DevType, UsbcmdType
<1> HIDE DEF b
<1>4. b * UNIT \in Nat
    BY <1>1 DEF UNIT
<1>5. /\ a \in DevType /\ a.u = r /\ a.out = s.out /\ a.tb = s.tb /\ SameRest(s, a)
      /\ a.in = dwc3_gadget_ep_queue(s.in, [buf |-> k, len |-> b * UNIT])
  <2>1. s.u.pre_blocks >= b
    BY Zenon DEF b
  <2>2. SendsAhead(s, a, b, b * UNIT)
    BY <1>1, <1>4, <2>1, TxSendEffect
  <2> HIDE DEF a
  <2> QED
    BY <2>2, Zenon DEF SendsAhead
<1>6. Busy(a.in, k, b * UNIT)
    BY <1>5, QueueIdle
<1> HIDE DEF a
<1>7. /\ r.u_bytes = s.u.u_bytes + b * UNIT /\ r.lba = s.u.lba + b /\ r.tx = "IN_PROGRESS"
      /\ r.txbuf_num = 1 - k /\ r.u_size = s.u.u_size /\ r.cbw = s.u.cbw
      /\ r.status = s.u.status /\ r.reset_flag = s.u.reset_flag
    BY <1>3, Zenon DEF UsbcmdType
<1>8. s.u.u_bytes + b * UNIT = (d + b) * UNIT /\ 1 - (1 - k) = k
    BY <1>1, <1>3 DEF UNIT
<1> HIDE DEF r, k
<1>9. /\ a.u.u_bytes = (d + b) * UNIT /\ a.u.u_size = n * UNIT /\ a.u.lba = s.u.lba + b
      /\ a.u.cbw = s.u.cbw /\ a.u.reset_flag = s.u.reset_flag /\ a.u.status = s.u.status
      /\ a.u.tx = "IN_PROGRESS" /\ a.u.txbuf_num = 1 - k
    BY <1>5, <1>7, <1>8
<1>10. a.u \in UsbcmdType
    BY <1>5, Zenon DEF DevType
<1>11. CASE d + b = n
  <2> DEFINE w == [a.u EXCEPT !.pre_lba = 0, !.pre_blocks = 0]
  <2>1. t = ClearPreRead(a)
    BY <1>9, <1>11 DEF TxGoOn
  <2>2. OnlyU(a, t, w)
    BY <1>5, <2>1, ClearPreReadEffect, Zenon
  <2> HIDE DEF t
  <2>3. /\ w.u_bytes = a.u.u_bytes /\ w.u_size = a.u.u_size /\ w.lba = a.u.lba
        /\ w.cbw = a.u.cbw /\ w.reset_flag = a.u.reset_flag /\ w.status = a.u.status
        /\ w.tx = a.u.tx /\ w.txbuf_num = a.u.txbuf_num /\ w.pre_blocks = 0
    BY <1>10 DEF UsbcmdType
  <2> HIDE DEF w
  <2>4. t \in DevType /\ t.u = w /\ t.in = a.in /\ t.out = a.out /\ t.tb = a.tb /\ SameRest(a, t)
    BY <2>2, Zenon DEF OnlyU
  <2>5. SameRest(s, t)
    BY <1>5, <2>4 DEF SameRest
  <2>6. Sending(t, b * UNIT) /\ Sent(t) = s.tb[k]
    BY <1>5, <1>6, <1>8, <1>9, <2>3, <2>4 DEF Sending, Sent
  <2>7. ~(d + b < n)
    BY <1>1, <1>11
  <2>8. Uploaded(s, t, d, n)
    BY <1>5, <1>9, <1>11, <2>3, <2>4, <2>5, <2>6, <2>7 DEF Uploaded, b, k
  <2> QED
    BY <1>2, <1>9, <2>3, <2>4, <2>8
<1>12. CASE d + b < n
  <2> DEFINE j == 1 - k
             x == Data(MediaRead(a, a.u.lba, b))
             w == [a.u EXCEPT !.pre_lba = a.u.lba, !.pre_blocks = b, !.pre_buffer = j]
  <2>1. a.u.u_size # a.u.u_bytes
    BY <1>1, <1>9, <1>12 DEF UNIT
  <2>2. b = BLOCK_MAX
    BY <1>1, <1>12
  <2>3. t = ReadAhead(a, b)
    BY <2>1, <2>2 DEF TxGoOn
  <2>4. /\ t \in DevType /\ t.u = w /\ t.in = a.in /\ t.out = a.out /\ SameRest(a, t)
        /\ t.tb = [a.tb EXCEPT ![j] = x]
    <3> DEFINE i == a.u.txbuf_num
               v == [a.u EXCEPT !.pre_lba = a.u.lba, !.pre_blocks = b, !.pre_buffer = i]
               q == ReadAhead(a, b)
    <3>1. /\ q \in DevType /\ q.u = v /\ q.in = a.in /\ q.out = a.out /\ SameRest(a, q)
          /\ q.tb = IF b = 0 THEN a.tb ELSE [a.tb EXCEPT ![i] = x]
      BY <1>1, <1>5, ReadAheadEffect, Zenon
    <3>2. i = j /\ b # 0
      BY <1>1, <1>9
    <3> HIDE DEF q, x, i
    <3> QED
      BY <2>3, <3>1, <3>2 DEF q
  <2> HIDE DEF t
  <2>5. /\ w.u_bytes = a.u.u_bytes /\ w.u_size = a.u.u_size /\ w.lba = a.u.lba
        /\ w.cbw = a.u.cbw /\ w.reset_flag = a.u.reset_flag /\ w.status = a.u.status
        /\ w.tx = a.u.tx /\ w.txbuf_num = a.u.txbuf_num /\ w.pre_blocks = b
        /\ w.pre_lba = a.u.lba
    BY <1>10 DEF UsbcmdType
  <2>6. j \in 0 .. 1 /\ k \in 0 .. 1 /\ k # j
    BY <1>3 DEF k
  <2>7. t.tb[j] = x /\ t.tb[k] = a.tb[k]
    <3> HIDE DEF j, x, w
    <3>1. a.tb \in [0 .. 1 -> ContentType]
      BY <1>5 DEF DevType
    <3> QED
      BY <2>4, <2>6, <3>1
  <2>8. x = Data(MediaRead(s, s.u.lba + b, BLOCK_MAX))
    <3>1. a.med = s.med
      BY <1>5 DEF SameRest
    <3> QED
      BY <1>9, <2>2, <3>1 DEF MediaRead
  <2> HIDE DEF w, x
  <2>9. SameRest(s, t)
    BY <1>5, <2>4 DEF SameRest
  <2>10. Sending(t, b * UNIT) /\ Sent(t) = s.tb[k]
    BY <1>5, <1>6, <1>8, <1>9, <2>4, <2>5, <2>7 DEF Sending, Sent
  <2>11. t.tb[t.u.txbuf_num] = Data(MediaRead(s, t.u.lba, BLOCK_MAX))
    BY <1>9, <2>4, <2>5, <2>7, <2>8
  <2>12. d + b # n
    BY <1>1, <1>12
  <2>13. Uploaded(s, t, d, n)
    BY <1>5, <1>9, <1>12, <2>2, <2>4, <2>5, <2>9, <2>10, <2>11, <2>12 DEF Uploaded, b, k
  <2> QED
    BY <1>2, <1>9, <2>4, <2>5, <2>13
<1> QED
  <2>1. d + b = n \/ d + b < n
    BY <1>1
  <2> QED
    BY <1>11, <1>12, <2>1

(* The state after the passes, and after the status if all has been sent.  *)
TxState(d, n) == IF d + Min2(n - d, BLOCK_MAX) = n THEN "CSW" ELSE "TXDATA_PREPARE"

(* What follows the pass: the status is due, or more data are.             *)
LEMMA UploadGoesOn ==
    ASSUME NEW s, NEW p, NEW d \in Nat, NEW n \in Nat, d < n,
           Uploaded(s, p, d, n), p.u.status = "TXDATA_PREPARE"
    PROVE  LET t == IF p.u.u_size = p.u.u_bytes THEN WithCsw(p, "GOOD") ELSE p
           IN  /\ p.u.u_bytes # 0 /\ Uploaded(s, t, d, n) /\ t.u.status = TxState(d, n)
               /\ t.u.tx # "OK"
<1> DEFINE b == Min2(n - d, BLOCK_MAX)
           w == WithCsw(p, "GOOD")
           r == [p.u EXCEPT !.csw = "GOOD", !.status = "CSW"]
<1>1. b \in Nat /\ b > 0
    BY RockUsbAssumption DEF Min2
<1>2. p \in DevType /\ p.u.u_bytes = (d + b) * UNIT /\ p.u.u_size = n * UNIT
    BY Zenon DEF Uploaded
<1>3. p.u \in UsbcmdType /\ p.u.tx = "IN_PROGRESS"
    BY <1>2, Zenon DEF DevType, Uploaded, Sending
<1> HIDE DEF b
<1>4. p.u.u_bytes # 0 /\ (p.u.u_size = p.u.u_bytes <=> d + b = n)
    BY <1>1, <1>2 DEF UNIT
<1>5. CASE d + b # n
    BY <1>3, <1>4, <1>5 DEF TxState, b
<1>6. CASE d + b = n
  <2>1. OnlyU(p, w, r)
    BY <1>2, WithCswEffect, Zenon
  <2> HIDE DEF w
  <2>2. /\ r.status = "CSW" /\ r.tx = p.u.tx /\ r.txbuf_num = p.u.txbuf_num /\ r.cbw = p.u.cbw
        /\ r.reset_flag = p.u.reset_flag /\ r.u_bytes = p.u.u_bytes /\ r.u_size = p.u.u_size
        /\ r.lba = p.u.lba /\ r.pre_blocks = p.u.pre_blocks /\ r.pre_lba = p.u.pre_lba
    BY <1>3 DEF UsbcmdType
  <2> HIDE DEF r
  <2>3. w \in DevType /\ w.u = r /\ w.in = p.in /\ w.out = p.out /\ w.tb = p.tb /\ SameRest(p, w)
    BY <2>1 DEF OnlyU
  <2>4. \A len : Sending(p, len) => Sending(w, len)
    BY <2>2, <2>3 DEF Sending
  <2>5. Sent(w) = Sent(p)
    BY <2>2, <2>3 DEF Sent
  <2>6. SameRest(s, p) => SameRest(s, w)
    BY <2>3 DEF SameRest
  <2>7. Uploaded(s, w, d, n)
    BY <2>2, <2>3, <2>4, <2>5, <2>6 DEF Uploaded
  <2> QED
    BY <1>3, <1>4, <1>6, <2>2, <2>3, <2>7 DEF TxState, b, w
<1> QED
    BY <1>5, <1>6

(* The pass that goes on with an upload.                                   *)
LEMMA ServeUpload ==
    ASSUME NEW s \in DevType, NEW rb, NEW d \in Nat \ {0}, NEW n \in Nat, d < n,
           s.u.status = "TXDATA_PREPARE", Rests(s),
           s.u.u_bytes = d * UNIT, s.u.u_size = n * UNIT,
           s.u.pre_blocks = BLOCK_MAX, s.u.pre_lba = s.u.lba
    PROVE  Uploaded(s, Serve(s, rb), d, n) /\ Serve(s, rb).u.status = TxState(d, n)
<1> DEFINE p == TxPass(s)
           t == IF p.u.u_size = p.u.u_bytes THEN WithCsw(p, "GOOD") ELSE p
<1>1. ~HasCommand(s.u) /\ Responds(s.u) /\ rkusb_handle_response(s, rb) = rkusb_handle_datatx(s)
    BY Zenon DEF HasCommand, Responds, rkusb_handle_response, Rests
<1>2. BLOCK_MAX >= Min2(n - d, BLOCK_MAX)
    BY RockUsbAssumption DEF Min2
<1>3. Uploaded(s, p, d, n) /\ p.u.status = "TXDATA_PREPARE"
    BY <1>2, UploadHit DEF Rests
<1>4. p.u.u_bytes # 0 => rkusb_handle_datatx(s) = t
    BY Zenon DEF rkusb_handle_datatx
<1> HIDE DEF p
<1>5. p.u.u_bytes # 0 /\ Uploaded(s, t, d, n) /\ t.u.status = TxState(d, n) /\ t.u.tx # "OK"
    BY <1>3, UploadGoesOn
<1> HIDE DEF t
<1>6. Serve(s, rb) = t
    BY <1>1, <1>4, <1>5 DEF Serve, rkusb_send_csw
<1> QED
    BY <1>5, <1>6

(* A read command: the first buffer is read and sent.                      *)
LEMMA ServeRead ==
    ASSUME NEW s \in DevType, NEW rb \in [0 .. 1 -> ContentType],
           NEW c, c = Fetched(s, rb), c.op \in Reads, HasCommand(s.u), Rests(s), c.n > 0,
           s.u.pre_blocks # 0 => s.u.pre_lba # c.lba
    PROVE  \E p \in DevType :
              /\ Uploaded(p, Serve(s, rb), 0, c.n) /\ Serve(s, rb).u.status = TxState(0, c.n)
              /\ SameRest(s, p) /\ p.out = s.out /\ p.u.cbw = c /\ p.u.lba = c.lba
              /\ p.u.reset_flag = s.u.reset_flag
              /\ p.tb[p.u.txbuf_num] = Data(MediaRead(p, c.lba, Min2(c.n, BLOCK_MAX)))
<1> DEFINE a == do_rockusb_cmd(s, rb)
           r == [s.u EXCEPT !.cbw = c, !.u_size = c.n * UNIT, !.u_bytes = 0, !.lba = c.lba,
                            !.status = "TXDATA_PREPARE"]
           z == 0
           b == Min2(c.n, BLOCK_MAX)
           k == a.u.txbuf_num
           p == TxPass(a)
           q == TxPass(p)
           t == IF q.u.u_size = q.u.u_bytes THEN WithCsw(q, "GOOD") ELSE q
<1>1. c \in CmdType /\ c.n \in Nat /\ c.lba \in Nat /\ s.u \in UsbcmdType
    BY FetchedTyped DEF CmdType, DevType
<1>2. OnlyU(s, a, r)
    BY ReadCommand, Zenon
<1>3. Serve(s, rb) = LET s2 == IF Responds(a.u) THEN rkusb_handle_response(a, rb) ELSE a
                     IN  IF s2.u.status = "CSW" THEN rkusb_send_csw(s2) ELSE s2
    BY Zenon DEF Serve
<1> HIDE DEF a
<1>4. /\ r.cbw = c /\ r.u_size = c.n * UNIT /\ r.u_bytes = 0 /\ r.lba = c.lba /\ r.tx = s.u.tx
      /\ r.status = "TXDATA_PREPARE" /\ SameAhead(s.u, r) /\ r.reset_flag = s.u.reset_flag
    BY <1>1 DEF UsbcmdType, SameAhead
<1> HIDE DEF r
<1>5. a \in DevType /\ a.u = r /\ a.in = s.in /\ a.out = s.out /\ a.tb = s.tb /\ SameRest(s, a)
    BY <1>2 DEF OnlyU
<1>6. Responds(a.u) /\ rkusb_handle_response(a, rb) = rkusb_handle_datatx(a)
    BY <1>4, <1>5 DEF Responds, rkusb_handle_response
<1>7. z \in Nat /\ z < c.n /\ c.n - z = c.n /\ a.u.u_bytes = z * UNIT /\ a.u.u_size = c.n * UNIT
    BY <1>1, <1>4, <1>5 DEF UNIT
<1>8. b \in Nat /\ b > 0 /\ TxBlocks(a) = b
  <2> HIDE DEF z
  <2> QED
    BY <1>1, <1>7, TxPortion
<1> HIDE DEF b
<1>9. p = ReadAhead(a, b)
  <2>1. ~TxHit(a)
    BY <1>4, <1>5, <1>8 DEF TxHit, SameAhead
  <2>2. a.u.u_size # a.u.u_bytes /\ a.u.u_bytes = 0
    BY <1>1, <1>4, <1>5 DEF UNIT
  <2> QED
    BY <1>8, <2>1, <2>2 DEF TxPass, TxGoOn
<1> DEFINE w == [a.u EXCEPT !.pre_lba = a.u.lba, !.pre_blocks = b, !.pre_buffer = k]
           x == Data(MediaRead(a, a.u.lba, b))
<1>10. /\ p \in DevType /\ p.u = w /\ p.in = a.in /\ p.out = a.out /\ SameRest(a, p)
       /\ p.tb = [a.tb EXCEPT ![k] = x]
  <2>1. LET e == ReadAhead(a, b)
        IN  /\ e \in DevType /\ e.u = w /\ e.in = a.in /\ e.out = a.out /\ SameRest(a, e)
            /\ e.tb = IF b = 0 THEN a.tb ELSE [a.tb EXCEPT ![k] = x]
    BY <1>5, <1>8, ReadAheadEffect, Zenon
  <2> HIDE DEF p, w, x
  <2> QED
    BY <1>8, <1>9, <2>1
<1>11. a.u \in UsbcmdType /\ k \in 0 .. 1 /\ a.tb \in [0 .. 1 -> ContentType]
    BY <1>5 DEF DevType, UsbcmdType
<1> HIDE DEF p, x, k
<1>12. /\ w.pre_lba = a.u.lba /\ w.pre_blocks = b /\ w.lba = a.u.lba /\ w.u_bytes = a.u.u_bytes
       /\ w.u_size = a.u.u_size /\ w.status = a.u.status /\ w.cbw = a.u.cbw
       /\ w.reset_flag = a.u.reset_flag /\ w.txbuf_num = k
    BY <1>11 DEF UsbcmdType, k
<1> HIDE DEF w
<1>13. /\ p.u.u_bytes = 0 /\ p.u.u_size = c.n * UNIT /\ p.u.lba = c.lba /\ p.u.pre_lba = p.u.lba
       /\ p.u.pre_blocks = b /\ p.u.cbw = c /\ p.u.status = "TXDATA_PREPARE"
       /\ p.u.reset_flag = s.u.reset_flag /\ p.u.txbuf_num = k
    BY <1>4, <1>5, <1>10, <1>12
<1>14. p.tb[p.u.txbuf_num] = Data(MediaRead(p, c.lba, b))
  <2>1. p.tb[k] = x
    BY <1>10, <1>11
  <2>2. x = Data(MediaRead(p, c.lba, b))
    <3>1. a.med = p.med /\ a.u.cbw = c /\ a.u.lba = c.lba
      BY <1>4, <1>5, <1>10 DEF SameRest
    <3> QED
      BY <1>13, <3>1 DEF MediaRead, x
  <2> QED
    BY <1>13, <2>1, <2>2
<1>15. Uploaded(p, q, z, c.n) /\ q.u.status = "TXDATA_PREPARE"
  <2>1. p.u.u_bytes = z * UNIT /\ Idle(p.in) /\ p.u.pre_blocks >= Min2(c.n - z, BLOCK_MAX)
    BY <1>5, <1>7, <1>8, <1>10, <1>13 DEF Rests, UNIT, b
  <2> HIDE DEF z, q
  <2> QED
    BY <1>1, <1>7, <1>10, <1>13, <2>1, UploadHit DEF q
<1> HIDE DEF q
<1>16. q.u.u_bytes # 0 /\ Uploaded(p, t, z, c.n) /\ t.u.status = TxState(z, c.n) /\ t.u.tx # "OK"
  <2> HIDE DEF z
  <2> QED
    BY <1>1, <1>7, <1>15, UploadGoesOn
<1>17. rkusb_handle_datatx(a) = t
  <2> HIDE DEF t
  <2>1. rkusb_handle_datatx(a) =
          LET e == IF p.u.u_bytes = 0 THEN TxPass(p) ELSE p
          IN  IF e.u.u_bytes = 0 THEN [e EXCEPT !.u.status = "HUNG"]
              ELSE IF e.u.u_size = e.u.u_bytes THEN WithCsw(e, "GOOD")
              ELSE e
    BY Zenon DEF rkusb_handle_datatx, p
  <2>2. (IF p.u.u_bytes = 0 THEN TxPass(p) ELSE p) = q
    BY <1>13 DEF q
  <2> QED
    BY <1>16, <2>1, <2>2 DEF t
<1> HIDE DEF t
<1>18. Serve(s, rb) = t
    BY <1>3, <1>6, <1>16, <1>17 DEF rkusb_send_csw
<1>19. SameRest(s, p) /\ p.out = s.out
    BY <1>5, <1>10 DEF SameRest
<1> QED
    BY <1>10, <1>13, <1>14, <1>16, <1>18, <1>19, Zenon DEF b

(* A read of no blocks never ends.                                         *)
LEMMA ServeReadNone ==
    ASSUME NEW s \in DevType, NEW rb \in [0 .. 1 -> ContentType],
           NEW c, c = Fetched(s, rb), c.op \in Reads, HasCommand(s.u), c.n = 0
    PROVE  LET t == Serve(s, rb)
           IN  /\ t.u.status = "HUNG" /\ t.u.pre_blocks = 0 /\ t.in = s.in /\ t.out = s.out
               /\ SameRest(s, t) /\ t.u.reset_flag = s.u.reset_flag /\ t.u.tx = s.u.tx
<1> DEFINE a == do_rockusb_cmd(s, rb)
           r == [s.u EXCEPT !.cbw = c, !.u_size = c.n * UNIT, !.u_bytes = 0, !.lba = c.lba,
                            !.status = "TXDATA_PREPARE"]
           p == TxPass(a)
           q == TxPass(p)
           t == [q EXCEPT !.u.status = "HUNG"]
<1>1. c \in CmdType /\ s.u \in UsbcmdType
    BY FetchedTyped DEF DevType
<1>2. OnlyU(s, a, r)
    BY ReadCommand, Zenon
<1>3. Serve(s, rb) = LET s2 == IF Responds(a.u) THEN rkusb_handle_response(a, rb) ELSE a
                     IN  IF s2.u.status = "CSW" THEN rkusb_send_csw(s2) ELSE s2
    BY Zenon DEF Serve
<1> HIDE DEF a
<1>4. /\ r.u_size = 0 /\ r.u_bytes = 0 /\ r.status = "TXDATA_PREPARE"
      /\ r.reset_flag = s.u.reset_flag /\ r.tx = s.u.tx
    BY <1>1 DEF UsbcmdType, UNIT
<1> HIDE DEF r
<1>5. a \in DevType /\ a.u = r /\ a.in = s.in /\ a.out = s.out /\ SameRest(s, a)
    BY <1>2, Zenon DEF OnlyU
<1>6. Responds(a.u) /\ rkusb_handle_response(a, rb) = rkusb_handle_datatx(a)
    BY <1>4, <1>5 DEF Responds, rkusb_handle_response
<1>7. ASSUME NEW e \in DevType, e.u.u_size = 0, e.u.u_bytes = 0
      PROVE  LET f == TxPass(e)
             IN  /\ f \in DevType /\ f.u.u_size = 0 /\ f.u.u_bytes = 0 /\ f.u.pre_blocks = 0
                 /\ f.u.reset_flag = e.u.reset_flag /\ f.in = e.in /\ f.out = e.out
                 /\ SameRest(e, f) /\ f.u.tx = e.u.tx
  <2> DEFINE w == [e.u EXCEPT !.pre_lba = 0, !.pre_blocks = 0]
             f == TxPass(e)
  <2>1. TxBlocks(e) = 0
    BY <1>7, RockUsbAssumption DEF TxBlocks, Min2, UNIT
  <2>2. f = ClearPreRead(e)
    BY <1>7, <2>1 DEF TxPass, TxHit, TxGoOn
  <2>3. OnlyU(e, f, w)
    BY <2>2, ClearPreReadEffect, Zenon
  <2> HIDE DEF f
  <2>4. e.u \in UsbcmdType
    BY Zenon DEF DevType
  <2>5. w.u_size = 0 /\ w.u_bytes = 0 /\ w.pre_blocks = 0 /\ w.reset_flag = e.u.reset_flag
      /\ w.tx = e.u.tx
    BY <1>7, <2>4 DEF UsbcmdType
  <2> HIDE DEF w
  <2>6. /\ f \in DevType /\ f.u.u_size = 0 /\ f.u.u_bytes = 0 /\ f.u.pre_blocks = 0
        /\ f.u.reset_flag = e.u.reset_flag /\ f.in = e.in /\ f.out = e.out /\ SameRest(e, f)
        /\ f.u.tx = e.u.tx
    BY <2>3, <2>5 DEF OnlyU
  <2> QED
    BY <2>6 DEF f
<1>8. /\ p \in DevType /\ p.u.u_size = 0 /\ p.u.u_bytes = 0 /\ p.u.pre_blocks = 0
      /\ p.u.reset_flag = a.u.reset_flag /\ p.in = a.in /\ p.out = a.out /\ SameRest(a, p)
      /\ p.u.tx = a.u.tx
    BY <1>4, <1>5, <1>7
<1> HIDE DEF p
<1>9. /\ q \in DevType /\ q.u.u_size = 0 /\ q.u.u_bytes = 0 /\ q.u.pre_blocks = 0
      /\ q.u.reset_flag = p.u.reset_flag /\ q.in = p.in /\ q.out = p.out /\ SameRest(p, q)
      /\ q.u.tx = p.u.tx
    BY <1>7, <1>8
<1>10. rkusb_handle_datatx(a) = t
  <2>1. (IF p.u.u_bytes = 0 THEN TxPass(p) ELSE p) = q
    BY <1>8
  <2>2. rkusb_handle_datatx(a) =
          LET e == IF p.u.u_bytes = 0 THEN TxPass(p) ELSE p
          IN  IF e.u.u_bytes = 0 THEN [e EXCEPT !.u.status = "HUNG"]
              ELSE IF e.u.u_size = e.u.u_bytes THEN WithCsw(e, "GOOD")
              ELSE e
    BY DEF rkusb_handle_datatx, p
  <2> HIDE DEF q
  <2> QED
    BY <1>9, <2>1, <2>2
<1> HIDE DEF q
<1>11. /\ t.u.status = "HUNG" /\ t.u.pre_blocks = 0 /\ t.in = q.in /\ t.out = q.out
       /\ SameRest(q, t) /\ t.u.reset_flag = q.u.reset_flag /\ t.u.tx = q.u.tx
    BY <1>9 DEF DevType, UsbcmdType, SameRest
<1> HIDE DEF t
<1>12. Serve(s, rb) = t
    BY <1>3, <1>6, <1>10, <1>11
<1>13. SameRest(s, t)
    BY <1>5, <1>8, <1>9, <1>11 DEF SameRest
<1> QED
    BY <1>4, <1>5, <1>8, <1>9, <1>11, <1>12, <1>13

(* The pass that sends the status after an upload.                         *)
LEMMA ServeStatus ==
    ASSUME NEW s \in DevType, NEW rb, s.u.status = "CSW", Rests(s), Idle(s.out)
    PROVE  LET t == Serve(s, rb)
           IN  /\ t \in DevType /\ Answers(t, s.u.cbw.tag) /\ SameAhead(s.u, t.u)
               /\ SameRest(s, t) /\ t.u.reset_flag = s.u.reset_flag
<1>1. ~HasCommand(s.u) /\ ~Responds(s.u)
    BY Zenon DEF HasCommand, Responds
<1>2. Serve(s, rb) = rkusb_send_csw(s)
    BY <1>1, Zenon DEF Serve
<1> QED
    BY <1>2, CswSent

-----------------------------------------------------------------------------
(* A pass of the loop, from each situation of the link.                    *)

(* The loop body has left s; the reset flag is looked at and the rest kept.*)
Leaves(s) ==
    /\ usbcmd'.status = s.u.status /\ usbcmd'.tx = s.u.tx /\ usbcmd'.rx = s.u.rx
    /\ usbcmd'.txbuf_num = s.u.txbuf_num /\ usbcmd'.rxbuf_num = s.u.rxbuf_num
    /\ usbcmd'.cbw = s.u.cbw /\ usbcmd'.lba = s.u.lba
    /\ usbcmd'.d_bytes = s.u.d_bytes /\ usbcmd'.d_size = s.u.d_size
    /\ usbcmd'.u_bytes = s.u.u_bytes /\ usbcmd'.u_size = s.u.u_size
    /\ SameAhead(s.u, usbcmd')
    /\ ep_in' = s.in /\ ep_out' = s.out /\ tx_buffer' = s.tb /\ medium' = s.med
    /\ sec'.lock = s.sec.lock /\ UNCHANGED <<host, view>>

(* A pass that does not hang ends with the check of the reset flag.        *)
LEMMA PassLeaves ==
    ASSUME DeviceOK, HostOK, Pass, NEW s, s = Serve(Dev, rx_buffer), s.u.status # "HUNG"
    PROVE  /\ s \in DevType /\ Leaves(s) /\ usbcmd'.reset_flag \notin Reboots \cup {16}
           /\ pc' = IF s.u.reset_flag \in Reboots THEN "delay" ELSE "run"
<1> DEFINE r == rkusb_reset_check(s)
           t == rkusb_lowformat_check(r)
           v == [s.u EXCEPT !.reset_flag = 0]
<1>1. s \in DevType
    BY DevTyped, ServeTyped DEF HostOK
<1>2. Signed \in BOOLEAN
    BY RockUsbAssumption, Zenon DEF HostOK, Signed
<1>3. /\ Becomes(t) /\ pc' = IF s.u.reset_flag \in Reboots THEN "delay" ELSE "run"
      /\ UNCHANGED <<host, view>>
    BY Zenon DEF Pass
<1>4. /\ r \in DevType /\ r.u = IF s.u.reset_flag \in Reboots \cup {16} THEN v ELSE s.u
      /\ r.in = s.in /\ r.out = s.out /\ r.tb = s.tb /\ r.med = s.med
      /\ r.sec.lock = s.sec.lock
    BY <1>1, <1>2, ResetCheckEffect
<1> HIDE DEF r
<1>5. /\ t \in DevType /\ t.u = r.u /\ t.in = r.in /\ t.out = r.out /\ t.tb = r.tb
      /\ t.med = r.med /\ t.sec = r.sec
    BY <1>4, LowformatEffect, Zenon
<1> HIDE DEF t
<1>6. /\ usbcmd' = r.u /\ ep_in' = s.in /\ ep_out' = s.out /\ tx_buffer' = s.tb
      /\ medium' = s.med /\ sec'.lock = s.sec.lock
    BY <1>3, <1>4, <1>5 DEF Becomes
<1>7. s.u \in UsbcmdType
    BY <1>1 DEF DevType
<1>8. /\ v.status = s.u.status /\ v.tx = s.u.tx /\ v.rx = s.u.rx
      /\ v.txbuf_num = s.u.txbuf_num /\ v.rxbuf_num = s.u.rxbuf_num
      /\ v.cbw = s.u.cbw /\ v.lba = s.u.lba /\ v.d_bytes = s.u.d_bytes
      /\ v.d_size = s.u.d_size /\ v.u_bytes = s.u.u_bytes /\ v.u_size = s.u.u_size
      /\ SameAhead(s.u, v) /\ v.reset_flag = 0
    BY <1>7, Zenon DEF UsbcmdType, SameAhead
<1> HIDE DEF v
<1>9. usbcmd'.reset_flag \notin Reboots \cup {16}
    BY <1>4, <1>6, <1>8 DEF Reboots
<1>10. usbcmd' = v \/ usbcmd' = s.u
    BY <1>4, <1>6, Zenon
<1>11. Leaves(s)
    BY <1>3, <1>6, <1>8, <1>10 DEF Leaves, SameAhead
<1> QED
    BY <1>1, <1>3, <1>9, <1>11

(* What the host's next steps see of the link.                             *)
LEMMA LeavesLink ==
    ASSUME NEW s, Leaves(s)
    PROVE  /\ Rests(s) => InIdle'
           /\ \A len : Sending(s, len) =>
                 /\ Busy(ep_in', 1 - usbcmd'.txbuf_num, len) /\ usbcmd'.tx = "IN_PROGRESS"
                 /\ tx_buffer'[1 - usbcmd'.txbuf_num] = Sent(s)
           /\ \A len : Listening(s, len) =>
                 /\ Busy(ep_out', 1 - usbcmd'.rxbuf_num, len)
                 /\ usbcmd'.rx.status = "READY" /\ usbcmd'.rx.actual = 0
    BY Zenon DEF Leaves, Rests, InIdle, Idle, Sending, Sent, Listening

(* The device as the loop finds it.                                        *)
LEMMA DevLink ==
    ASSUME DeviceOK
    PROVE  (Rests(Dev) <=> InIdle) /\ (Idle(Dev.out) <=> Idle(ep_out))
    BY DevTyped, Zenon DEF Rests, InIdle

(* Buffers of BLOCK_MAX blocks.                                            *)
LEMMA Multiples ==
    ASSUME NEW j \in Nat
    PROVE  /\ j * BLOCK_MAX \in Nat /\ (j + 1) * BLOCK_MAX = j * BLOCK_MAX + BLOCK_MAX
           /\ j <= j * BLOCK_MAX /\ j + 1 <= (j + 1) * BLOCK_MAX
<1>1. BLOCK_MAX \in Nat /\ BLOCK_MAX >= 1
    BY RockUsbAssumption
<1>2. \A a, b \in Nat : b >= 1 => a * b \in Nat /\ (a + 1) * b = a * b + b /\ a <= a * b
    OBVIOUS
<1> QED
    BY <1>1, <1>2

(* The host's command is a command of the session but for the tag.         *)
LEMMA SessionCmd ==
    ASSUME HostOK, OfSession, host.cmd.op # "NONE"
    PROVE  \E c \in Cmds : /\ c.op = host.cmd.op /\ c.lba = host.cmd.lba /\ c.n = host.cmd.n
                           /\ c.sp = host.cmd.sp /\ c.v = host.cmd.v /\ c \in CmdType
<1>1. PICK c \in Cmds \cup {NoCmd} : host.cmd = [c EXCEPT !.tag = host.cmd.tag]
    BY Zenon DEF OfSession
<1>2. c \in CmdType
    BY <1>1, ZeroTyped, RockUsbAssumption DEF HostOK, Cmds
<1>3. /\ c.op = host.cmd.op /\ c.lba = host.cmd.lba /\ c.n = host.cmd.n
      /\ c.sp = host.cmd.sp /\ c.v = host.cmd.v
    BY <1>1, <1>2 DEF CmdType
<1>4. c # NoCmd
    BY <1>3 DEF NoCmd
<1> QED
    BY <1>1, <1>2, <1>3, <1>4

(* The session does not change.                                            *)
LEMMA SessionStays ==
    ASSUME UNCHANGED session
    PROVE  (Orderly' <=> Orderly) /\ Faults' = Faults /\ Cmds' = Cmds /\ ReadCmds' = ReadCmds
<1>1. Faults' = Faults /\ Cmds' = Cmds
    BY Zenon DEF Faults, Cmds
<1>2. ReadCmds' = ReadCmds
    BY <1>1, Zenon DEF ReadCmds
<1> QED
    BY <1>1, <1>2 DEF Orderly





(* What is moved of the n blocks after d of them.                          *)
LEMMA NextPart ==
    ASSUME NEW n \in Nat, NEW d \in Nat, d < n, NEW max \in Nat \ {0}
    PROVE  LET b == Min2(n - d, max)
           IN  b \in 1 .. max /\ d + b <= n /\ (d + b # n => b = max /\ d + b < n)
    BY DEF Min2

Situation ==
    \/ Detached \/ Ready \/ Commanded \/ Receiving \/ Uploading \/ Finishing
    \/ Answering \/ Failed \/ Hung

Settled == Situation /\ usbcmd.reset_flag \notin Reboots \cup {16} /\ AheadInv

(* LinkInv by its parts.                                                   *)
LEMMA LinkParts ==
    LinkInv <=> Orderly /\ DeviceOK /\ HostOK /\ OfSession /\ Settled
    BY TypeParts, Zenon DEF LinkInv, Link, Settled, Situation

(* The pass that takes the host's command.                                 *)
LEMMA PassTakes ==
    ASSUME DeviceOK, HostOK, Commanded
    PROVE  /\ Dev \in DevType /\ Rests(Dev) /\ Idle(Dev.out) /\ HasCommand(Dev.u)
           /\ Fetched(Dev, rx_buffer) = host.cmd /\ Dev.u = usbcmd
           /\ host.cmd \in CmdType /\ host.cmd.n \in Nat
<1>1. Dev \in DevType /\ Dev.u = usbcmd /\ Rests(Dev) /\ Idle(Dev.out)
    BY DevTyped, DevLink, Zenon DEF Commanded, OutDone
<1>2. Cbw(host.cmd).kind = "cbw" /\ Cbw(host.cmd).cmd = host.cmd
    BY Zenon DEF Cbw
<1>3. usbcmd.status = "IDLE" /\ usbcmd.rx.actual = 1 /\ rx_buffer[usbcmd.rx.buf] = Cbw(host.cmd)
    BY Zenon DEF Commanded, OutDone
<1> HIDE DEF Dev
<1>4. Fetched(Dev, rx_buffer) = host.cmd
    BY <1>1, <1>2, <1>3 DEF Fetched
<1> QED
    BY <1>1, <1>3, <1>4 DEF HasCommand, HostOK, HostType, CmdType



(* A read begins where nothing has been read ahead.                        *)
LEMMA BeginsAfresh ==
    ASSUME HostOK, OfSession, Orderly, AheadInv, Commanded, host.cmd.op \in Reads,
           usbcmd.pre_blocks # 0
    PROVE  usbcmd.pre_lba # host.cmd.lba
<1>1. host.cmd.op # "NONE"
    BY Zenon DEF Reads
<1>2. PICK c \in Cmds : c.op = host.cmd.op /\ c.lba = host.cmd.lba
    BY <1>1, SessionCmd, Zenon
<1>3. c \in ReadCmds
    BY <1>2, Zenon DEF ReadCmds
<1>4. usbcmd.status # "TXDATA_PREPARE"
    BY Zenon DEF Commanded
<1>5. "clear_both" \in Faults /\ \E e \in ReadCmds : usbcmd.pre_lba \in AheadOf(e)
    BY <1>4, Zenon DEF AheadInv
<1> QED
    BY <1>2, <1>3, <1>5, Zenon DEF Orderly





(* The part of a command that is moved with block d.                       *)
LEMMA Portion ==
    ASSUME NEW n \in Nat, NEW j \in Nat, j * BLOCK_MAX < n
    PROVE  LET d == j * BLOCK_MAX
               m == Min2(n - d, BLOCK_MAX)
           IN  /\ d \in Nat /\ m \in Nat \ {0} /\ d + m <= n /\ m <= BLOCK_MAX
               /\ d + m < n => m = BLOCK_MAX /\ d + m = (j + 1) * BLOCK_MAX
<1> DEFINE d == j * BLOCK_MAX
           m == Min2(n - d, BLOCK_MAX)
<1>1. d \in Nat /\ BLOCK_MAX \in Nat \ {0} /\ (j + 1) * BLOCK_MAX = d + BLOCK_MAX
    BY Multiples, RockUsbAssumption
<1>2. d < n
    BY Zenon
<1> HIDE DEF d
<1>3. m \in 1 .. BLOCK_MAX /\ d + m <= n /\ (d + m # n => m = BLOCK_MAX /\ d + m < n)
    BY <1>1, <1>2, NextPart, Zenon
<1> HIDE DEF m
<1>4. m \in Nat \ {0} /\ m <= BLOCK_MAX /\ (d + m < n => d + m # n)
    BY <1>1, <1>3
<1>5. d + m < n => m = BLOCK_MAX /\ d + m = (j + 1) * BLOCK_MAX
    BY <1>1, <1>3, <1>4
<1> QED
    BY <1>1, <1>3, <1>4, <1>5, Zenon DEF d, m

(* Part j of the data of a write has arrived: the gadget goes on to a, and *)
(* writes the blocks, which leaves s.                                      *)
Arrives(j, a, s) ==
    LET n == host.cmd.n
        d == j * BLOCK_MAX
        m == Min2(n - d, BLOCK_MAX)
    IN  /\ d < n /\ usbcmd.d_bytes = d * UNIT /\ OutDone(m * UNIT)
        /\ host.phase = (IF d + m = n THEN "csw" ELSE "out") /\ host.sent = d + m
        /\ Received(Dev, a, d, m, n) /\ s = MediaWrite(a, SubSeq(Payload(host.cmd), d + 1, d + m))
        /\ Stores(a, s) /\ Leaves(s) /\ usbcmd'.reset_flag \notin Reboots \cup {16}
        /\ pc' = "run"

(* A pass of the loop while the data of a write arrive.                    *)
LEMMA DataArrives ==
    ASSUME DeviceOK, HostOK, usbcmd.reset_flag \notin Reboots \cup {16}, Receiving, Pass
    PROVE  \E j \in Nat, a \in DevType, s \in DevType : Arrives(j, a, s)
(* The loop body when data have arrived.                                   *)
<1>ServeData.
      ASSUME NEW s \in DevType, NEW rb \in [0 .. 1 -> ContentType], NEW d \in Nat,
             NEW m \in Nat \ {0}, NEW n \in Nat, d + m <= n, NEW p \in Seq(BlockType),
             s.u.status = "RXDATA", s.u.rx.status = "OK", s.u.rx.actual = m * UNIT,
             s.u.d_bytes = d * UNIT, s.u.d_size = n * UNIT, rb[s.u.rx.buf] = Data(p),
             Rests(s), Idle(s.out)
      PROVE  \E a \in DevType : Received(s, a, d, m, n) /\ Serve(s, rb) = MediaWrite(a, p)
  <2> USE <1>ServeData
  <2> DEFINE b == Counted(s)
             a == RxGoOn(b)
             r == [s.u EXCEPT !.d_bytes = s.u.d_bytes + s.u.rx.actual]
             e == d + m
  <2>1. s.u \in UsbcmdType
      BY Zenon DEF DevType
  <2>2. ~HasCommand(s.u) /\ Responds(s.u) /\ rkusb_handle_response(s, rb) = rkusb_handle_datarx(s, rb)
      BY Zenon DEF HasCommand, Responds, rkusb_handle_response
  <2>3. rkusb_handle_datarx(s, rb) = MediaWrite(a, p)
    <3>1. s.u.rx.actual \div UNIT > 0
      BY DEF UNIT
    <3>2. Data(p).kind = "data" /\ Data(p).blocks = p
      BY Zenon DEF Data
    <3> HIDE DEF a
    <3>3. rkusb_handle_datarx(s, rb) =
            IF s.u.rx.actual \div UNIT > 0 /\ rb[s.u.rx.buf].kind = "data"
            THEN MediaWrite(a, rb[s.u.rx.buf].blocks) ELSE a
      BY Zenon DEF rkusb_handle_datarx, a
    <3> QED
      BY <3>1, <3>2, <3>3
  <2>4. OnlyU(s, b, r)
      BY CountedEffect, Zenon
  <2> HIDE DEF b
  <2>5. r.d_bytes = e * UNIT
      BY <2>1 DEF UsbcmdType, UNIT
  <2>6. /\ r.cbw = s.u.cbw /\ r.d_size = n * UNIT /\ r.lba = s.u.lba /\ SameAhead(s.u, r)
        /\ r.tx = s.u.tx /\ r.reset_flag = s.u.reset_flag /\ r.rxbuf_num = s.u.rxbuf_num
      BY <2>1, Zenon DEF UsbcmdType, SameAhead
  <2> HIDE DEF r
  <2>7. b \in DevType /\ b.u = r /\ b.in = s.in /\ b.out = s.out /\ SameRest(s, b)
      BY <2>4, Zenon DEF OnlyU
  <2>8. Rests(b) /\ Idle(b.out)
      BY <2>6, <2>7, Zenon DEF Rests
  <2>9. e \in Nat
      OBVIOUS
  <2>10. ASSUME e < n PROVE a \in DevType /\ a.u.status # "CSW" /\ Received(s, a, d, m, n)
    <3> HIDE DEF e
    <3>1. /\ a \in DevType /\ a.u.status = "RXDATA" /\ a.u.cbw = b.u.cbw
          /\ a.u.d_bytes = b.u.d_bytes /\ a.u.d_size = b.u.d_size /\ a.u.lba = b.u.lba
          /\ Listening(a, Min2(n - e, BLOCK_MAX) * UNIT) /\ a.in = b.in /\ a.u.tx = b.u.tx
          /\ SameAhead(b.u, a.u) /\ a.u.reset_flag = b.u.reset_flag /\ SameRest(b, a)
          /\ a.u.rxbuf_num = 1 - b.u.rxbuf_num
      BY <2>5, <2>6, <2>7, <2>8, <2>9, <2>10, MoreWanted
    <3> HIDE DEF a
    <3>2. SameRest(s, a) /\ SameAhead(s.u, a.u) /\ Rests(a)
      BY <2>6, <2>7, <2>8, <3>1 DEF SameRest, SameAhead, Rests
    <3>3. Received(s, a, d, m, n)
      BY <2>5, <2>6, <2>7, <2>10, <3>1, <3>2 DEF Received, e
    <3>4. a.u.status # "CSW" /\ a \in DevType
      BY <3>1
    <3> QED
      BY <3>3, <3>4, Zenon
  <2>11. ASSUME e = n PROVE a \in DevType /\ a.u.status # "CSW" /\ Received(s, a, d, m, n)
    <3>1. b.u.d_bytes = b.u.d_size
      BY <2>5, <2>6, <2>7, <2>11
    <3>2. /\ a \in DevType /\ Answers(a, b.u.cbw.tag) /\ a.u.cbw = b.u.cbw
          /\ a.u.lba = b.u.lba /\ SameAhead(b.u, a.u) /\ SameRest(b, a)
          /\ a.u.reset_flag = b.u.reset_flag /\ a.u.rxbuf_num = 1 - b.u.rxbuf_num
      BY <2>7, <2>8, <3>1, NoMoreWanted
    <3> HIDE DEF a
    <3>3. SameRest(s, a) /\ SameAhead(s.u, a.u)
      BY <2>6, <2>7, <3>2 DEF SameRest, SameAhead
    <3>4. Received(s, a, d, m, n)
      BY <2>6, <2>7, <2>11, <3>2, <3>3 DEF Received
    <3>5. a.u.status # "CSW" /\ a \in DevType
      BY <3>2, Zenon DEF Answers
    <3> QED
      BY <3>4, <3>5
  <2>12. a \in DevType /\ a.u.status # "CSW" /\ Received(s, a, d, m, n)
    <3>1. e < n \/ e = n
      BY <2>9
    <3> HIDE DEF a
    <3> QED
      BY <2>10, <2>11, <3>1
  <2> HIDE DEF a
  <2>13. MediaWrite(a, p).u.status = a.u.status
      BY <2>12, MediaWriteStores, StoresLink
  <2>14. Serve(s, rb) = MediaWrite(a, p)
      BY <2>2, <2>3, <2>12, <2>13, Zenon DEF Serve
  <2> QED
      BY <2>12, <2>14
<1> DEFINE n == host.cmd.n
           s == Serve(Dev, rx_buffer)
<1>1. /\ Dev \in DevType /\ Dev.u = usbcmd /\ Rests(Dev) /\ (Idle(Dev.out) <=> Idle(ep_out))
      /\ HasWork(Dev) /\ pc = "run" /\ n \in Nat /\ host.cmd \in CmdType
    BY DevTyped, DevLink, Zenon DEF Receiving, Pass, HostOK, HostType, CmdType
<1>2. PICK j \in 0 .. n :
         LET d == j * BLOCK_MAX
             m == Min2(n - d, BLOCK_MAX)
         IN  /\ d < n /\ usbcmd.d_bytes = d * UNIT
             /\ \/ host.phase = "out" /\ host.sent = d /\ OutBusy(m * UNIT)
                \/ /\ host.phase = IF d + m = n THEN "csw" ELSE "out"
                   /\ host.sent = d + m /\ OutDone(m * UNIT)
                   /\ rx_buffer[usbcmd.rx.buf] = Data(SubSeq(Payload(host.cmd), d + 1, d + m))
    BY Zenon DEF Receiving
<1> DEFINE d == j * BLOCK_MAX
           m == Min2(n - d, BLOCK_MAX)
           p == SubSeq(Payload(host.cmd), d + 1, d + m)
<1>3. j \in Nat /\ d \in Nat /\ d < n /\ m \in Nat \ {0} /\ d + m <= n
    BY <1>1, <1>2, Portion
<1>4. usbcmd.status = "RXDATA" /\ usbcmd.cbw = host.cmd /\ usbcmd.d_size = n * UNIT
    BY Zenon DEF Receiving, Serving
<1>5. /\ OutDone(m * UNIT) /\ rx_buffer[usbcmd.rx.buf] = Data(p) /\ usbcmd.d_bytes = d * UNIT
      /\ host.phase = (IF d + m = n THEN "csw" ELSE "out") /\ host.sent = d + m
  <2>1. usbcmd.rx.status = "OK"
    BY <1>1, <1>4 DEF HasWork, HasCommand, Responds
  <2>2. ~OutBusy(m * UNIT)
    BY <2>1, Zenon DEF OutBusy
  <2> HIDE DEF d, m, p
  <2> QED
    BY <1>2, <2>2, Zenon DEF d, m, p
<1>6. p \in Seq(BlockType)
    BY <1>1, <1>3, PieceTyped, Zenon
<1> HIDE DEF d, m, p
<1>7. /\ rx_buffer \in [0 .. 1 -> ContentType] /\ usbcmd.rx.status = "OK"
      /\ usbcmd.rx.actual = m * UNIT /\ Idle(Dev.out)
    BY <1>1, <1>5 DEF HostOK, OutDone
<1>8. PICK a \in DevType : Received(Dev, a, d, m, n) /\ s = MediaWrite(a, p)
  <2> DEFINE D == Dev
  <2>1. /\ D \in DevType /\ D.u.status = "RXDATA" /\ D.u.rx.status = "OK" /\ D.u.rx.actual = m * UNIT
        /\ D.u.d_bytes = d * UNIT /\ D.u.d_size = n * UNIT /\ rx_buffer[D.u.rx.buf] = Data(p)
        /\ Rests(D) /\ Idle(D.out)
    BY <1>1, <1>4, <1>5, <1>7, Zenon
  <2> HIDE DEF D, n
  <2>2. \E a \in DevType : Received(D, a, d, m, n) /\ Serve(D, rx_buffer) = MediaWrite(a, p)
    BY <1>1, <1>3, <1>6, <1>7, <2>1, <1>ServeData
  <2> QED
    BY <2>2, Zenon DEF D
<1> HIDE DEF s
<1>9. Stores(a, s)
    BY <1>6, <1>8, MediaWriteStores
<1>10. s.u.status = a.u.status /\ s.u.reset_flag = a.u.reset_flag
    BY <1>9, StoresLink
<1>11. /\ a.u.reset_flag = usbcmd.reset_flag
       /\ d + m < n => a.u.status = "RXDATA"
       /\ d + m = n => Answers(a, host.cmd.tag)
    BY <1>1, <1>4, <1>8, Zenon DEF Received
<1>12. s.u.status # "HUNG"
    BY <1>1, <1>3, <1>10, <1>11 DEF Answers
<1>13. s \in DevType /\ Leaves(s) /\ usbcmd'.reset_flag \notin Reboots \cup {16} /\ pc' = "run"
    BY <1>10, <1>11, <1>12, PassLeaves DEF s
<1>14. Arrives(j, a, s)
    BY <1>3, <1>5, <1>8, <1>9, <1>13, Zenon DEF Arrives, d, m, p
<1> QED
    BY <1>3, <1>13, <1>14, Zenon







-----------------------------------------------------------------------------
(* The steps of the host and of the controller.                            *)

(* An endpoint at rest, field by field.                                    *)
Empty == [queue |-> << >>, busy |-> FALSE, enabled |-> TRUE, stray |-> FALSE]

(* An endpoint at rest is Empty.                                           *)
LEMMA IdleIs ==
    ASSUME NEW ep
    PROVE  Idle(ep) <=> ep = Empty
<1>1. PICK x : x = [NoEp EXCEPT !.enabled = TRUE]
    BY Zenon
<1>2. x = Empty
    BY <1>1, Zenon DEF NoEp, Empty
<1> QED
    BY <1>1, <1>2, Zenon DEF Idle

(* It has no transfer to complete.                                         *)
LEMMA IdleEndpoint ==
    ASSUME NEW ep, Idle(ep)
    PROVE  ~Started(ep) /\ Idle(Removed(ep))
<1>1. ep = Empty
    BY IdleIs, Zenon
<1>2. ~Started(ep)
    BY <1>1, Zenon DEF Empty, Started
<1>3. PICK x : x = Removed(ep)
    BY Zenon
<1>4. x = Empty
    BY <1>1, <1>3, Zenon DEF Empty, Removed
<1> QED
    BY <1>2, <1>3, <1>4, IdleIs, Zenon

(* One that has a transfer under way has only that one.                    *)
LEMMA BusyEndpoint ==
    ASSUME NEW ep, NEW k, NEW len, Busy(ep, k, len)
    PROVE  /\ Started(ep) /\ Head(ep.queue).buf = k /\ Head(ep.queue).len = len
           /\ Idle(TransferComplete(ep)) /\ Idle(Removed(ep))
<1> DEFINE r == [buf |-> k, len |-> len]
<1>1. ep = [queue |-> <<r>>, busy |-> TRUE, enabled |-> TRUE, stray |-> FALSE]
    BY Zenon DEF Busy
<1>2. Head(<<r>>) = r /\ Tail(<<r>>) = << >> /\ <<r>> # << >>
    OBVIOUS
<1> HIDE DEF r
<1>3. Started(ep) /\ Head(ep.queue) = r
    BY <1>1, <1>2, Zenon DEF Started
<1>4. PICK x : x = TransferComplete(ep)
    BY Zenon
<1>5. PICK y : y = Removed(ep)
    BY Zenon
<1>6. ep.queue = <<r>> /\ ep.enabled /\ ~ep.stray
    BY <1>1, Zenon
<1>7. x = Empty
    BY <1>1, <1>2, <1>4, <1>6, Zenon DEF Empty, TransferComplete
<1>8. y = Empty
    BY <1>1, <1>5, Zenon DEF Empty, Removed
<1> QED
    BY <1>3, <1>4, <1>5, <1>7, <1>8, IdleIs DEF r



(* The IN endpoint has a transfer to complete while an answer or a part of *)
(* one is being sent.                                                      *)
Sends ==
    \/ Uploading /\ InBusy("data", BLOCK_MAX * UNIT)
    \/ Finishing /\ usbcmd.tx = "IN_PROGRESS"
    \/ Answering

(* A transfer is under way only in these situations.                       *)
LEMMA SendsWhenStarted ==
    ASSUME Settled, Started(ep_in)
    PROVE  Sends
<1>1. ~Idle(ep_in) /\ ep_in # NoEp
  <2>1. ~Started(NoEp)
    BY Zenon DEF Started, NoEp
  <2> QED
    BY <2>1, IdleEndpoint, Zenon
<1>2. ~InIdle
    BY <1>1, Zenon DEF InIdle
<1>3. Uploading => InBusy("data", BLOCK_MAX * UNIT)
    BY <1>2, Zenon DEF Uploading
<1>4. Finishing => usbcmd.tx = "IN_PROGRESS"
    BY <1>2, Zenon DEF Finishing, InBusy
<1> QED
    BY <1>1, <1>2, <1>3, <1>4, Zenon DEF Settled, Situation, Sends, Detached, Ready, Commanded,
       Receiving, Failed, Hung

(* The parts a completed IN transfer leaves as they were.                  *)
LEMMA SentLeaves ==
    ASSUME DeviceOK, Started(ep_in), NEW ok \in BOOLEAN, UNCHANGED session,
           Becomes(dwc3_tx_handler([Dev EXCEPT !.in = TransferComplete(@)], ok))
    PROVE  /\ UNCHANGED <<ep_out, tx_buffer>> /\ ep_in' = TransferComplete(ep_in)
           /\ usbcmd'.tx = (IF ok THEN "OK" ELSE "ERROR") /\ usbcmd'.rx = usbcmd.rx
           /\ usbcmd'.status = usbcmd.status /\ usbcmd'.cbw = usbcmd.cbw
           /\ usbcmd'.rxbuf_num = usbcmd.rxbuf_num /\ usbcmd'.txbuf_num = usbcmd.txbuf_num
           /\ usbcmd'.reset_flag = usbcmd.reset_flag /\ usbcmd'.lba = usbcmd.lba
           /\ usbcmd'.u_size = usbcmd.u_size /\ usbcmd'.u_bytes = usbcmd.u_bytes
           /\ SameAhead(usbcmd, usbcmd') /\ (AheadInv => AheadInv')
           /\ (AwaitsCommand => AwaitsCommand')
<1>1. /\ UNCHANGED <<ep_out, tx_buffer>> /\ ep_in' = TransferComplete(ep_in)
      /\ usbcmd' = [usbcmd EXCEPT !.tx = IF ok THEN "OK" ELSE "ERROR"]
      /\ usbcmd \in UsbcmdType
    BY SentEffect, Zenon DEF DeviceOK
<1>2. /\ usbcmd'.tx = (IF ok THEN "OK" ELSE "ERROR") /\ usbcmd'.rx = usbcmd.rx
      /\ usbcmd'.status = usbcmd.status /\ usbcmd'.cbw = usbcmd.cbw
      /\ usbcmd'.rxbuf_num = usbcmd.rxbuf_num /\ usbcmd'.txbuf_num = usbcmd.txbuf_num
      /\ usbcmd'.reset_flag = usbcmd.reset_flag /\ usbcmd'.lba = usbcmd.lba
      /\ usbcmd'.u_size = usbcmd.u_size /\ usbcmd'.u_bytes = usbcmd.u_bytes
      /\ usbcmd'.pre_lba = usbcmd.pre_lba /\ usbcmd'.pre_blocks = usbcmd.pre_blocks
    BY <1>1, Zenon DEF UsbcmdType
<1>3. AheadInv => AheadInv'
    BY <1>2, SessionStays, Zenon DEF AheadInv, AheadOf
<1>4. AwaitsCommand => AwaitsCommand'
    BY <1>1, <1>2, Zenon DEF AwaitsCommand, OutBusy, Busy
<1> QED
    BY <1>1, <1>2, <1>3, <1>4, Zenon DEF SameAhead

(* What the host receives when the request at the head is complete.        *)
LEMMA HostReceives ==
    ASSUME DeviceOK, HostOK, RecvIn, NEW k, NEW len, Busy(ep_in, k, len), NEW m, m = tx_buffer[k]
    PROVE  /\ host.cmd' = host.cmd /\ pc' = pc /\ pc \in {"run", "delay"}
           /\ host.phase = "in" /\ m.kind \in {"data", "small"} =>
                /\ host'.got = host.got \o Wire(m, len) /\ UNCHANGED view
                /\ Len(host'.got) = Len(host.got) + len \div UNIT /\ Len(host.got) \in Nat
                /\ host'.phase = IF m.kind = "small" \/ Len(host'.got) >= host.cmd.n
                                 THEN "csw" ELSE "in"
           /\ ~(host.phase = "in" /\ m.kind \in {"data", "small"}) =>
                /\ host'.phase = "idle" /\ host'.answer = m /\ host'.got = host.got
                /\ view' = IF m.kind = "csw" THEN Answered(host.cmd) ELSE view
<1> DEFINE r == Head(ep_in.queue)
           got == host.got \o Wire(m, len)
           last == m.kind = "small" \/ Len(got) >= host.cmd.n
<1>1. r.buf = k /\ r.len = len /\ Started(ep_in)
    BY BusyEndpoint, Zenon
<1>2. /\ pc' = pc /\ pc \in {"run", "delay"}
      /\ IF host.phase = "in" /\ m.kind \in {"data", "small"}
         THEN /\ host' = [host EXCEPT !.got = got, !.phase = IF last THEN "csw" ELSE "in"]
              /\ UNCHANGED view
         ELSE /\ host' = [host EXCEPT !.phase = "idle", !.answer = m]
              /\ view' = IF m.kind = "csw" THEN Answered(host.cmd) ELSE view
    BY <1>1, Zenon DEF RecvIn
<1>3. r \in ReqType
    BY <1>1, HeadTailProperties, Zenon DEF DeviceOK, EpType, Started
<1>4. k \in 0 .. 1 /\ len \in Nat
    BY <1>1, <1>3, Zenon DEF ReqType
<1>5. m \in ContentType
    BY <1>4, Zenon DEF DeviceOK
<1>6. host \in HostType /\ host.got \in Seq(BlockType)
    BY Zenon DEF HostOK, HostType
<1>7. Len(got) = Len(host.got) + len \div UNIT /\ Len(host.got) \in Nat
  <2>1. Wire(m, len) \in Seq(BlockType) /\ Len(Wire(m, len)) = len \div UNIT
    BY <1>4, <1>5, WireTyped, Zenon
  <2>2. Len(got) = Len(host.got) + Len(Wire(m, len))
    BY <1>6, <2>1, ConcatProperties, Zenon
  <2>3. Len(host.got) \in Nat
    BY <1>6, LenProperties, Zenon
  <2> QED
    BY <2>1, <2>2, <2>3, Zenon
<1> HIDE DEF got, r
<1>8. CASE host.phase = "in" /\ m.kind \in {"data", "small"}
  <2>1. host' = [host EXCEPT !.got = got, !.phase = IF last THEN "csw" ELSE "in"]
    BY <1>2, <1>8, Zenon
  <2>2. host'.cmd = host.cmd /\ host'.got = got /\ host'.phase = IF last THEN "csw" ELSE "in"
    BY <1>6, <2>1, Zenon DEF HostType
  <2> QED
    BY <1>2, <1>7, <1>8, <2>2, Zenon DEF got
<1>9. CASE ~(host.phase = "in" /\ m.kind \in {"data", "small"})
  <2>1. host'.cmd = host.cmd /\ host'.phase = "idle" /\ host'.answer = m /\ host'.got = host.got
    BY <1>2, <1>6, <1>9, Zenon DEF HostType
  <2> QED
    BY <1>2, <1>9, <2>1, Zenon
<1> QED
    BY <1>8, <1>9, Zenon

-----------------------------------------------------------------------------











-----------------------------------------------------------------------------
(* The gadget starts detached.                                             *)
LEMMA LinkInit ==
    ASSUME Init
    PROVE  OfSession /\ Settled
<1>1. /\ pc = "run" /\ host = NoHost /\ usbcmd = ZeroUsbcmd /\ ep_in = NoEp /\ ep_out = NoEp
    BY Zenon DEF Init
<1>2. /\ host.phase = "attach" /\ host.cmd = NoCmd /\ host.answer = Csw(0, "GOOD")
      /\ NoCmd = [NoCmd EXCEPT !.tag = NoCmd.tag] /\ NoCmd.tag = 0
    BY <1>1, Zenon DEF NoHost, NoCmd
<1>3. OfSession
    BY <1>2, Zenon DEF OfSession
<1>4. /\ usbcmd.status = "IDLE" /\ usbcmd.rx.actual = 0 /\ usbcmd.pre_blocks = 0
      /\ usbcmd.reset_flag = 0
    BY <1>1, Zenon DEF ZeroUsbcmd
<1>5. OwnAnswer
    BY <1>2 DEF OwnAnswer, Csw
<1>6. Detached
    BY <1>1, <1>2, <1>4, <1>5, Zenon DEF Detached
<1> QED
    BY <1>3, <1>4, <1>6 DEF Settled, Situation, AheadInv, Reboots





(* Every step keeps LinkInv.                                               *)
LEMMA LinkStep ==
    ASSUME LinkInv, [Next]_vars
    PROVE  LinkInv'
(* What is read ahead stays as it is or is dropped.                        *)
<1>AheadKept.
      ASSUME AheadInv, usbcmd.status # "TXDATA_PREPARE", UNCHANGED session,
             KeepsAhead(usbcmd, usbcmd')
      PROVE  AheadInv'
  <2> USE <1>AheadKept
  <2>1. Faults' = Faults /\ ReadCmds' = ReadCmds
      BY SessionStays, Zenon
  <2>2. ASSUME usbcmd'.pre_blocks # 0
        PROVE  IF "clear_both" \in Faults' THEN \E c \in ReadCmds' : usbcmd'.pre_lba \in AheadOf(c)
               ELSE usbcmd'.status = "TXDATA_PREPARE"
    <3>1. usbcmd'.pre_lba = usbcmd.pre_lba /\ usbcmd.pre_blocks # 0
      BY <2>2, Zenon DEF KeepsAhead, SameAhead
    <3> QED
      BY <2>1, <3>1 DEF AheadInv
  <2> QED
      BY <2>2, Zenon DEF AheadInv
(* Every pass, in every situation.                                         *)
<1>PassSettled.
      ASSUME DeviceOK, HostOK, OfSession, Orderly, Settled, Pass, UNCHANGED session
      PROVE  Settled'
  (* A pass that has sent the status is answering.                           *)
  <2>LeavesAnswer.
        ASSUME NEW s, Leaves(s), Answers(s, host.cmd.tag), host.phase = "csw", pc' \in {"run", "delay"}
        PROVE  Answering'
    <3> USE <2>LeavesAnswer
    <3>1. /\ Busy(ep_in', 1 - usbcmd'.txbuf_num, 1) /\ usbcmd'.tx = "IN_PROGRESS"
          /\ tx_buffer'[1 - usbcmd'.txbuf_num] = Sent(s)
          /\ Busy(ep_out', 1 - usbcmd'.rxbuf_num, UNIT)
          /\ usbcmd'.rx.status = "READY" /\ usbcmd'.rx.actual = 0
        BY LeavesLink, Zenon DEF Answers
    <3>2. usbcmd'.status = "IDLE" /\ UNCHANGED host /\ Sent(s).kind = "csw" /\ Sent(s).tag = host.cmd.tag
        BY Zenon DEF Leaves, Answers
    <3>3. AwaitsCommand'
        BY <3>1, <3>2 DEF AwaitsCommand, OutBusy, Busy, UNIT
    <3>4. InBusy("csw", 1)'
        BY <3>1, <3>2 DEF InBusy, Busy
    <3> QED
        BY <3>1, <3>2, <3>3, <3>4 DEF Answering
  (* What a read in progress has read ahead.                                 *)
  <2>AheadUploading.
        ASSUME HostOK, OfSession, host.cmd.op \in Reads, UNCHANGED session,
               NEW j \in 1 .. host.cmd.n, j * BLOCK_MAX < host.cmd.n,
               usbcmd'.pre_lba = host.cmd.lba + j * BLOCK_MAX, usbcmd'.status = "TXDATA_PREPARE"
        PROVE  AheadInv'
    <3> USE <2>AheadUploading
    <3>1. host.cmd.op # "NONE"
        BY Zenon DEF Reads
    <3>2. PICK c \in Cmds : c.op = host.cmd.op /\ c.lba = host.cmd.lba /\ c.n = host.cmd.n
        BY <3>1, SessionCmd
    <3>3. c \in ReadCmds
        BY <3>2, Zenon DEF ReadCmds
    <3>4. usbcmd'.pre_lba \in AheadOf(c)
        BY <3>2 DEF AheadOf
    <3>5. c \in ReadCmds'
        BY <3>3, SessionStays
    <3> QED
        BY <3>4, <3>5 DEF AheadInv
  <2>DataKind.
        ASSUME NEW b
        PROVE  Data(b).kind = "data"
    <3> USE <2>DataKind
    <3> QED
        BY Zenon DEF Data
  (* An upload after a pass that sent something.                             *)
  <2>UploadLink.
        ASSUME HostOK, OfSession, UNCHANGED session, NEW j \in Nat, NEW p, NEW t,
               j * BLOCK_MAX < host.cmd.n, Uploaded(p, t, j * BLOCK_MAX, host.cmd.n), Leaves(t),
               t.u.status = TxState(j * BLOCK_MAX, host.cmd.n), pc' = "run",
               p.u.cbw = host.cmd, p.u.lba = host.cmd.lba + j * BLOCK_MAX, Idle(p.out),
               p.tb[p.u.txbuf_num].kind = "data",
               host.cmd.op \in Reads, host.phase = "in", Len(host.got) = j * BLOCK_MAX
        PROVE  (Uploading' \/ Finishing') /\ AheadInv'
    <3> USE <2>UploadLink
    <3> DEFINE n == host.cmd.n
               d == j * BLOCK_MAX
    <3>1. n \in Nat /\ host.cmd.lba \in Nat /\ d \in Nat /\ BLOCK_MAX \in Nat \ {0}
        BY Multiples, RockUsbAssumption DEF HostOK, HostType, CmdType
    <3>2. PICK b \in 1 .. BLOCK_MAX :
            b = Min2(n - d, BLOCK_MAX) /\ d + b <= n /\ (d + b # n => b = BLOCK_MAX /\ d + b < n)
      <4> HIDE DEF n, d
      <4>1. d < n
        BY Zenon DEF n, d
      <4> QED
        BY <3>1, <4>1, NextPart, Zenon
    <3>3. UNCHANGED host
        BY Zenon DEF Leaves
    <3>4. /\ t.out = p.out /\ Sending(t, b * UNIT) /\ Sent(t) = p.tb[p.u.txbuf_num]
          /\ t.u.cbw = host.cmd /\ t.u.u_bytes = (d + b) * UNIT /\ t.u.u_size = n * UNIT
          /\ t.u.lba = p.u.lba + b
        BY <3>2, Zenon DEF Uploaded
    <3>5. /\ Busy(ep_in', 1 - usbcmd'.txbuf_num, b * UNIT) /\ usbcmd'.tx = "IN_PROGRESS"
          /\ tx_buffer'[1 - usbcmd'.txbuf_num] = Sent(t)
        BY <3>4, LeavesLink, Zenon
    <3>6. InBusy("data", b * UNIT)'
        BY <3>4, <3>5, Zenon DEF InBusy, Busy
    <3>7. Idle(ep_out')
        BY <3>4, Zenon DEF Leaves
    <3>8. usbcmd'.cbw = host'.cmd /\ host'.phase = "in" /\ host'.cmd.op \in Reads
        BY <3>3, <3>4, Zenon DEF Leaves
    <3>9. CASE d + b = n
      <4>1. usbcmd'.status = "CSW"
        BY <3>2, <3>9, Zenon DEF Leaves, TxState
      <4>2. Serving(Reads \cup Small)'
        BY <3>8 DEF Serving
      <4>3. Len(host'.got) + b = host'.cmd.n
        BY <3>1, <3>2, <3>3, <3>9
      <4>4. Finishing'
        BY <3>2, <3>6, <3>7, <3>8, <4>1, <4>2, <4>3 DEF Finishing, Idle
      <4>5. usbcmd'.pre_blocks = 0
        BY <3>2, <3>9, Zenon DEF Uploaded, Leaves, SameAhead
      <4> QED
        BY <4>4, <4>5, Zenon DEF AheadInv
    <3>10. CASE d + b # n
      <4> DEFINE i == j + 1
      <4>1. i \in Nat /\ i * BLOCK_MAX = d + BLOCK_MAX /\ i <= i * BLOCK_MAX /\ i \in 1 .. n
        <5>1. d + BLOCK_MAX < n
          BY <3>2, <3>10, Zenon
        <5>2. /\ (j + 1) * BLOCK_MAX = d + BLOCK_MAX /\ j + 1 <= (j + 1) * BLOCK_MAX
          BY Multiples, Zenon
        <5>3. \A a, c \in Nat : j + 1 <= a /\ a < c => j + 1 \in 1 .. c
          OBVIOUS
        <5>4. j + 1 \in Nat /\ d + BLOCK_MAX \in Nat
          <6> HIDE DEF d
          <6> QED
            BY <3>1
        <5> QED
          BY <3>1, <5>1, <5>2, <5>3, <5>4, Zenon
      <4>2. usbcmd'.status = "TXDATA_PREPARE"
        BY <3>2, <3>10 DEF Leaves, TxState
      <4>3. /\ usbcmd'.pre_lba = usbcmd'.lba /\ usbcmd'.pre_blocks = BLOCK_MAX
            /\ tx_buffer'[usbcmd'.txbuf_num].kind = "data"
        <5>1. t.u.pre_lba = t.u.lba /\ t.u.pre_blocks = BLOCK_MAX
              /\ t.tb[t.u.txbuf_num] = Data(MediaRead(p, t.u.lba, BLOCK_MAX))
          BY <3>2, <3>10, Zenon DEF Uploaded
        <5>2. t.tb[t.u.txbuf_num].kind = "data"
          BY <5>1, <2>DataKind, Zenon
        <5> QED
          BY <5>1, <5>2, Zenon DEF Leaves, SameAhead
      <4> HIDE DEF i
      <4>4. /\ i * BLOCK_MAX < n /\ usbcmd'.u_bytes = (i * BLOCK_MAX) * UNIT
            /\ usbcmd'.lba = host.cmd.lba + i * BLOCK_MAX /\ usbcmd'.u_size = n * UNIT
            /\ Len(host.got) + BLOCK_MAX = i * BLOCK_MAX
        <5>1. b = BLOCK_MAX /\ i * BLOCK_MAX = d + b /\ i * BLOCK_MAX < n
          BY <3>2, <3>10, <4>1, Zenon
        <5>2. usbcmd'.u_bytes = (i * BLOCK_MAX) * UNIT /\ usbcmd'.u_size = n * UNIT
          BY <3>4, <5>1, Zenon DEF Leaves
        <5>3. usbcmd'.lba = (host.cmd.lba + d) + b
          BY <3>4, Zenon DEF Leaves
        <5>5. b \in Nat
          BY <3>1, <3>2
        <5>6. Len(host.got) = d
          BY Zenon
        <5> HIDE DEF d, n
        <5>7. (host.cmd.lba + d) + b = host.cmd.lba + (d + b)
          BY <3>1, <5>5
        <5>8. usbcmd'.lba = host.cmd.lba + i * BLOCK_MAX
          BY <5>1, <5>3, <5>7
        <5>9. Len(host.got) + BLOCK_MAX = i * BLOCK_MAX
          BY <5>1, <5>6, Zenon
        <5> QED
          BY <5>1, <5>2, <5>8, <5>9, Zenon
      <4>5. Serving(Reads)'
        BY <3>8, Zenon DEF Serving
      <4>6. InBusy("data", BLOCK_MAX * UNIT)'
        BY <3>2, <3>6, <3>10
      <4>7. Uploading'
        BY <3>3, <3>7, <3>8, <4>1, <4>2, <4>3, <4>4, <4>5, <4>6 DEF Uploading, Idle
      <4>8. AheadInv'
        BY <4>1, <4>2, <4>3, <4>4, <2>AheadUploading
      <4> QED
        BY <4>7, <4>8, Zenon
    <3> QED
        BY <3>9, <3>10
  (* The pass that takes a command without data.                             *)
  <2>PassControl.
        ASSUME DeviceOK, HostOK, AheadInv, Commanded, Pass, UNCHANGED session, Control(host.cmd.op)
        PROVE  Settled'
    <3> USE <2>PassControl
    <3> DEFINE s == Serve(Dev, rx_buffer)
    <3>1. /\ Dev \in DevType /\ Rests(Dev) /\ Idle(Dev.out) /\ HasCommand(Dev.u)
          /\ Fetched(Dev, rx_buffer) = host.cmd /\ Dev.u = usbcmd
        BY PassTakes, Zenon
    <3>2. Answers(s, host.cmd.tag) /\ SameAhead(Dev.u, s.u)
        BY <3>1, ServeControl, Zenon DEF HostOK
    <3>3. s.u.status # "HUNG"
        BY <3>2, Zenon DEF Answers
    <3> HIDE DEF s
    <3>4. Leaves(s) /\ usbcmd'.reset_flag \notin Reboots \cup {16} /\ pc' \in {"run", "delay"}
        BY <3>3, PassLeaves, Zenon DEF s
    <3>5. host.phase = "csw"
        BY Zenon DEF Commanded, FirstPhase, Control
    <3>6. Answering'
        BY <3>2, <3>4, <3>5, <2>LeavesAnswer
    <3>7. AheadInv'
      <4>1. usbcmd.status # "TXDATA_PREPARE"
        BY Zenon DEF Commanded
      <4>2. KeepsAhead(usbcmd, usbcmd')
        BY <3>1, <3>2, <3>4, Zenon DEF KeepsAhead, SameAhead, Leaves
      <4> QED
        BY <4>1, <4>2, <1>AheadKept
    <3> QED
        BY <3>4, <3>6, <3>7 DEF Settled, Situation
  (* The pass that takes a command with a short answer.                      *)
  <2>PassShort.
        ASSUME DeviceOK, HostOK, AheadInv, usbcmd.reset_flag \notin Reboots \cup {16},
               Commanded, Pass, UNCHANGED session, host.cmd.op \in Small
        PROVE  Settled'
    <3> USE <2>PassShort
    <3> DEFINE s == Serve(Dev, rx_buffer)
    <3>1. /\ Dev \in DevType /\ Rests(Dev) /\ Idle(Dev.out) /\ HasCommand(Dev.u)
          /\ Fetched(Dev, rx_buffer) = host.cmd /\ Dev.u = usbcmd
        BY PassTakes, Zenon
    <3>2. /\ s.u.status = "CSW" /\ s.u.cbw = host.cmd /\ s.out = Dev.out /\ Sending(s, 1)
          /\ Sent(s).kind = "small" /\ SameAhead(Dev.u, s.u) /\ s.u.reset_flag = Dev.u.reset_flag
        BY <3>1, ServeShort, Zenon DEF HostOK
    <3> HIDE DEF s
    <3>3. Leaves(s) /\ usbcmd'.reset_flag \notin Reboots \cup {16} /\ pc' = "run"
        BY <3>1, <3>2, PassLeaves, Zenon DEF s
    <3>4. host.phase = "in" /\ host.got = << >>
        BY Zenon DEF Commanded, FirstPhase, Small, Writes
    <3>5. UNCHANGED host /\ usbcmd'.status = "CSW" /\ usbcmd'.cbw = host.cmd /\ ep_out' = Dev.out
        BY <3>2, <3>3, Zenon DEF Leaves
    <3>6. InBusy("small", 1)'
        BY <3>2, <3>3, LeavesLink, Zenon DEF InBusy, Busy
    <3>7. Serving(Reads \cup Small)'
        BY <3>3, <3>5, Zenon DEF Serving
    <3>8. Finishing'
      <4>1. Idle(ep_out)'
        BY <3>1, <3>5, Zenon DEF Idle
      <4> QED
        BY <3>4, <3>5, <3>6, <3>7, <4>1 DEF Finishing
    <3>9. AheadInv'
      <4>1. usbcmd.status # "TXDATA_PREPARE"
        BY Zenon DEF Commanded
      <4>2. KeepsAhead(usbcmd, usbcmd')
        BY <3>1, <3>2, <3>3, Zenon DEF KeepsAhead, SameAhead, Leaves
      <4> QED
        BY <4>1, <4>2, <1>AheadKept, Zenon
    <3> QED
        BY <3>3, <3>8, <3>9, Zenon DEF Settled, Situation
  (* The pass that takes a read.                                             *)
  <2>PassRead.
        ASSUME DeviceOK, HostOK, OfSession, Orderly, AheadInv,
               usbcmd.reset_flag \notin Reboots \cup {16},
               Commanded, Pass, UNCHANGED session, host.cmd.op \in Reads
        PROVE  Settled'
    <3> USE <2>PassRead
    <3> DEFINE s == Serve(Dev, rx_buffer)
               n == host.cmd.n
    <3>1. /\ Dev \in DevType /\ Rests(Dev) /\ Idle(Dev.out) /\ HasCommand(Dev.u)
          /\ Fetched(Dev, rx_buffer) = host.cmd /\ Dev.u = usbcmd /\ n \in Nat
          /\ host.cmd.lba \in Nat
        BY PassTakes, Zenon DEF CmdType
    <3>2. host.phase = "in" /\ host.got = << >>
        BY Zenon DEF Commanded, FirstPhase, Reads, Writes
    <3>3. rx_buffer \in [0 .. 1 -> ContentType]
        BY Zenon DEF HostOK
    <3>4. CASE n = 0
      <4>1. /\ s.u.status = "HUNG" /\ s.u.pre_blocks = 0 /\ s.in = Dev.in /\ s.out = Dev.out
            /\ s.u.reset_flag = Dev.u.reset_flag
        BY <3>1, <3>3, <3>4, ServeReadNone
      <4>2. Becomes(s) /\ pc' = "hung" /\ UNCHANGED host
        BY <4>1, Zenon DEF Pass
      <4> HIDE DEF s
      <4>3. /\ usbcmd'.status = "HUNG" /\ usbcmd'.pre_blocks = 0 /\ ep_in' = Dev.in
            /\ ep_out' = Dev.out /\ usbcmd'.reset_flag = usbcmd.reset_flag
        BY <3>1, <4>1, <4>2, Zenon DEF Becomes
      <4>4. Hung'
        BY <3>1, <3>2, <4>2, <4>3 DEF Hung, Rests, Idle
      <4>5. AheadInv'
        BY <4>3, Zenon DEF AheadInv
      <4> QED
        BY <4>3, <4>4, <4>5 DEF Settled, Situation
    <3>5. CASE n > 0
      <4> DEFINE j == 0
                 z == j * BLOCK_MAX
      <4>1. j \in Nat /\ z = 0 /\ z < n /\ host.cmd.lba + z = host.cmd.lba
        BY <3>1, <3>5, RockUsbAssumption
      <4>2. Dev.u.pre_blocks # 0 => Dev.u.pre_lba # host.cmd.lba
        BY <3>1, BeginsAfresh, Zenon
      <4>3. PICK p \in DevType :
               /\ Uploaded(p, s, 0, n) /\ s.u.status = TxState(0, n)
               /\ SameRest(Dev, p) /\ p.out = Dev.out /\ p.u.cbw = host.cmd /\ p.u.lba = host.cmd.lba
               /\ p.u.reset_flag = Dev.u.reset_flag
               /\ p.tb[p.u.txbuf_num] = Data(MediaRead(p, host.cmd.lba, Min2(n, BLOCK_MAX)))
        <5> DEFINE D == Dev
                   c == host.cmd
        <5>1. c.n > 0 /\ c = Fetched(D, rx_buffer) /\ c.op \in Reads
          BY <3>1, <3>5, Zenon
        <5>2. D \in DevType /\ HasCommand(D.u) /\ Rests(D) /\ (D.u.pre_blocks # 0 => D.u.pre_lba # c.lba)
          BY <3>1, <4>2, Zenon
        <5> HIDE DEF D, c
        <5>3. \E p \in DevType :
                 /\ Uploaded(p, Serve(D, rx_buffer), 0, c.n) /\ Serve(D, rx_buffer).u.status = TxState(0, c.n)
                 /\ SameRest(D, p) /\ p.out = D.out /\ p.u.cbw = c /\ p.u.lba = c.lba
                 /\ p.u.reset_flag = D.u.reset_flag
                 /\ p.tb[p.u.txbuf_num] = Data(MediaRead(p, c.lba, Min2(c.n, BLOCK_MAX)))
          BY <3>3, <5>1, <5>2, ServeRead, SMTT(60)
        <5> QED
          BY <5>3, Zenon DEF D, c
      <4> HIDE DEF s
      <4>4. s.u.status # "HUNG" /\ s.u.reset_flag = usbcmd.reset_flag
        BY <3>1, <4>3, Zenon DEF TxState, Uploaded
      <4>5. Leaves(s) /\ usbcmd'.reset_flag \notin Reboots \cup {16} /\ pc' = "run"
        BY <4>4, PassLeaves, Zenon DEF s
      <4>6. p.tb[p.u.txbuf_num].kind = "data" /\ Idle(p.out) /\ Len(host.got) = z
        <5>1. p.tb[p.u.txbuf_num].kind = "data"
          BY <4>3, <2>DataKind, Zenon
        <5>2. Len(host.got) = 0
          BY <3>2
        <5> QED
          BY <3>1, <4>1, <4>3, <5>1, <5>2, Zenon
      <4>7. Uploaded(p, s, z, n) /\ s.u.status = TxState(z, n) /\ p.u.lba = host.cmd.lba + z
        BY <4>1, <4>3
      <4> HIDE DEF j
      <4>8. (Uploading' \/ Finishing') /\ AheadInv'
        BY <3>2, <4>1, <4>3, <4>5, <4>6, <4>7, <2>UploadLink, Zenon
      <4> QED
        BY <4>5, <4>8, Zenon DEF Settled, Situation
    <3> QED
        BY <3>1, <3>4, <3>5
  (* The gadget waits for the blocks of a write from block d on.             *)
  <2>WaitsForData.
        ASSUME NEW s, Leaves(s), NEW j \in Nat, j * BLOCK_MAX < host.cmd.n, host.cmd.n \in Nat,
               s.u.status = "RXDATA", s.u.cbw = host.cmd, host.cmd.op \in Writes, Rests(s),
               s.u.d_size = host.cmd.n * UNIT, s.u.d_bytes = j * BLOCK_MAX * UNIT,
               Listening(s, Min2(host.cmd.n - j * BLOCK_MAX, BLOCK_MAX) * UNIT),
               host.phase = "out", host.sent = j * BLOCK_MAX, host.got = << >>, pc' = "run"
        PROVE  Receiving'
    <3> USE <2>WaitsForData
    <3>1. j \in 0 .. host.cmd.n
      <4>1. j * BLOCK_MAX \in Nat /\ j <= j * BLOCK_MAX
        BY Multiples, Zenon
      <4>2. \A a, n \in Nat : j <= a /\ a < n => j \in 0 .. n
        OBVIOUS
      <4> QED
        BY <4>1, <4>2, Zenon
    <3>2. InIdle'
        BY LeavesLink, Zenon
    <3>3. OutBusy(Min2(host.cmd.n - j * BLOCK_MAX, BLOCK_MAX) * UNIT)'
      <4> DEFINE len == Min2(host.cmd.n - j * BLOCK_MAX, BLOCK_MAX) * UNIT
      <4>1. UNCHANGED host
        BY Zenon DEF Leaves
      <4>2. len' = len
        BY <4>1, Zenon
      <4>3. Listening(s, len)
        BY Zenon
      <4> HIDE DEF len
      <4>4. /\ Busy(ep_out', 1 - usbcmd'.rxbuf_num, len)
            /\ usbcmd'.rx.status = "READY" /\ usbcmd'.rx.actual = 0
        BY <4>3, LeavesLink, Zenon
      <4>5. OutBusy(len)'
        BY <4>2, <4>4, Zenon DEF OutBusy, Busy
      <4> QED
        BY <4>5, Zenon DEF len
    <3>4. /\ UNCHANGED host /\ usbcmd'.status = "RXDATA" /\ usbcmd'.cbw = host.cmd
          /\ usbcmd'.d_size = host.cmd.n * UNIT /\ usbcmd'.d_bytes = j * BLOCK_MAX * UNIT
        BY Zenon DEF Leaves
    <3>5. Serving(Writes)'
        BY <3>4, Zenon DEF Serving
    <3> QED
        BY <3>1, <3>2, <3>3, <3>4, <3>5 DEF Receiving
  (* The pass that takes a write.                                            *)
  <2>PassWrite.
        ASSUME DeviceOK, HostOK, AheadInv, usbcmd.reset_flag \notin Reboots \cup {16},
               Commanded, Pass, UNCHANGED session, host.cmd.op \in Writes
        PROVE  Settled'
    <3> USE <2>PassWrite
    <3> DEFINE s == Serve(Dev, rx_buffer)
               c == host.cmd
               z == 0 * BLOCK_MAX
    <3>1. /\ Dev \in DevType /\ Rests(Dev) /\ Idle(Dev.out) /\ HasCommand(Dev.u)
          /\ Fetched(Dev, rx_buffer) = c /\ Dev.u = usbcmd /\ c.n \in Nat
        BY PassTakes, Zenon
    <3>2. rx_buffer \in [0 .. 1 -> ContentType] /\ z = 0 /\ 0 \in Nat
        BY RockUsbAssumption DEF HostOK
    <3>3. /\ s \in DevType /\ KeepsAhead(Dev.u, s.u) /\ s.u.reset_flag = Dev.u.reset_flag
          /\ c.n = 0 => Answers(s, c.tag)
          /\ c.n > 0 => /\ s.u.status = "RXDATA" /\ s.u.cbw = c /\ s.u.lba = c.lba
                        /\ s.u.d_size = c.n * UNIT /\ s.u.d_bytes = 0 * UNIT
                        /\ Rests(s) /\ Listening(s, Min2(c.n, BLOCK_MAX) * UNIT)
        BY <3>1, <3>2, ServeWrite, Zenon
    <3> HIDE DEF s
    <3>4. s.u.status # "HUNG"
      <4>1. s.u.status \in {"IDLE", "RXDATA"}
        BY <3>1, <3>3 DEF Answers
      <4> QED
        BY <4>1, Zenon
    <3>5. Leaves(s) /\ usbcmd'.reset_flag \notin Reboots \cup {16} /\ pc' = "run"
        BY <3>1, <3>3, <3>4, PassLeaves, Zenon DEF s
    <3>6. AheadInv'
      <4>1. usbcmd.status # "TXDATA_PREPARE"
        BY DEF Commanded
      <4>2. KeepsAhead(usbcmd, usbcmd')
        BY <3>1, <3>3, <3>5, Zenon DEF KeepsAhead, SameAhead, Leaves
      <4> QED
        BY <4>1, <4>2, <1>AheadKept
    <3>7. CASE c.n = 0
      <4>1. host.phase = "csw"
        BY <3>7 DEF Commanded, FirstPhase, Writes, Reads, Small
      <4>2. Answering'
        BY <3>3, <3>5, <3>7, <4>1, <2>LeavesAnswer
      <4> QED
        BY <3>5, <3>6, <4>2 DEF Settled, Situation
    <3>8. CASE c.n > 0
      <4>1. host.phase = "out" /\ host.sent = z /\ host.got = << >>
        BY <3>2, <3>8 DEF Commanded, FirstPhase, Writes, Reads, Small
      <4>2. c.n - z = c.n /\ z < c.n /\ 0 * UNIT = z * UNIT
        BY <3>1, <3>2, <3>8
      <4>3. Receiving'
        BY <3>1, <3>2, <3>3, <3>5, <3>8, <4>1, <4>2, <2>WaitsForData, Zenon
      <4> QED
        BY <3>5, <3>6, <4>3 DEF Settled, Situation
    <3> QED
        BY <3>1, <3>7, <3>8
  (* The pass that takes data of a write.                                    *)
  <2>PassReceiving.
        ASSUME DeviceOK, HostOK, AheadInv, usbcmd.reset_flag \notin Reboots \cup {16},
               Receiving, Pass, UNCHANGED session
        PROVE  Settled'
    <3> USE <2>PassReceiving
    <3> DEFINE n == host.cmd.n
    <3>1. PICK j \in Nat, a \in DevType, s \in DevType : Arrives(j, a, s)
        BY DataArrives, Zenon
    <3> DEFINE d == j * BLOCK_MAX
               m == Min2(n - d, BLOCK_MAX)
    <3>2. /\ d < n /\ host.phase = (IF d + m = n THEN "csw" ELSE "out") /\ host.sent = d + m
          /\ Received(Dev, a, d, m, n) /\ Stores(a, s) /\ Leaves(s)
          /\ usbcmd'.reset_flag \notin Reboots \cup {16} /\ pc' = "run"
        BY <3>1, Zenon DEF Arrives
    <3>3. n \in Nat /\ Dev.u = usbcmd
        BY DevTyped, Zenon DEF HostOK, HostType, CmdType
    <3>4. /\ d \in Nat /\ m \in Nat /\ d + m <= n
          /\ (d + m < n => d + m = (j + 1) * BLOCK_MAX)
        BY <3>2, <3>3, Portion
    <3>5. usbcmd.status = "RXDATA" /\ usbcmd.cbw = host.cmd
          /\ host.cmd.op \in Writes /\ host.got = << >>
        BY Zenon DEF Receiving, Serving
    <3> HIDE DEF d, m
    <3>10. /\ s.in = a.in /\ s.out = a.out /\ s.tb = a.tb
           /\ s.u.status = a.u.status /\ s.u.tx = a.u.tx /\ s.u.rx = a.u.rx
           /\ s.u.txbuf_num = a.u.txbuf_num /\ s.u.rxbuf_num = a.u.rxbuf_num
           /\ s.u.cbw = a.u.cbw /\ s.u.d_bytes = a.u.d_bytes /\ s.u.d_size = a.u.d_size
           /\ SameAhead(a.u, s.u)
        BY <3>2, StoresLink, ZenonT(40)
    <3>11. /\ a.u.cbw = host.cmd /\ SameAhead(usbcmd, a.u)
           /\ d + m < n => /\ a.u.status = "RXDATA" /\ a.u.d_bytes = (d + m) * UNIT
                           /\ a.u.d_size = n * UNIT /\ Rests(a)
                           /\ Listening(a, Min2(n - (d + m), BLOCK_MAX) * UNIT)
           /\ d + m = n => Answers(a, host.cmd.tag)
        BY <3>2, <3>3, <3>5, Zenon DEF Received
    <3>14. AheadInv'
      <4>1. KeepsAhead(usbcmd, usbcmd')
        BY <3>2, <3>10, <3>11, Zenon DEF KeepsAhead, SameAhead, Leaves
      <4> QED
        BY <3>5, <4>1, <1>AheadKept, Zenon
    <3>15. CASE d + m = n
      <4>1. Answers(s, host.cmd.tag)
        BY <3>10, <3>11, <3>15, Zenon DEF Answers, Listening, Sending, Sent
      <4>2. Answering'
        BY <3>2, <3>15, <4>1, <2>LeavesAnswer
      <4> QED
        BY <3>2, <3>14, <4>2, Zenon DEF Settled, Situation
    <3>16. CASE d + m < n
      <4> DEFINE i == j + 1
      <4>1. i \in Nat /\ i * BLOCK_MAX = d + m
        BY <3>4, <3>16
      <4>2. Rests(s) /\ Listening(s, Min2(n - i * BLOCK_MAX, BLOCK_MAX) * UNIT)
        BY <3>10, <3>11, <3>16, <4>1, Zenon DEF Rests, Listening
      <4>3. host.phase = "out"
        BY <3>2, <3>3, <3>4, <3>16
      <4> HIDE DEF i
      <4>4. Receiving'
        BY <3>2, <3>3, <3>5, <3>10, <3>11, <3>16, <4>1, <4>2, <4>3, <2>WaitsForData, Zenon
      <4> QED
        BY <3>2, <3>14, <4>4 DEF Settled, Situation
    <3> QED
        BY <3>3, <3>4, <3>15, <3>16
  (* The pass that goes on with a read.                                      *)
  <2>PassUploading.
        ASSUME DeviceOK, HostOK, OfSession, AheadInv, usbcmd.reset_flag \notin Reboots \cup {16},
               Uploading, Pass, UNCHANGED session
        PROVE  Settled'
    <3> USE <2>PassUploading
    <3> DEFINE n == host.cmd.n
               s == Serve(Dev, rx_buffer)
    <3>1. PICK j \in 1 .. n :
             /\ j * BLOCK_MAX < n /\ usbcmd.u_bytes = j * BLOCK_MAX * UNIT
             /\ usbcmd.lba = host.cmd.lba + j * BLOCK_MAX
             /\ \/ InIdle /\ Len(host.got) = j * BLOCK_MAX
                \/ InBusy("data", BLOCK_MAX * UNIT) /\ Len(host.got) + BLOCK_MAX = j * BLOCK_MAX
        BY Zenon DEF Uploading
    <3>2. /\ Dev \in DevType /\ Dev.u = usbcmd /\ (Rests(Dev) <=> InIdle) /\ Dev.tb = tx_buffer
          /\ (Idle(Dev.out) <=> Idle(ep_out)) /\ HasWork(Dev) /\ n \in Nat
        BY DevTyped, DevLink, Zenon DEF Pass, HostOK, HostType, CmdType
    <3>3. /\ usbcmd.status = "TXDATA_PREPARE" /\ usbcmd.cbw = host.cmd /\ host.cmd.op \in Reads
          /\ Idle(ep_out) /\ host.phase = "in" /\ usbcmd.u_size = n * UNIT
          /\ usbcmd.pre_lba = usbcmd.lba /\ usbcmd.pre_blocks = BLOCK_MAX
          /\ tx_buffer[usbcmd.txbuf_num].kind = "data"
        BY Zenon DEF Uploading, Serving
    <3> DEFINE d == j * BLOCK_MAX
    <3>4. j \in Nat /\ d \in Nat \ {0}
        BY <3>1, <3>2, Multiples
    <3>5. usbcmd.tx = "OK"
      <4>1. usbcmd.u_bytes # 0
        BY <3>1, <3>4 DEF UNIT
      <4> QED
        BY <3>2, <3>3, <4>1, Zenon DEF HasWork, HasCommand, Responds
    <3>6. InIdle /\ Len(host.got) = d
        BY <3>1, <3>5 DEF InBusy
    <3> HIDE DEF d
    <3>7. d < n /\ usbcmd.u_bytes = d * UNIT /\ usbcmd.lba = host.cmd.lba + d
        BY <3>1 DEF d
    <3>8. Uploaded(Dev, s, d, n) /\ s.u.status = TxState(d, n)
        BY <3>2, <3>3, <3>4, <3>6, <3>7, ServeUpload
    <3> HIDE DEF s
    <3>9. s.u.status # "HUNG" /\ s.u.reset_flag = usbcmd.reset_flag
        BY <3>2, <3>8, Zenon DEF Uploaded, TxState
    <3>10. Leaves(s) /\ usbcmd'.reset_flag \notin Reboots \cup {16} /\ pc' = "run"
        BY <3>9, PassLeaves DEF s
    <3>11. (Uploading' \/ Finishing') /\ AheadInv'
        BY <3>2, <3>3, <3>4, <3>6, <3>7, <3>8, <3>10, <2>UploadLink, Zenon DEF d
    <3> QED
        BY <3>10, <3>11 DEF Settled, Situation
  (* The pass that sends the status of a read or a short answer.             *)
  <2>PassFinishing.
        ASSUME DeviceOK, HostOK, AheadInv, usbcmd.reset_flag \notin Reboots \cup {16},
               Finishing, Pass, UNCHANGED session
        PROVE  Settled'
    <3> USE <2>PassFinishing
    <3> DEFINE s == Serve(Dev, rx_buffer)
    <3>1. /\ Dev \in DevType /\ Dev.u = usbcmd /\ (Rests(Dev) <=> InIdle)
          /\ (Idle(Dev.out) <=> Idle(ep_out)) /\ HasWork(Dev)
        BY DevTyped, DevLink DEF Pass
    <3>2. usbcmd.status = "CSW" /\ usbcmd.cbw = host.cmd /\ Idle(ep_out)
        BY Zenon DEF Finishing, Serving
    <3>3. usbcmd.tx = "OK"
        BY <3>1, <3>2, Zenon DEF HasWork, HasCommand, Responds
    <3>4. InIdle /\ host.phase = "csw"
        BY <3>3, Zenon DEF Finishing, InBusy
    <3>5. /\ Answers(s, host.cmd.tag) /\ SameAhead(Dev.u, s.u) /\ s.u.reset_flag = Dev.u.reset_flag
        BY <3>1, <3>2, <3>4, ServeStatus, Zenon
    <3> HIDE DEF s
    <3>6. s.u.status # "HUNG"
        BY <3>5, Zenon DEF Answers
    <3>7. Leaves(s) /\ usbcmd'.reset_flag \notin Reboots \cup {16} /\ pc' = "run"
        BY <3>1, <3>5, <3>6, PassLeaves, Zenon DEF s
    <3>8. Answering'
        BY <3>4, <3>5, <3>7, <2>LeavesAnswer, Zenon
    <3>9. AheadInv'
      <4>1. KeepsAhead(usbcmd, usbcmd')
        BY <3>1, <3>5, <3>7, Zenon DEF KeepsAhead, SameAhead, Leaves
      <4> QED
        BY <3>2, <4>1, <1>AheadKept, Zenon
    <3> QED
        BY <3>7, <3>8, <3>9 DEF Settled, Situation
  <2> USE <1>PassSettled
  <2>1. HasWork(Dev) /\ pc = "run" /\ Dev.u = usbcmd
      BY DevTyped, Zenon DEF Pass
  <2>2. AheadInv /\ usbcmd.reset_flag \notin Reboots \cup {16}
      BY Zenon DEF Settled
  <2>3. CASE Commanded
    <3>1. Control(host.cmd.op) \/ host.cmd.op \in Small \/ host.cmd.op \in Reads \/ host.cmd.op \in Writes
      BY Zenon DEF Control
    <3> QED
      BY <2>2, <2>3, <3>1, <2>PassControl, <2>PassShort, <2>PassRead, <2>PassWrite
  <2>4. CASE Receiving
      BY <2>2, <2>4, <2>PassReceiving, Zenon
  <2>5. CASE Uploading
      BY <2>2, <2>5, <2>PassUploading
  <2>6. CASE Finishing
      BY <2>2, <2>6, <2>PassFinishing
  <2>7. ~Detached /\ ~Ready /\ ~Answering
      BY <2>1 DEF HasWork, HasCommand, Responds, Detached, Ready, Answering, AwaitsCommand, OutBusy
  <2>8. ~Failed /\ ~Hung
      BY <2>1 DEF HasWork, HasCommand, Responds, Failed, Hung, AwaitsCommand, OutBusy
  <2> QED
      BY <2>3, <2>4, <2>5, <2>6, <2>7, <2>8 DEF Settled, Situation
(* The host sends a command block between commands.                        *)
<1>CbwSettled.
      ASSUME DeviceOK, HostOK, Settled, NEW c \in Cmds, SendCbw(c), UNCHANGED session
      PROVE  Settled' /\ OfSession'
  <2> USE <1>CbwSettled
  <2> DEFINE d == [c EXCEPT !.tag = 1 - host.tag]
             k == Head(ep_out.queue).buf
  <2>1. c \in CmdType
      BY RockUsbAssumption, Zenon DEF HostOK, Cmds
  <2>2. host.tag \in 0 .. 1
      BY Zenon DEF HostOK, HostType
  <2>3. d \in CmdType /\ d.op = c.op /\ d.n = c.n /\ d = [c EXCEPT !.tag = d.tag]
      BY <2>1, <2>2 DEF CmdType
  <2>4. Cbw(d) \in ContentType /\ 1 \in Nat
      BY <2>3, ContentTyped, Zenon
  <2>5. Deliver(1, Cbw(d)) /\ Started(ep_out) /\ pc = "run" /\ pc' = "run"
      BY Zenon DEF SendCbw
  <2>6. Ready
    <3>1. host.phase = "idle"
      BY Zenon DEF SendCbw
    <3> QED
      BY <2>5, <3>1, Zenon DEF Settled, Situation, Detached, Commanded, FirstPhase, Receiving, Uploading,
         Finishing, Answering, Failed, Hung, Writes, Reads, Small
  <2> DEFINE ph == FirstPhase(c)
  <2>7. host' = [NoHost EXCEPT !.cmd = d, !.tag = d.tag, !.phase = ph]
      BY Zenon DEF SendCbw, FirstPhase
  <2>8. FirstPhase(d) = ph
      BY <2>3, Zenon DEF FirstPhase
  <2> HIDE DEF d, ph
  <2>9. host'.cmd = d /\ host'.sent = 0 /\ host'.got = << >> /\ host'.phase = FirstPhase(d)
      BY <2>7, <2>8, Zenon DEF NoHost
  <2>10. OfSession'
      BY <2>3, <2>9, Zenon DEF OfSession, Cmds
  <2>11. /\ UNCHANGED <<ep_in, tx_buffer>> /\ k \in 0 .. 1
         /\ usbcmd' = [usbcmd EXCEPT !.rx = [status |-> "OK", actual |-> 1, buf |-> k]]
         /\ ep_out' = TransferComplete(ep_out) /\ rx_buffer' = [rx_buffer EXCEPT ![k] = Cbw(d)]
         /\ rx_buffer \in [0 .. 1 -> ContentType] /\ usbcmd \in UsbcmdType
      BY <2>4, <2>5, DeliverEffect, Zenon DEF HostOK, DeviceOK
  <2>12. Idle(TransferComplete(ep_out)) /\ k = 1 - usbcmd.rxbuf_num /\ usbcmd.rxbuf_num \in 0 .. 1
    <3>1. Busy(ep_out, 1 - usbcmd.rxbuf_num, UNIT)
      BY <2>6, Zenon DEF Ready, AwaitsCommand, OutBusy
    <3> QED
      BY <2>11, <3>1, BusyEndpoint DEF UsbcmdType
  <2> HIDE DEF k
  <2>13. /\ usbcmd'.status = "IDLE" /\ usbcmd'.tx = usbcmd.tx
         /\ usbcmd'.rx = [status |-> "OK", actual |-> 1, buf |-> k]
         /\ usbcmd'.rxbuf_num = usbcmd.rxbuf_num /\ usbcmd'.reset_flag = usbcmd.reset_flag
         /\ SameAhead(usbcmd, usbcmd') /\ rx_buffer'[k] = Cbw(d)
      BY <2>6, <2>11, Zenon DEF UsbcmdType, SameAhead, Ready, AwaitsCommand
  <2>14. InIdle'
      BY <2>6, <2>11, <2>13, Zenon DEF Ready, InIdle, Idle
  <2>15. OutDone(1)'
      BY <2>11, <2>12, <2>13 DEF OutDone, Idle
  <2>16. Commanded'
      BY <2>5, <2>9, <2>13, <2>14, <2>15 DEF Commanded, FirstPhase
  <2>17. AheadInv'
      BY <2>6, <2>13, <1>AheadKept, Zenon DEF Settled, Ready, AwaitsCommand, KeepsAhead
  <2> QED
      BY <2>10, <2>13, <2>16, <2>17, Zenon DEF Settled, Situation
(* The host sends data of a write.                                         *)
<1>DataSettled.
      ASSUME DeviceOK, HostOK, Settled, SendData, UNCHANGED session
      PROVE  Settled'
  <2> USE <1>DataSettled
  <2> DEFINE n == host.cmd.n
             q == Min2(Head(ep_out.queue).len \div UNIT, n - host.sent)
  <2>1. /\ pc = "run" /\ pc' = "run" /\ host.phase = "out" /\ Started(ep_out)
        /\ Deliver(q * UNIT, Data(SubSeq(Payload(host.cmd), host.sent + 1, host.sent + q)))
        /\ host' = [host EXCEPT !.sent = host.sent + q,
                                !.phase = IF host.sent + q = n THEN "csw" ELSE "out"]
      BY Zenon DEF SendData
  <2>2. Receiving
    <3>1. ~Commanded
      BY <2>1, IdleEndpoint, Zenon DEF Commanded, OutDone
    <3> QED
      BY <2>1, <3>1, Zenon DEF Settled, Situation, Detached, Ready, Uploading, Finishing, Answering,
         Failed, Hung
  <2>3. PICK j \in 0 .. n :
           LET d == j * BLOCK_MAX
               m == Min2(n - d, BLOCK_MAX)
           IN  /\ d < n /\ usbcmd.d_bytes = d * UNIT
               /\ \/ host.phase = "out" /\ host.sent = d /\ OutBusy(m * UNIT)
                  \/ /\ host.phase = IF d + m = n THEN "csw" ELSE "out"
                     /\ host.sent = d + m /\ OutDone(m * UNIT)
                     /\ rx_buffer[usbcmd.rx.buf] = Data(SubSeq(Payload(host.cmd), d + 1, d + m))
      BY <2>2, Zenon DEF Receiving
  <2> DEFINE d == j * BLOCK_MAX
             m == Min2(n - d, BLOCK_MAX)
             p == SubSeq(Payload(host.cmd), d + 1, d + m)
  <2>4. host \in HostType /\ host.cmd \in CmdType /\ n \in Nat
      BY Zenon DEF HostOK, HostType, CmdType
  <2>5. d \in Nat /\ d < n /\ m \in Nat \ {0} /\ d + m <= n
    <3>1. j \in Nat /\ d < n
      BY <2>3
    <3> QED
      BY <2>4, <3>1, Portion, Zenon
  <2>6. host.sent = d /\ OutBusy(m * UNIT) /\ usbcmd.d_bytes = d * UNIT
    <3>1. ~OutDone(m * UNIT)
      BY <2>1, IdleEndpoint, Zenon DEF OutDone
    <3> HIDE DEF d, m
    <3> QED
      BY <2>3, <3>1, Zenon DEF d, m
  <2>7. Data(p) \in ContentType
      BY <2>4, <2>5, PieceTyped, ContentTyped, Zenon
  <2> DEFINE k == Head(ep_out.queue).buf
  <2>8. /\ Head(ep_out.queue).len = m * UNIT /\ k = 1 - usbcmd.rxbuf_num
        /\ Idle(TransferComplete(ep_out))
    <3>1. Busy(ep_out, 1 - usbcmd.rxbuf_num, m * UNIT)
      BY <2>6, Zenon DEF OutBusy
    <3> QED
      BY <3>1, BusyEndpoint, Zenon
  <2>9. q = m
    <3>1. (m * UNIT) \div UNIT = m
      BY <2>5 DEF UNIT
    <3>2. (m <= n - d /\ n - d <= m) \/ m < n - d
      BY <2>4, <2>5
    <3> HIDE DEF d, m
    <3> QED
      BY <2>4, <2>5, <2>6, <2>8, <3>1, <3>2 DEF Min2
  <2> HIDE DEF q, d, m, p
  <2>10. Deliver(m * UNIT, Data(p)) /\ m * UNIT \in Nat
      BY <2>1, <2>5, <2>6, <2>9 DEF p, UNIT
  <2>11. /\ UNCHANGED <<ep_in, tx_buffer>> /\ k \in 0 .. 1
         /\ usbcmd' = [usbcmd EXCEPT !.rx = [status |-> "OK", actual |-> m * UNIT, buf |-> k]]
         /\ ep_out' = TransferComplete(ep_out) /\ rx_buffer' = [rx_buffer EXCEPT ![k] = Data(p)]
         /\ rx_buffer \in [0 .. 1 -> ContentType] /\ usbcmd \in UsbcmdType
      BY <2>1, <2>7, <2>10, DeliverEffect, Zenon DEF HostOK, DeviceOK
  <2> HIDE DEF k
  <2>12. /\ usbcmd'.status = usbcmd.status /\ usbcmd'.tx = usbcmd.tx /\ usbcmd'.cbw = usbcmd.cbw
         /\ usbcmd'.rx = [status |-> "OK", actual |-> m * UNIT, buf |-> k]
         /\ usbcmd'.rxbuf_num = usbcmd.rxbuf_num /\ usbcmd'.reset_flag = usbcmd.reset_flag
         /\ usbcmd'.d_bytes = usbcmd.d_bytes /\ usbcmd'.d_size = usbcmd.d_size
         /\ SameAhead(usbcmd, usbcmd') /\ rx_buffer'[k] = Data(p)
         /\ usbcmd.rxbuf_num \in 0 .. 1
      BY <2>11, Zenon DEF UsbcmdType, SameAhead
  <2>13. /\ host'.cmd = host.cmd /\ host'.got = host.got /\ host'.sent = d + m
         /\ host'.phase = IF d + m = n THEN "csw" ELSE "out"
      BY <2>1, <2>4, <2>6, <2>9, Zenon DEF HostType
  <2>14. InIdle' /\ Serving(Writes)'
      BY <2>1, <2>2, <2>11, <2>12, <2>13 DEF Receiving, InIdle, Idle, Serving
  <2>15. /\ Idle(ep_out') /\ usbcmd'.rx.status = "OK" /\ usbcmd'.rx.actual = m * UNIT
         /\ usbcmd'.rxbuf_num = 1 - usbcmd'.rx.buf
      BY <2>8, <2>11, <2>12
  <2>16. Receiving'
    <3>1. /\ usbcmd'.status = "RXDATA" /\ usbcmd'.d_size = host'.cmd.n * UNIT /\ host'.got = << >>
          /\ usbcmd'.d_bytes = d * UNIT /\ d < host'.cmd.n
      BY <2>2, <2>5, <2>6, <2>12, <2>13, Zenon DEF Receiving
    <3>2. rx_buffer'[usbcmd'.rx.buf] = Data(SubSeq(Payload(host'.cmd), d + 1, d + m))
      BY <2>12, <2>13 DEF p
    <3>3. j \in 0 .. host'.cmd.n
      BY <2>13, Zenon
    <3> QED
      BY <2>13, <2>14, <2>15, <3>1, <3>2, <3>3 DEF Receiving, OutDone, Idle, d, m
  <2>17. AheadInv'
      BY <2>2, <2>12, <1>AheadKept, Zenon DEF Settled, Receiving, KeepsAhead
  <2> QED
      BY <2>12, <2>16, <2>17, Zenon DEF Settled, Situation
(* An IN transfer fails.                                                   *)
<1>ErrorSettled.
      ASSUME DeviceOK, HostOK, Settled, InError, UNCHANGED session
      PROVE  Settled'
  <2> USE <1>ErrorSettled
  <2>1. /\ pc = "run" /\ pc' = "run" /\ Started(ep_in) /\ host' = GivesUp("recover")
        /\ Becomes(dwc3_tx_handler([Dev EXCEPT !.in = TransferComplete(@)], FALSE))
      BY Zenon DEF InError
  <2>2. Sends
      BY <2>1, SendsWhenStarted, Zenon
  <2>3. /\ UNCHANGED <<ep_out, tx_buffer>> /\ ep_in' = TransferComplete(ep_in)
        /\ usbcmd'.tx = "ERROR" /\ usbcmd'.status = usbcmd.status
        /\ usbcmd'.u_bytes = usbcmd.u_bytes /\ usbcmd'.reset_flag = usbcmd.reset_flag
        /\ AheadInv' /\ (AwaitsCommand => AwaitsCommand')
      BY <2>1, SentLeaves, Zenon DEF Settled
  <2>4. \E k, len : Busy(ep_in, k, len)
      BY <2>2, Zenon DEF Sends, Uploading, Finishing, Answering, InBusy, InIdle
  <2>5. Idle(ep_in')
      BY <2>3, <2>4, BusyEndpoint, Zenon
  <2>6. host'.phase = "recover"
      BY <2>1, GivesUpTyped, Zenon
  <2>7. CASE Uploading
    <3>1. PICK j \in 1 .. host.cmd.n : usbcmd.u_bytes = j * BLOCK_MAX * UNIT
      BY <2>7, Zenon DEF Uploading
    <3>2. host.cmd.n \in Nat
      BY Zenon DEF HostOK, HostType, CmdType
    <3>3. usbcmd.u_bytes # 0
      BY <3>1, <3>2, Multiples DEF UNIT
    <3>4. Idle(ep_out') /\ usbcmd'.status = "TXDATA_PREPARE"
      BY <2>3, <2>7, Zenon DEF Uploading
    <3> QED
      BY <2>1, <2>3, <2>5, <2>6, <3>3, <3>4 DEF Settled, Situation, Failed, Idle
  <2>8. CASE Finishing
    <3>1. Idle(ep_out') /\ usbcmd'.status = "CSW"
      BY <2>3, <2>8, Zenon DEF Finishing
    <3> QED
      BY <2>1, <2>3, <2>5, <2>6, <3>1, Zenon DEF Settled, Situation, Failed, Idle
  <2>9. CASE Answering
    <3>1. AwaitsCommand'
      BY <2>3, <2>9, Zenon DEF Answering
    <3> QED
      BY <2>1, <2>3, <2>5, <2>6, <3>1, Zenon DEF Settled, Situation, Failed, Idle
  <2> QED
      BY <2>2, <2>7, <2>8, <2>9, Zenon DEF Sends
(* An IN transfer completes.                                               *)
<1>ReceivedSettled.
      ASSUME DeviceOK, HostOK, Settled, RecvIn, UNCHANGED session
      PROVE  Settled'
  <2> USE <1>ReceivedSettled
  <2> DEFINE n == host.cmd.n
             k == 1 - usbcmd.txbuf_num
  <2>1. /\ pc \in {"run", "delay"} /\ pc' = pc /\ Started(ep_in)
        /\ Becomes(dwc3_tx_handler([Dev EXCEPT !.in = TransferComplete(@)], TRUE))
      BY Zenon DEF RecvIn
  <2>2. Sends
      BY <2>1, SendsWhenStarted, Zenon
  <2>3. /\ UNCHANGED <<ep_out, tx_buffer>> /\ ep_in' = TransferComplete(ep_in)
        /\ usbcmd'.tx = "OK" /\ usbcmd'.rx = usbcmd.rx
        /\ usbcmd'.status = usbcmd.status /\ usbcmd'.cbw = usbcmd.cbw
        /\ usbcmd'.txbuf_num = usbcmd.txbuf_num
        /\ usbcmd'.reset_flag = usbcmd.reset_flag /\ usbcmd'.lba = usbcmd.lba
        /\ usbcmd'.u_size = usbcmd.u_size /\ usbcmd'.u_bytes = usbcmd.u_bytes
        /\ SameAhead(usbcmd, usbcmd') /\ AheadInv' /\ (AwaitsCommand => AwaitsCommand')
      BY <2>1, SentLeaves, Zenon DEF Settled
  <2>4. usbcmd'.reset_flag \notin Reboots \cup {16} /\ n \in Nat
      BY <2>3, Zenon DEF Settled, HostOK, HostType, CmdType
  <2>5. ASSUME NEW len, Busy(ep_in, k, len)
        PROVE  InIdle'
    <3>1. Idle(ep_in')
      BY <2>3, <2>5, BusyEndpoint, Zenon
    <3> QED
      BY <2>3, <3>1, Zenon DEF InIdle, Idle
  <2>6. CASE Uploading /\ InBusy("data", BLOCK_MAX * UNIT)
    <3>1. Busy(ep_in, k, BLOCK_MAX * UNIT) /\ tx_buffer[k].kind = "data" /\ usbcmd.tx = "IN_PROGRESS"
      BY <2>6, Zenon DEF InBusy
    <3>2. /\ usbcmd.status = "TXDATA_PREPARE" /\ Serving(Reads) /\ Idle(ep_out)
          /\ host.phase = "in" /\ usbcmd.u_size = n * UNIT
          /\ usbcmd.pre_lba = usbcmd.lba /\ usbcmd.pre_blocks = BLOCK_MAX
          /\ tx_buffer[usbcmd.txbuf_num].kind = "data"
      BY <2>6, Zenon DEF Uploading
    <3>3. PICK j \in 1 .. n : /\ j * BLOCK_MAX < n /\ usbcmd.u_bytes = j * BLOCK_MAX * UNIT
                              /\ usbcmd.lba = host.cmd.lba + j * BLOCK_MAX
                              /\ Len(host.got) + BLOCK_MAX = j * BLOCK_MAX
      BY <2>6, <3>1, Zenon DEF Uploading, InIdle
    <3>4. /\ host'.cmd = host.cmd /\ Len(host'.got) = Len(host.got) + (BLOCK_MAX * UNIT) \div UNIT
          /\ host'.phase = IF Len(host'.got) >= n THEN "csw" ELSE "in"
      BY <3>1, <3>2, HostReceives
    <3>5. (BLOCK_MAX * UNIT) \div UNIT = BLOCK_MAX
      BY RockUsbAssumption DEF UNIT
    <3>6. Len(host'.got) = j * BLOCK_MAX /\ host'.phase = "in"
      <4>1. Len(host'.got) = j * BLOCK_MAX
        BY <3>3, <3>4, <3>5, Zenon
      <4>2. j * BLOCK_MAX \in Nat
        BY <2>4, Multiples
      <4>3. ~(Len(host'.got) >= n)
        BY <2>4, <3>3, <4>1, <4>2
      <4> QED
        BY <3>4, <4>1, <4>3, Zenon
    <3>7. InIdle'
      BY <2>5, <3>1, Zenon
    <3>8. Serving(Reads)' /\ Idle(ep_out)'
      BY <2>1, <2>3, <3>2, <3>4, Zenon DEF Serving, Idle
    <3>9. /\ usbcmd'.pre_lba = usbcmd'.lba /\ usbcmd'.pre_blocks = BLOCK_MAX
          /\ tx_buffer'[usbcmd'.txbuf_num].kind = "data" /\ usbcmd'.status = "TXDATA_PREPARE"
          /\ usbcmd'.u_size = host'.cmd.n * UNIT /\ host'.phase = "in"
      BY <2>3, <3>2, <3>4, <3>6, Zenon DEF SameAhead
    <3>10. \E i \in 1 .. host'.cmd.n :
             /\ i * BLOCK_MAX < host'.cmd.n /\ usbcmd'.u_bytes = i * BLOCK_MAX * UNIT
             /\ usbcmd'.lba = host'.cmd.lba + i * BLOCK_MAX /\ Len(host'.got) = i * BLOCK_MAX
      BY <2>3, <3>3, <3>4, <3>6, Zenon
    <3>11. Uploading'
      BY <3>7, <3>8, <3>9, <3>10, Zenon DEF Uploading
    <3> QED
      BY <2>3, <2>4, <3>11, Zenon DEF Settled, Situation
  <2>7. CASE Finishing /\ usbcmd.tx = "IN_PROGRESS"
    <3>1. /\ usbcmd.status = "CSW" /\ Serving(Reads \cup Small) /\ Idle(ep_out)
          /\ host.phase = "in"
          /\ \/ InBusy("small", 1)
             \/ \E b \in 1 .. BLOCK_MAX : InBusy("data", b * UNIT) /\ Len(host.got) + b = n
      BY <2>7, Zenon DEF Finishing, InIdle
    <3>2. host'.cmd = host.cmd /\ host'.phase = "csw" /\ \E len : Busy(ep_in, k, len)
      <4>1. CASE InBusy("small", 1)
        <5>1. Busy(ep_in, k, 1) /\ tx_buffer[k].kind = "small"
          BY <4>1, Zenon DEF InBusy
        <5> QED
          BY <3>1, <5>1, HostReceives, Zenon
      <4>2. ASSUME NEW b \in 1 .. BLOCK_MAX, InBusy("data", b * UNIT), Len(host.got) + b = n
            PROVE  host'.cmd = host.cmd /\ host'.phase = "csw" /\ \E len : Busy(ep_in, k, len)
        <5>1. Busy(ep_in, k, b * UNIT) /\ tx_buffer[k].kind = "data"
          BY <4>2, Zenon DEF InBusy
        <5>2. (b * UNIT) \div UNIT = b
          BY RockUsbAssumption DEF UNIT
        <5>3. /\ host'.cmd = host.cmd /\ Len(host'.got) = Len(host.got) + (b * UNIT) \div UNIT
              /\ host'.phase = IF Len(host'.got) >= n THEN "csw" ELSE "in"
          BY <3>1, <5>1, HostReceives, Zenon
        <5>4. Len(host'.got) >= n
          BY <2>4, <4>2, <5>2, <5>3
        <5> QED
          BY <5>1, <5>3, <5>4, Zenon
      <4> QED
        BY <3>1, <4>1, <4>2, Zenon
    <3>3. InIdle'
      BY <2>5, <3>2, Zenon
    <3>4. Serving(Reads \cup Small)' /\ Idle(ep_out)' /\ usbcmd'.status = "CSW"
      BY <2>1, <2>3, <3>1, <3>2, Zenon DEF Serving, Idle
    <3>5. Finishing'
      BY <3>2, <3>3, <3>4, Zenon DEF Finishing
    <3> QED
      BY <2>3, <2>4, <3>5, Zenon DEF Settled, Situation
  <2>8. CASE Answering
    <3>1. /\ Busy(ep_in, k, 1) /\ tx_buffer[k].kind = "csw" /\ tx_buffer[k].tag = host.cmd.tag
          /\ host.phase = "csw" /\ AwaitsCommand
      BY <2>8, Zenon DEF Answering, InBusy
    <3>2. host'.cmd = host.cmd /\ host'.phase = "idle" /\ host'.answer = tx_buffer[k]
      BY <3>1, HostReceives, Zenon
    <3>3. OwnAnswer'
      BY <3>1, <3>2, Zenon DEF OwnAnswer
    <3>4. InIdle' /\ AwaitsCommand'
      BY <2>3, <2>5, <3>1, Zenon
    <3>5. Ready'
      BY <2>1, <3>2, <3>3, <3>4, Zenon DEF Ready
    <3> QED
      BY <2>3, <2>4, <3>5, Zenon DEF Settled, Situation
  <2> QED
      BY <2>2, <2>6, <2>7, <2>8, Zenon DEF Sends
(* Control requests, bus events and the reset.                             *)
<1>AddressSettled.
      ASSUME DeviceOK, HostOK, Settled, SetAddress, UNCHANGED session
      PROVE  Settled'
  <2> USE <1>AddressSettled
  <2> DEFINE t == [Dev EXCEPT !.u.status = "IDLE"]
  <2>1. pc = "run" /\ pc' = "run" /\ host.phase = "attach" /\ Becomes(t)
        /\ host' = [host EXCEPT !.phase = "addressed"]
      BY Zenon DEF SetAddress
  <2>2. Detached
      BY <2>1, Zenon DEF Settled, Situation, Ready, Commanded, FirstPhase, Receiving, Uploading,
         Finishing, Answering, Failed, Hung, Writes, Reads, Small
  <2>3. OnlyU(Dev, t, [usbcmd EXCEPT !.status = "IDLE"])
      BY DevTyped, IdleEffect, Zenon
  <2> HIDE DEF t
  <2>4. /\ usbcmd' = [usbcmd EXCEPT !.status = "IDLE"] /\ UNCHANGED <<ep_in, ep_out>>
        /\ usbcmd \in UsbcmdType
      BY <2>1, <2>3, DevTyped, Zenon DEF OnlyU, Becomes, DeviceOK
  <2>5. /\ usbcmd'.status = "IDLE" /\ usbcmd'.rx = usbcmd.rx /\ SameAhead(usbcmd, usbcmd')
        /\ usbcmd'.reset_flag = usbcmd.reset_flag
      BY <2>4, Zenon DEF UsbcmdType, SameAhead
  <2>6. host'.phase = "addressed" /\ host'.cmd = host.cmd /\ host'.answer = host.answer
      BY <2>1, PhaseTyped, Zenon
  <2>7. Detached'
      BY <2>1, <2>2, <2>4, <2>5, <2>6, Zenon DEF Detached, OwnAnswer
  <2>8. AheadInv'
      BY <2>2, <2>5, <1>AheadKept, Zenon DEF Settled, Detached, KeepsAhead
  <2> QED
      BY <2>5, <2>7, <2>8, Zenon DEF Settled, Situation
(* SET_CONFIGURATION makes the gadget ready.                               *)
<1>ConfigurationSettled.
      ASSUME DeviceOK, HostOK, Settled, SetConfiguration, UNCHANGED session
      PROVE  Settled'
  <2> USE <1>ConfigurationSettled
  <2> DEFINE t == Configured(Dev)
  <2>1. pc = "run" /\ pc' = "run" /\ host.phase = "addressed" /\ Becomes(t)
        /\ host' = [host EXCEPT !.phase = "idle"]
      BY Zenon DEF SetConfiguration
  <2>2. Detached
      BY <2>1, Zenon DEF Settled, Situation, Ready, Commanded, FirstPhase, Receiving, Uploading,
         Finishing, Answering, Failed, Hung, Writes, Reads, Small
  <2>3. /\ t.u = [usbcmd EXCEPT !.configured = TRUE, !.txbuf_num = 0, !.tx = "OK",
                                !.rx = FreshRx, !.rxbuf_num = 1]
        /\ t.in = [ep_in EXCEPT !.enabled = TRUE]
        /\ t.out = dwc3_gadget_ep_queue([ep_out EXCEPT !.enabled = TRUE], [buf |-> 0, len |-> UNIT])
      BY DevTyped, ConfiguredEffect, Zenon
  <2> HIDE DEF t
  <2>4. Idle([ep_in EXCEPT !.enabled = TRUE]) /\ Idle([ep_out EXCEPT !.enabled = TRUE])
      BY <2>2, Zenon DEF Detached, Idle
  <2>5. Idle(ep_in') /\ Busy(ep_out', 0, UNIT)
      BY <2>1, <2>3, <2>4, QueueIdle DEF Becomes
  <2>6. usbcmd \in UsbcmdType
      BY Zenon DEF DeviceOK
  <2>7. /\ usbcmd'.tx = "OK" /\ usbcmd'.rx = FreshRx /\ usbcmd'.rxbuf_num = 1
        /\ usbcmd'.status = usbcmd.status /\ SameAhead(usbcmd, usbcmd')
        /\ usbcmd'.reset_flag = usbcmd.reset_flag
      BY <2>1, <2>3, <2>6, Zenon DEF Becomes, UsbcmdType, SameAhead
  <2>8. host'.phase = "idle" /\ host'.cmd = host.cmd /\ host'.answer = host.answer
      BY <2>1, PhaseTyped, Zenon
  <2>9. InIdle'
      BY <2>5, <2>7, Zenon DEF InIdle, Idle
  <2>10. AwaitsCommand'
    <3>1. Busy(ep_out', 1 - usbcmd'.rxbuf_num, UNIT)
      BY <2>5, <2>7
    <3>2. usbcmd'.status = "IDLE" /\ usbcmd'.rx.status = "READY" /\ usbcmd'.rx.actual = 0
      <4>1. FreshRx.status = "READY" /\ FreshRx.actual = 0
        BY Zenon DEF FreshRx
      <4> QED
        BY <2>2, <2>7, <4>1, Zenon DEF Detached
    <3> QED
      BY <3>1, <3>2, Zenon DEF AwaitsCommand, OutBusy, Busy
  <2>11. Ready'
      BY <2>1, <2>2, <2>8, <2>9, <2>10 DEF Ready, Detached, OwnAnswer
  <2>12. AheadInv'
      BY <2>2, <2>7, <1>AheadKept, Zenon DEF Settled, Detached, KeepsAhead
  <2> QED
      BY <2>7, <2>11, <2>12, Zenon DEF Settled, Situation
(* While the device is attached both endpoints can be cleared.             *)
<1>Clearable.
      ASSUME Situation, pc = "run", host.phase \notin {"attach", "addressed"}
      PROVE  Idle(Removed(ep_in)) /\ Idle(Removed(ep_out))
  <2> USE <1>Clearable
  <2>1. Idle(ep_in) \/ \E k, len : Busy(ep_in, k, len)
      BY Zenon DEF Situation, Detached, Ready, Commanded, Receiving, Uploading, Finishing, Answering,
         Failed, Hung, InIdle, InBusy
  <2>2. Idle(ep_out) \/ \E k, len : Busy(ep_out, k, len)
      BY Zenon DEF Situation, Detached, Ready, Commanded, Receiving, Uploading, Finishing, Answering,
         Failed, Hung, AwaitsCommand, OutBusy, OutDone
  <2> QED
      BY <2>1, <2>2, IdleEndpoint, BusyEndpoint, Zenon
(* Both endpoints are cleared.                                             *)
<1>ClearSettled.
      ASSUME DeviceOK, HostOK, Orderly, Settled, NEW f \in Clears, ClearFeature(f),
             UNCHANGED session
      PROVE  Settled'
  <2> USE <1>ClearSettled
  <2> DEFINE t == rockusb_clear_feature(Dev, "clear_both")
  <2>1. /\ pc = "run" /\ pc' = "run" /\ f \in Faults /\ host.phase \notin {"attach", "addressed"}
        /\ Becomes(rockusb_clear_feature(Dev, f))
        /\ host' = IF host.phase = "idle" THEN host ELSE GivesUp("idle")
      BY Zenon DEF ClearFeature
  <2>2. f = "clear_both"
      BY <2>1, Zenon DEF Orderly, Clears
  <2>3. Becomes(t)
      BY <2>1, <2>2, Zenon
  <2>4. /\ t.u = [usbcmd EXCEPT !.status = "IDLE", !.txbuf_num = 0, !.tx = "OK",
                                !.rx = FreshRx, !.rxbuf_num = 1]
        /\ t.in = Removed(ep_in)
        /\ t.out = dwc3_gadget_ep_queue(Removed(ep_out), [buf |-> 0, len |-> UNIT])
      BY DevTyped, ClearBothEffect, Zenon
  <2> HIDE DEF t
  <2>5. Idle(Removed(ep_in)) /\ Idle(Removed(ep_out))
      BY <2>1, <1>Clearable, Zenon DEF Settled
  <2>6. Idle(ep_in') /\ Busy(ep_out', 0, UNIT)
      BY <2>3, <2>4, <2>5, QueueIdle DEF Becomes
  <2>7. usbcmd \in UsbcmdType
      BY Zenon DEF DeviceOK
  <2>8. /\ usbcmd'.tx = "OK" /\ usbcmd'.rx = FreshRx /\ usbcmd'.rxbuf_num = 1
        /\ usbcmd'.status = "IDLE" /\ SameAhead(usbcmd, usbcmd')
        /\ usbcmd'.reset_flag = usbcmd.reset_flag
      BY <2>3, <2>4, <2>7, Zenon DEF Becomes, UsbcmdType, SameAhead
  <2>9. host'.phase = "idle" /\ OwnAnswer'
    <3>1. CASE host.phase = "idle"
      <4>1. Ready
        BY <3>1, <2>1, Zenon DEF Settled, Situation, Detached, Commanded, FirstPhase, Receiving,
           Uploading, Finishing, Answering, Failed, Hung, Writes, Reads, Small
      <4> QED
        BY <2>1, <3>1, <4>1, Zenon DEF Ready, OwnAnswer
    <3>2. CASE host.phase # "idle"
      BY <2>1, <3>2, GivesUpTyped DEF OwnAnswer, Csw
    <3> QED
      BY <3>1, <3>2, Zenon
  <2>10. InIdle'
      BY <2>6, <2>8, Zenon DEF InIdle, Idle
  <2>11. AwaitsCommand'
    <3>1. Busy(ep_out', 1 - usbcmd'.rxbuf_num, UNIT)
      BY <2>6, <2>8
    <3>2. usbcmd'.rx.status = "READY" /\ usbcmd'.rx.actual = 0
      BY <2>8 DEF FreshRx
    <3> QED
      BY <2>8, <3>1, <3>2, Zenon DEF AwaitsCommand, OutBusy, Busy
  <2>12. Ready'
      BY <2>1, <2>9, <2>10, <2>11, Zenon DEF Ready
  <2>13. AheadInv'
      BY <2>1, <2>2, <2>8, SessionStays, Zenon DEF Settled, AheadInv, SameAhead, AheadOf
  <2> QED
      BY <2>8, <2>12, <2>13, Zenon DEF Settled, Situation
(* The bus is reset.                                                       *)
<1>BusResetSettled.
      ASSUME DeviceOK, HostOK, Orderly, Settled, BusReset, UNCHANGED session
      PROVE  Settled'
  <2> USE <1>BusResetSettled
  <2> DEFINE t == [rockusb_disable(Dev) EXCEPT !.u.configured = FALSE]
  <2>1. /\ pc = "run" /\ pc' = "run" /\ Becomes(t)
        /\ "reset" \in Faults \/ ("reset_idle" \in Faults /\ host.phase = "idle")
        /\ host' = IF host.phase = "idle" THEN [host EXCEPT !.phase = "attach"] ELSE GivesUp("attach")
      BY Zenon DEF BusReset
  <2>2. host.phase = "idle"
      BY <2>1, Zenon DEF Orderly
  <2>3. Ready
      BY <2>1, <2>2, Zenon DEF Settled, Situation, Detached, Commanded, FirstPhase, Receiving,
         Uploading, Finishing, Answering, Failed, Hung, Writes, Reads, Small
  <2>0. Disabled(Dev, t)
      BY DevTyped, DisableEffect, Zenon
  <2> HIDE DEF t
  <2>4. PICK x \in {"IN_PROGRESS", "OK", "ERROR"}, y \in RxType :
           t.u = [usbcmd EXCEPT !.tx = x, !.rx = y, !.configured = FALSE]
           /\ y.actual = usbcmd.rx.actual
      BY <2>0, DevTyped, Zenon DEF Disabled
  <2>5. /\ t.in = [Removed(ep_in) EXCEPT !.enabled = FALSE]
        /\ t.out = [Removed(ep_out) EXCEPT !.enabled = FALSE]
      BY <2>0, DevTyped, Zenon DEF Disabled
  <2>6. Removed(ep_in) = Empty /\ Removed(ep_out) = Empty
      BY <2>1, <2>2, <1>Clearable, IdleIs, Zenon DEF Settled
  <2>7. ep_in' = NoEp /\ ep_out' = NoEp
    <3>1. ep_in' = [Empty EXCEPT !.enabled = FALSE] /\ ep_out' = [Empty EXCEPT !.enabled = FALSE]
      BY <2>1, <2>5, <2>6, Zenon DEF Becomes
    <3>2. ASSUME NEW ep, ep = [Empty EXCEPT !.enabled = FALSE] PROVE ep = NoEp
      BY <3>2, Zenon DEF Empty, NoEp
    <3> QED
      BY <3>1, <3>2, Zenon
  <2>8. usbcmd \in UsbcmdType
      BY Zenon DEF DeviceOK
  <2>9. /\ usbcmd'.rx.actual = usbcmd.rx.actual /\ usbcmd'.status = usbcmd.status
        /\ SameAhead(usbcmd, usbcmd') /\ usbcmd'.reset_flag = usbcmd.reset_flag
      BY <2>1, <2>4, <2>8, Zenon DEF Becomes, UsbcmdType, SameAhead
  <2>10. host'.phase = "attach" /\ host'.cmd = host.cmd /\ host'.answer = host.answer
      BY <2>1, <2>2, PhaseTyped, Zenon
  <2>11. Detached'
      BY <2>1, <2>3, <2>7, <2>9, <2>10 DEF Detached, Ready, OwnAnswer, AwaitsCommand, OutBusy
  <2>12. AheadInv'
      BY <2>3, <2>9, <1>AheadKept, Zenon DEF Settled, Ready, AwaitsCommand, KeepsAhead
  <2> QED
      BY <2>9, <2>11, <2>12, Zenon DEF Settled, Situation
(* The CPU resets.                                                         *)
<1>CpuResetSettled.
      ASSUME DeviceOK, HostOK, Settled, reset_cpu, UNCHANGED session
      PROVE  Settled'
  <2> USE <1>CpuResetSettled
  <2>1. /\ pc = "delay" /\ pc' = "run" /\ usbcmd' = ZeroUsbcmd /\ ep_in' = NoEp /\ ep_out' = NoEp
        /\ host' = IF host.phase = "idle" THEN [host EXCEPT !.phase = "attach"] ELSE GivesUp("attach")
      BY Zenon DEF reset_cpu
  <2>2. /\ usbcmd'.status = "IDLE" /\ usbcmd'.rx.actual = 0 /\ usbcmd'.pre_blocks = 0
        /\ usbcmd'.reset_flag = 0
      BY <2>1, Zenon DEF ZeroUsbcmd
  <2>3. host'.phase = "attach" /\ OwnAnswer'
    <3>1. CASE host.phase = "idle"
      <4>1. Ready
        BY <2>1, <3>1, Zenon DEF Settled, Situation, Detached, Commanded, FirstPhase, Receiving,
           Uploading, Finishing, Answering, Failed, Hung, Writes, Reads, Small, Serving
      <4>2. host'.phase = "attach" /\ host'.cmd = host.cmd /\ host'.answer = host.answer
        BY <2>1, <3>1, PhaseTyped, Zenon
      <4> QED
        BY <4>1, <4>2, Zenon DEF Ready, OwnAnswer
    <3>2. CASE host.phase # "idle"
      BY <2>1, <3>2, GivesUpTyped DEF OwnAnswer, Csw
    <3> QED
      BY <3>1, <3>2, Zenon
  <2>4. Detached'
      BY <2>1, <2>2, <2>3, Zenon DEF Detached
  <2>5. AheadInv'
      BY <2>2, Zenon DEF AheadInv
  <2> QED
      BY <2>2, <2>4, <2>5 DEF Settled, Situation, Reboots
(* Only SendCbw changes the host's command.                                *)
<1>CommandStays.
      ASSUME DeviceOK, HostOK, OfSession, UNCHANGED session,
             \/ Pass \/ reset_cpu \/ SendData \/ RecvIn \/ InError \/ SetAddress
             \/ SetConfiguration \/ (\E f \in Clears : ClearFeature(f)) \/ BusReset
      PROVE  OfSession' /\ host'.cmd = host.cmd
  <2> USE <1>CommandStays
  <2>1. host'.cmd = host.cmd
    <3>1. host \in HostType
      BY Zenon DEF HostOK
    <3>2. CASE Pass
      BY <3>2, Zenon DEF Pass
    <3>3. CASE SendData
      BY <3>1, <3>3, Zenon DEF SendData, HostType
    <3>4. CASE RecvIn
      BY <3>1, <3>4, Zenon DEF RecvIn, HostType
    <3>5. /\ GivesUp("recover").cmd = host.cmd /\ GivesUp("idle").cmd = host.cmd
          /\ GivesUp("attach").cmd = host.cmd
      BY GivesUpTyped, Zenon
    <3>6. \A ph : [host EXCEPT !.phase = ph].cmd = host.cmd
      BY <3>1, Zenon DEF HostType
    <3>7. CASE InError
      BY <3>5, <3>7, Zenon DEF InError
    <3>8. CASE reset_cpu \/ BusReset
      BY <3>5, <3>6, <3>8, Zenon DEF reset_cpu, BusReset
    <3>9. CASE SetAddress \/ SetConfiguration
      BY <3>6, <3>9, Zenon DEF SetAddress, SetConfiguration
    <3>10. CASE \E f \in Clears : ClearFeature(f)
      BY <3>5, <3>10, Zenon DEF ClearFeature
    <3> QED
      BY <3>2, <3>3, <3>4, <3>7, <3>8, <3>9, <3>10, Zenon
  <2>2. Cmds' = Cmds
      BY SessionStays, Zenon
  <2> QED
      BY <2>1, <2>2, Zenon DEF OfSession
(* The situations are about these variables.                               *)
<1>SituationStays.
      ASSUME Situation, UNCHANGED <<usbcmd, tx_buffer, ep_in, ep_out, rx_buffer, pc, host>>
      PROVE  Situation'
  <2> USE <1>SituationStays
  <2>1. /\ InIdle' = InIdle /\ AwaitsCommand' = AwaitsCommand /\ OwnAnswer' = OwnAnswer
      BY Zenon DEF InIdle, AwaitsCommand, OutBusy, OwnAnswer
  <2>2. \A ops : Serving(ops)' = Serving(ops)
      BY Zenon DEF Serving
  <2>3. \A k, len : InBusy(k, len)' = InBusy(k, len)
      BY Zenon DEF InBusy
  <2>4. \A len : OutBusy(len)' = OutBusy(len) /\ OutDone(len)' = OutDone(len)
      BY Zenon DEF OutBusy, OutDone
  <2>5. CASE Detached \/ Ready
      BY <2>1, <2>5, Zenon DEF Detached, Ready, Situation
  <2>6. CASE Commanded
      BY <2>1, <2>6, <2>4, Zenon DEF Commanded, Situation
  <2>7. CASE Receiving
      BY <2>1, <2>2, <2>4, <2>7, Zenon DEF Receiving, Situation
  <2>8. CASE Uploading
      BY <2>1, <2>2, <2>3, <2>8, Zenon DEF Uploading, Situation
  <2>9. CASE Finishing
      BY <2>1, <2>2, <2>3, <2>9, Zenon DEF Finishing, Situation
  <2>10. CASE Answering
      BY <2>1, <2>3, <2>10, Zenon DEF Answering, Situation
  <2>11. CASE Failed \/ Hung
      BY <2>1, <2>11, Zenon DEF Failed, Hung, Situation
  <2> QED
      BY <2>5, <2>6, <2>7, <2>8, <2>9, <2>10, <2>11 DEF Situation
(* LinkInv by its parts, in the next state.                                *)
<1>LinkPartsNext.
      ASSUME Orderly', DeviceOK', HostOK', OfSession', Settled'
      PROVE  LinkInv'
  <2> USE <1>LinkPartsNext
  <2> QED
      BY TypePartsNext, Zenon DEF LinkInv, Link, Settled, Situation
<1>1. Orderly /\ DeviceOK /\ HostOK /\ OfSession /\ Settled
    BY LinkParts, Zenon
<1>2. DeviceOK' /\ HostOK'
    BY <1>1, StepTyped, Zenon
<1>3. CASE UNCHANGED vars
  <2>1. /\ UNCHANGED <<usbcmd, tx_buffer, ep_in, ep_out, rx_buffer, pc, host>>
        /\ UNCHANGED session
    BY <1>3, Zenon DEF vars, devVars
  <2>2. Orderly' /\ OfSession' /\ AheadInv'
    BY <1>1, <2>1, SessionStays, Zenon DEF Settled, OfSession, AheadInv
  <2>3. Settled'
    BY <1>1, <2>1, <2>2, <1>SituationStays, Zenon DEF Settled
  <2> QED
    BY <1>2, <2>2, <2>3, <1>LinkPartsNext, Zenon
<1>4. CASE Next
  <2>1. UNCHANGED session /\ Orderly'
    BY <1>1, <1>4, SessionStays, Zenon DEF Next
  <2>2. OfSession' /\ Settled'
    <3>1. CASE Pass
      BY <1>1, <2>1, <3>1, <1>PassSettled, <1>CommandStays, Zenon
    <3>2. CASE reset_cpu
      BY <1>1, <2>1, <3>2, <1>CpuResetSettled, <1>CommandStays, Zenon
    <3>3. CASE \E c \in Cmds : SendCbw(c)
      BY <1>1, <2>1, <3>3, <1>CbwSettled, Zenon
    <3>4. CASE SendData
      BY <1>1, <2>1, <3>4, <1>DataSettled, <1>CommandStays, Zenon
    <3>5. CASE RecvIn
      BY <1>1, <2>1, <3>5, <1>ReceivedSettled, <1>CommandStays, Zenon
    <3>6. CASE InError
      BY <1>1, <2>1, <3>6, <1>ErrorSettled, <1>CommandStays, Zenon
    <3>7. CASE SetAddress
      BY <1>1, <2>1, <3>7, <1>AddressSettled, <1>CommandStays, Zenon
    <3>8. CASE SetConfiguration
      BY <1>1, <2>1, <3>8, <1>ConfigurationSettled, <1>CommandStays
    <3>9. CASE \E f \in Clears : ClearFeature(f)
      BY <1>1, <2>1, <3>9, <1>ClearSettled, <1>CommandStays
    <3>10. CASE BusReset
      BY <1>1, <2>1, <3>10, <1>BusResetSettled, <1>CommandStays, Zenon
    <3> QED
      BY <1>4, <3>1, <3>2, <3>3, <3>4, <3>5, <3>6, <3>7, <3>8, <3>9, <3>10 DEF Next, Step
  <2> QED
    BY <1>2, <2>1, <2>2, <1>LinkPartsNext, Zenon
<1> QED
    BY <1>3, <1>4, Zenon

(* With an orderly host the gadget, the controller and the host are always *)
(* in one of the situations of Link, whatever the commands.                *)
THEOREM LinkCorrect == Spec /\ Orderly => []LinkInv
<1>1. Init /\ Orderly => LinkInv
    BY InitTyped, LinkInit, LinkParts, Zenon
<1>2. LinkInv /\ [Next]_vars => LinkInv'
    BY LinkStep, Zenon
<1> QED
    BY <1>1, <1>2, PTL DEF Spec

(* A command block has not been executed when it arrives.                  *)
LEMMA CbwFresh ==
    ASSUME NEW c
    PROVE  Cbw(c).kind = "cbw" /\ ~Cbw(c).used
    BY Zenon DEF Cbw

(* The packet do_rockusb takes for a command is one, and has not been      *)
(* executed before.                                                        *)
THEOREM CommandsTakenOnce == Spec /\ Orderly => []NextPacketIsCommand
<1>1. LinkInv => NextPacketIsCommand
  <2> SUFFICES ASSUME LinkInv, pc = "run", HasCommand(usbcmd)
               PROVE  rx_buffer[usbcmd.rx.buf].kind = "cbw" /\ ~rx_buffer[usbcmd.rx.buf].used
    BY Zenon DEF NextPacketIsCommand
  <2>1. usbcmd.status = "IDLE" /\ usbcmd.rx.actual # 0
    BY DEF HasCommand
  <2>2. Situation
    BY LinkParts, Zenon DEF Settled
  <2>3. ~Detached /\ ~Ready /\ ~Answering
    BY <2>1, Zenon DEF Detached, Ready, Answering, AwaitsCommand, OutBusy
  <2>4. ~Receiving /\ ~Uploading /\ ~Finishing
    BY <2>1, Zenon DEF Receiving, Uploading, Finishing
  <2>5. ~Failed /\ ~Hung
    BY <2>1, Zenon DEF Failed, Hung, AwaitsCommand, OutBusy
  <2>6. Commanded
    BY <2>2, <2>3, <2>4, <2>5, Zenon DEF Situation
  <2> QED
    BY <2>6, CbwFresh, Zenon DEF Commanded
<1> QED
    BY <1>1, LinkCorrect, PTL

(* An endpoint that is not detached has at most one request, and none was  *)
(* queued while it was disabled.                                           *)
LEMMA EndpointsOrderly ==
    ASSUME LinkInv, NEW ep \in {ep_in, ep_out}
    PROVE  ep = NoEp \/ Idle(ep) \/ \E k, len : Busy(ep, k, len)
<1>1. Situation
    BY LinkParts, Zenon DEF Settled
<1>2. ep_in = NoEp \/ Idle(ep_in) \/ \E k, len : Busy(ep_in, k, len)
    BY <1>1, Zenon DEF Situation, Detached, Ready, Commanded, Receiving, Uploading, Finishing,
       Answering, Failed, Hung, InIdle, InBusy
<1>3. ep_out = NoEp \/ Idle(ep_out) \/ \E k, len : Busy(ep_out, k, len)
    BY <1>1, Zenon DEF Situation, Detached, Ready, Commanded, Receiving, Uploading, Finishing,
       Answering, Failed, Hung, AwaitsCommand, OutBusy, OutDone
<1> QED
    BY <1>2, <1>3

(* Such an endpoint has at most one request and none astray.               *)
LEMMA EndpointFacts ==
    ASSUME NEW ep, ep = NoEp \/ Idle(ep) \/ \E k, len : Busy(ep, k, len)
    PROVE  Len(ep.queue) <= 1 /\ ~ep.stray
<1>1. CASE ep = NoEp
    BY <1>1 DEF NoEp
<1>2. CASE Idle(ep)
  <2>1. ep = Empty
    BY <1>2, IdleIs, Zenon
  <2> QED
    BY <2>1 DEF Empty
<1>3. ASSUME NEW k, NEW len, Busy(ep, k, len)
      PROVE  Len(ep.queue) <= 1 /\ ~ep.stray
  <2> DEFINE r == [buf |-> k, len |-> len]
  <2>1. ep.queue = <<r>> /\ ep.stray = FALSE
    BY <1>3, Zenon DEF Busy
  <2> HIDE DEF r
  <2>2. Len(<<r>>) <= 1
    OBVIOUS
  <2> QED
    BY <2>1, <2>2, Zenon
<1> QED
    BY <1>1, <1>2, <1>3, Zenon

(* No request waits behind another one.                                    *)
THEOREM NoneStranded == Spec /\ Orderly => []NoRequestStranded
<1>1. LinkInv => NoRequestStranded
    BY EndpointsOrderly, EndpointFacts, Zenon DEF NoRequestStranded
<1> QED
    BY <1>1, LinkCorrect, PTL

(* No request is queued to a disabled endpoint.                            *)
THEOREM AllQueuedToEnabled == Spec /\ Orderly => []QueuedToEnabled
<1>1. LinkInv => QueuedToEnabled
    BY EndpointsOrderly, EndpointFacts DEF QueuedToEnabled
<1> QED
    BY <1>1, LinkCorrect, PTL

(* The host is answered for the command it sent.                           *)
THEOREM AnswersFit == Spec /\ Orderly => []AnswerFits
<1>1. LinkInv => AnswerFits
    BY LinkParts, Zenon DEF Settled, Situation, AnswerFits, Detached, Ready, Commanded, FirstPhase,
       Receiving, Uploading, Finishing, Answering, Failed, Hung, Writes, Reads, Small
<1> QED
    BY <1>1, LinkCorrect, PTL

=============================================================================
