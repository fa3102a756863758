------------------------------ MODULE RockUsb ------------------------------
(***************************************************************************)
(* The rockusb gadget of common/cmd_rockusb.c (the CONFIG_RK_DWC3_UDC      *)
(* build), the two bulk endpoints of drivers/usb/gadget/dwc3_rk_udc.c as   *)
(* it uses them, and a host that follows the bulk-only protocol: command   *)
(* block, data, status.                                                    *)
(*                                                                         *)
(* do_rockusb polls: dwc3_uboot_handle_interrupt delivers the completions  *)
(* and control requests that have happened, in order, then one pass of the *)
(* loop body runs.  Nothing is delivered inside a pass, so a pass is one   *)
(* action and a delivery is another.                                       *)
(*                                                                         *)
(* C functions are operators of the same name from a device state s to the *)
(* next one.  Sizes are in units: a block is UNIT units, a command block   *)
(* (31 bytes) and the short answers less than a block, one unit.           *)
(***************************************************************************)
EXTENDS Integers, Sequences

CONSTANTS
    Sessions,   \* what a host may send to which board, and what disturbs it
    BLOCK_MAX,  \* RKUSB_BUFFER_BLOCK_MAX, 0x80 in cmd_rockusb.h
    Capacity,   \* blocks of each address space
    PBA_PAGE,   \* pageSizeLimit of sdhciBoot.c, 32
    GoodKey     \* the payload SecureModeRSAKeyCheck accepts

(* in_error: an IN transfer ends in a bus error.  reset_idle: bus resets   *)
(* come only between commands.  clear_x: CLEAR_FEATURE with the wIndex     *)
(* that names that endpoint.                                               *)
Clears == {"clear_in", "clear_out", "clear_both", "clear_other"}

AllFaults == Clears \cup {"in_error", "reset", "reset_idle"}

Reads  == {"READ_10", "LBA_READ_10"}
Writes == {"WRITE_10", "LBA_WRITE_10"}
Small  == {"READ_FLASH_ID", "TEST_BAD_BLOCK", "READ_FLASH_INFO", "GET_CHIP_VER"}

Erases == {"ERASE_10", "ERASE_10_FORCE", "ERASE_DATA", "ERASE_SYS_DISK"}

(* UNKNOWN is any code that do_rockusb_cmd does not know.                  *)
Ops == Reads \cup Writes \cup Small \cup Erases \cup
       {"TEST_UNIT_READY", "LOW_FORMAT", "SET_RESET_FLAG", "RESET", "UNKNOWN", "NONE"}

(* A command block.  sp is the space its address reaches, v its payload.   *)
Spaces == {"LBA", "PBA", "SYS", "VENDOR", "UNLOCK"}

CmdType == [op : Ops, sp : Spaces, lba : Nat, n : Nat, v : Nat, mod : Nat, tag : 0 .. 1]

ASSUME RockUsbAssumption ==
    /\ BLOCK_MAX \in Nat \ {0} /\ PBA_PAGE \in Nat \ {0} /\ Capacity \in Nat
    /\ BLOCK_MAX % PBA_PAGE = 0 /\ GoodKey \in Nat
    /\ \A s \in Sessions : /\ s.cmds \subseteq CmdType
                           /\ s.faults \subseteq AllFaults /\ s.signed \in BOOLEAN

VARIABLES
    usbcmd,       \* struct cmd_rockusb_interface
    tx_buffer,    \* contents of tx_buffer[0..1]
    rx_buffer,    \* contents of rx_buffer[0..1]
    ep_in,        \* the bulk endpoints: requests queued, one started,
    ep_out,       \*   and whether the endpoint and its requests exist
    medium,       \* blocks by address space
    sec,          \* SecureBootLock, gDrmKeyInfo.secureBootLock
    loader,       \* the flag in the PMU register that survives reset
    FWLowFormatEn,
    pc,           \* do_rockusb runs, waits to reset, or is stuck in a handler
    host,         \* the host's side of the command in progress
    view,         \* what the host may expect to read, per block
    session       \* which of Sessions this is

devVars == <<usbcmd, tx_buffer, ep_in, ep_out, medium, sec, loader, FWLowFormatEn>>
vars == <<devVars, rx_buffer, pc, host, view, session>>

Cmds   == session.cmds     \* the command blocks the host sends
Faults == session.faults
Signed == session.signed   \* the loader carries a public key (RSK_KEY[0] = 0x400)

UNIT == 2

Min2(a, b) == IF a < b THEN a ELSE b

(* A block's content: <<v, i>> is block i of a payload v; payload 0 is     *)
(* what the medium held first.                                             *)
Zero == <<-1, 0>>
Junk == <<-2, 0>>

Payload(c) == [i \in 1 .. c.n |-> <<c.v, i>>]

NoCmd == [op |-> "NONE", sp |-> "LBA", lba |-> 0, n |-> 0, v |-> 0, mod |-> 0, tag |-> 0]

(* Buffer contents.                                                        *)
Data(blocks)  == [kind |-> "data", blocks |-> blocks]
SmallData     == [kind |-> "small"]
Csw(tag, st)  == [kind |-> "csw", tag |-> tag, status |-> st]
Cbw(c)        == [kind |-> "cbw", cmd |-> c, used |-> FALSE]

Dev == [u |-> usbcmd, tb |-> tx_buffer, in |-> ep_in, out |-> ep_out,
        med |-> medium, sec |-> sec, ld |-> loader, fmt |-> FWLowFormatEn]

Becomes(s) ==
    /\ usbcmd' = s.u /\ tx_buffer' = s.tb /\ ep_in' = s.in /\ ep_out' = s.out
    /\ medium' = s.med /\ sec' = s.sec /\ loader' = s.ld /\ FWLowFormatEn' = s.fmt

-----------------------------------------------------------------------------
(* The endpoints.  __dwc3_gadget_kick_transfer starts the oldest request   *)
(* unless one is under way; nothing starts the next one when a transfer    *)
(* completes, only the next queueing does.  With the endpoints disabled    *)
(* the requests are NULL.                                                  *)
NoEp == [queue |-> << >>, busy |-> FALSE, enabled |-> FALSE, stray |-> FALSE]

(* OUT requests are rounded up to whole packets, a packet being a block.   *)
RoundUp(len) == ((len + UNIT - 1) \div UNIT) * UNIT

dwc3_gadget_ep_queue(ep, r) ==
    IF ep.enabled THEN [ep EXCEPT !.queue = Append(@, r), !.busy = TRUE]
                  ELSE [ep EXCEPT !.stray = TRUE]

Started(ep) == ep.busy /\ ep.queue # << >>

TransferComplete(ep) == [ep EXCEPT !.queue = Tail(@), !.busy = FALSE]

(* dwc3_remove_requests: every request is given back with -ESHUTDOWN.      *)
Removed(ep) == [ep EXCEPT !.queue = << >>, !.busy = FALSE]

rkusb_write_bulk_ep(s, len, k) ==
    [s EXCEPT !.u.tx = "IN_PROGRESS",
              !.in = dwc3_gadget_ep_queue(@, [buf |-> k, len |-> len]),
              !.u.txbuf_num = (@ + 1) % 2]

ReadBulk(s, len, k, num, actual) ==
    [s EXCEPT !.u.rx = [status |-> "READY", actual |-> actual, buf |-> 0],
              !.out = dwc3_gadget_ep_queue(@, [buf |-> k, len |-> RoundUp(len)]),
              !.u.rxbuf_num = num]

(* Faulty variants of rkusb_read_bulk_ep: the buffer number does not wrap, *)
(* does not change, or the length of the last packet stays.                *)
ReadBulkNoWrap(s, len, k)     == ReadBulk(s, len, k, k + 1, 0)
ReadBulkSameBuffer(s, len, k) == ReadBulk(s, len, k, k, 0)
ReadBulkKeepsActual(s, len, k) == ReadBulk(s, len, k, (k + 1) % 2, s.u.rx.actual)

rkusb_read_bulk_ep(s, len, k) == ReadBulk(s, len, k, (k + 1) % 2, 0)

dwc3_rx_handler(s, ok, actual, k) ==
    [s EXCEPT !.u.rx = IF ok THEN [status |-> "OK", actual |-> actual, buf |-> k]
                             ELSE [@ EXCEPT !.status = "ERROR"]]

(* Faulty variant: the completion is lost.                                 *)
TxHandlerSilent(s, ok) == s

dwc3_tx_handler(s, ok) == [s EXCEPT !.u.tx = IF ok THEN "OK" ELSE "ERROR"]

(* usb_ep_disable on one endpoint: the pending requests come back through  *)
(* the handlers above with an error.                                       *)
DisableIn(s) ==
    LET t == IF s.in.queue = << >> THEN s ELSE dwc3_tx_handler(s, FALSE)
    IN  [t EXCEPT !.in = Removed(@)]

DisableOut(s) ==
    LET t == IF s.out.queue = << >> THEN s ELSE dwc3_rx_handler(s, FALSE, 0, 0)
    IN  [t EXCEPT !.out = Removed(@)]

-----------------------------------------------------------------------------
(* The storage calls, on eMMC (sdhciBoot.c, storage.c).  A transfer that   *)
(* leaves the medium fails as a whole; the caller logs it and goes on.     *)
At(sp) == CASE sp = "PBA" -> 0 .. Capacity + PBA_PAGE - 1
            [] sp = "UNLOCK" -> {0}
            [] OTHER -> 0 .. Capacity - 1

Put(f, lba, blocks) ==
    [a \in DOMAIN f |-> IF a \in lba .. lba + Len(blocks) - 1 THEN blocks[a - lba + 1] ELSE f[a]]

StorageReadLba(med, sp, lba, n) ==
    [i \in 1 .. n |-> IF lba + n <= Capacity THEN med[sp][lba + i - 1] ELSE Zero]

StorageWriteLba(med, sp, lba, blocks) ==
    IF lba + Len(blocks) > Capacity THEN med
    ELSE [med EXCEPT ![sp] = Put(@, lba, blocks)]

(* SdhciBootWritePBA and SdhciBootReadPBA move MIN(n, page) blocks at a    *)
(* time for every page begun, the last one included.  What lies past the   *)
(* received data is whatever the buffer held.  Past the boot area they     *)
(* return 0 and do nothing.                                                *)
PbaBlocks(n) == IF n <= PBA_PAGE THEN n
                ELSE ((n + PBA_PAGE - 1) \div PBA_PAGE) * PBA_PAGE

(* Faulty variant: only the first page is written.                         *)
WritePbaFirstPage(med, lba, blocks) ==
    [med EXCEPT !["PBA"] = Put(@, lba, SubSeq(blocks, 1, Min2(Len(blocks), PBA_PAGE)))]

StorageWritePba(med, lba, blocks) ==
    IF lba + Len(blocks) >= Capacity THEN med
    ELSE [med EXCEPT !["PBA"] = Put(@, lba,
            [i \in 1 .. PbaBlocks(Len(blocks)) |->
               IF i <= Len(blocks) THEN blocks[i] ELSE Junk])]

StorageReadPba(med, lba, n) ==
    [i \in 1 .. n |-> IF lba + n >= Capacity THEN Zero ELSE med["PBA"][lba + i - 1]]

(* A vendor system sector always carries the header "VEND", 504 in place   *)
(* of its first two words.                                                 *)
Tagged(b) == IF b[1] >= 100 THEN b ELSE <<b[1] + 100, b[2]>>

(* Faulty variant: the header is not written.                              *)
SysDataStoreRaw(med, lba, blocks) == StorageWriteLba(med, "SYS", lba, blocks)

StorageVendorSysDataStore(med, lba, blocks) ==
    StorageWriteLba(med, "SYS", lba, [i \in DOMAIN blocks |-> Tagged(blocks[i])])

StorageVendorSysDataLoad(med, lba, n) ==
    LET raw == StorageReadLba(med, "SYS", lba, n)
    IN  [i \in 1 .. n |-> IF lba + i - 1 < 2 THEN Tagged(raw[i]) ELSE raw[i]]

SecureBootUnlock(s, key) ==
    IF key = <<GoodKey, 1>>
    THEN [s EXCEPT !.med["UNLOCK"][0] = key, !.sec.lock = FALSE]
    ELSE [s EXCEPT !.med["UNLOCK"][0] = Junk]

(* The address decides what an LBA read or write reaches: vendor system    *)
(* data from 0xFFFFFF00 up, the unlock key at 0xFFFFF000, vendor items at  *)
(* 0xFFF0xxxx, the user area below.  sp is the outcome of that test.  A    *)
(* vendor item is one cell, named by the address; the host puts the same   *)
(* id into the payload.  Module VendorStorage has the store behind it.     *)
MediaRead(s, lba, n) ==
    LET sp == s.u.cbw.sp
    IN  IF s.u.cbw.op = "READ_10" THEN StorageReadPba(s.med, lba, n)
        ELSE CASE sp = "SYS"    -> StorageVendorSysDataLoad(s.med, lba, n)
               [] sp = "UNLOCK" -> [i \in 1 .. n |-> IF i = 1 THEN s.med[sp][0] ELSE Zero]
               [] OTHER         -> StorageReadLba(s.med, sp, lba, n)

(* Faulty variants: every buffer goes to the first block of the command;   *)
(* the lock is not looked at.                                              *)
MediaWriteInPlace(s, blocks) ==
    [s EXCEPT !.med = StorageWriteLba(@, s.u.cbw.sp, s.u.cbw.lba, blocks)]
MediaWriteUnlocked(s, blocks) ==
    [s EXCEPT !.med = StorageWriteLba(@, s.u.cbw.sp, s.u.lba, blocks)]

MediaWrite(s, blocks) ==
    LET n  == Len(blocks)
        sp == s.u.cbw.sp
        to(med) == [s EXCEPT !.med = med, !.u.lba = @ + n]
    IN  IF s.u.cbw.op = "WRITE_10"
        THEN LET t == IF s.sec.lock THEN s ELSE to(StorageWritePba(s.med, s.u.lba, blocks))
             IN  [t EXCEPT !.ld = "LOADER_ERR"]
        ELSE CASE sp = "SYS"    -> to(StorageVendorSysDataStore(s.med, s.u.lba, blocks))
               [] sp = "UNLOCK" -> SecureBootUnlock(s, blocks[1])
               [] sp = "VENDOR" -> to(StorageWriteLba(s.med, sp, s.u.lba, blocks))
               [] OTHER -> IF s.sec.lock THEN s
                           ELSE to(StorageWriteLba(s.med, sp, s.u.lba, blocks))

-----------------------------------------------------------------------------
(* The command handlers.                                                   *)
WithCsw(s, st) == [s EXCEPT !.u.csw = st, !.u.status = "CSW"]

(* FW_ReadID, FW_GetChipVer, FW_TestBadBlock and FW_GetFlashInfo fill the  *)
(* transmit buffer with a short answer.                                    *)
FW_ShortAnswer(s) ==
    [s EXCEPT !.tb[s.u.txbuf_num] = SmallData,
              !.u.csw = "GOOD", !.u.status = "TXDATA"]

(* CDB[1] selects what TEST UNIT READY is for: 0xFD low format, 0xFA lock  *)
(* the loader, 0xF9 capacity.  The first branch of the code is for a       *)
(* medium that is not valid, which it is once StorageInit has found it.    *)
FW_TestUnitReady(s) ==
    CASE s.u.cbw.mod = 253 -> WithCsw([s EXCEPT !.fmt = TRUE], "FAIL")
      [] s.u.cbw.mod = 250 -> WithCsw([s EXCEPT !.u.reset_flag = 16], "GOOD")
      [] s.u.cbw.mod = 249 -> WithCsw(s, "GOOD")
      [] OTHER -> WithCsw(s, IF s.sec.lock THEN "FAIL" ELSE "GOOD")

(* FW_Read10 and FW_LBARead10.                                             *)
FW_LBARead10(s) ==
    [s EXCEPT !.u.u_size = s.u.cbw.n * UNIT, !.u.u_bytes = 0,
              !.u.lba = s.u.cbw.lba, !.u.status = "TXDATA_PREPARE"]

(* Faulty variant: what was read ahead stays.                              *)
KeepPreRead(s) == s

ClearPreRead(s) == [s EXCEPT !.u.pre_lba = 0, !.u.pre_blocks = 0]

(* The blocks read ahead are dropped when the write touches them.          *)
DropPreRead(s, lba, n) ==
    IF lba + n < s.u.pre_lba \/ lba > s.u.pre_lba + s.u.pre_blocks THEN s
    ELSE ClearPreRead(s)

(* Faulty variants: the command block counts as data; the address of the   *)
(* command before stays.                                                   *)
LBAWriteKeepsActual(s) ==
    [s EXCEPT !.u.d_size = s.u.cbw.n * UNIT, !.u.d_bytes = 0, !.u.lba = s.u.cbw.lba,
              !.u.status = "RXDATA_PREPARE"]
LBAWriteKeepsLba(s) ==
    [s EXCEPT !.u.d_size = s.u.cbw.n * UNIT, !.u.d_bytes = 0, !.u.rx.actual = 0,
              !.u.status = "RXDATA_PREPARE"]

(* FW_Write10 and FW_LBAWrite10.                                           *)
FW_LBAWrite10(s) ==
    [DropPreRead(s, s.u.cbw.lba, s.u.cbw.n) EXCEPT
        !.u.d_size = s.u.cbw.n * UNIT, !.u.d_bytes = 0, !.u.lba = s.u.cbw.lba,
        !.u.rx.actual = 0, !.u.status = "RXDATA_PREPARE"]

(* FW_Erase10, FW_Erase10Force and FW_EraseData.  On eMMC Erase does       *)
(* nothing and erase_data is NULL, so they answer without touching the     *)
(* medium.                                                                 *)
FW_EraseData(s) == WithCsw(s, "GOOD")

FW_LowFormat(s) == WithCsw([s EXCEPT !.fmt = TRUE], "GOOD")

FW_SetResetFlag(s) == WithCsw([s EXCEPT !.u.reset_flag = 1], "GOOD")

FW_Reset(s) ==
    WithCsw([s EXCEPT !.u.reset_flag = IF s.u.cbw.mod # 0 THEN s.u.cbw.mod ELSE 255],
            "GOOD")

FW_HandleUnknownCmd(s) == WithCsw(s, "FAIL")

(* Whatever the receive buffer holds is taken for a command block.         *)
Fetched(s, rb) == IF rb[s.u.rx.buf].kind = "cbw" THEN rb[s.u.rx.buf].cmd ELSE NoCmd

Taken(s, c) == [s EXCEPT !.u.cbw = c, !.u.status = "CMD"]

Execute(s) ==
    LET op == s.u.cbw.op
    IN  CASE op = "TEST_UNIT_READY" -> FW_TestUnitReady(s)
          [] op \in Small -> FW_ShortAnswer(s)
          [] op \in Reads -> FW_LBARead10(s)
          [] op \in Writes -> FW_LBAWrite10(s)
          [] op \in Erases -> FW_EraseData(s)
          [] op = "LOW_FORMAT" -> FW_LowFormat(s)
          [] op = "SET_RESET_FLAG" -> FW_SetResetFlag(s)
          [] op = "RESET" -> FW_Reset(s)
          [] OTHER -> FW_HandleUnknownCmd(s)

do_rockusb_cmd(s, rb) == Execute(Taken(s, Fetched(s, rb)))

-----------------------------------------------------------------------------
SendCsw(s, tag) ==
    LET k == s.u.txbuf_num
        t == rkusb_write_bulk_ep([s EXCEPT !.tb[k] = Csw(tag, s.u.csw)], 1, k)
    IN  [rkusb_read_bulk_ep(t, 1, t.u.rxbuf_num) EXCEPT !.u.status = "IDLE"]

(* Faulty variants: the last upload is not waited for; the tag is not set. *)
SendCswAtOnce(s) == SendCsw(s, s.u.cbw.tag)
SendCswNoTag(s)  == IF s.u.tx # "OK" THEN s ELSE SendCsw(s, 0)

(* The data and status stages.                                             *)
rkusb_send_csw(s) == IF s.u.tx # "OK" THEN s ELSE SendCsw(s, s.u.cbw.tag)

Counted(s) == [s EXCEPT !.u.d_bytes = @ + s.u.rx.actual]

RxGoOn(s) ==
    LET left == (s.u.d_size - s.u.d_bytes) \div UNIT
    IN  IF s.u.d_bytes < s.u.d_size
        THEN [rkusb_read_bulk_ep(s, Min2(left, BLOCK_MAX) * UNIT, s.u.rxbuf_num)
                EXCEPT !.u.status = "RXDATA"]
        ELSE rkusb_send_csw([s EXCEPT !.u.csw = "GOOD"])

(* The next request is queued, or the status sent, before the blocks that  *)
(* have arrived are written to the medium.                                 *)
rkusb_handle_datarx(s, rb) ==
    LET buf == rb[s.u.rx.buf]
        t   == RxGoOn(Counted(s))
    IN  IF s.u.rx.actual \div UNIT > 0 /\ buf.kind = "data" THEN MediaWrite(t, buf.blocks) ELSE t

(* One pass from the label start: send the blocks read ahead if they are   *)
(* the next ones, then read ahead into the buffer that comes next.         *)
TxBlocks(s) == Min2((s.u.u_size - s.u.u_bytes) \div UNIT, BLOCK_MAX)

TxSize(s) ==
    LET left == s.u.u_size - s.u.u_bytes
    IN  IF left \div UNIT >= BLOCK_MAX THEN BLOCK_MAX * UNIT ELSE left

TxHit(s) == TxBlocks(s) > 0 /\ s.u.pre_blocks >= TxBlocks(s) /\ s.u.pre_lba = s.u.lba

TxSend(s, b, size) ==
    rkusb_write_bulk_ep([s EXCEPT !.u.u_bytes = @ + size, !.u.lba = @ + b,
                                  !.u.pre_blocks = @ - b], size, s.u.txbuf_num)

ReadAhead(s, b) ==
    LET k == s.u.txbuf_num
        t == [s EXCEPT !.u.pre_lba = s.u.lba, !.u.pre_blocks = b, !.u.pre_buffer = k]
    IN  IF b = 0 THEN t ELSE [t EXCEPT !.tb[k] = Data(MediaRead(s, s.u.lba, b))]

TxGoOn(s, b) ==
    IF s.u.u_size = s.u.u_bytes THEN ClearPreRead(s)
    ELSE IF s.u.u_bytes = 0 \/ b = BLOCK_MAX THEN ReadAhead(s, b) ELSE s

TxPass(s) ==
    TxGoOn(IF TxHit(s) THEN TxSend(s, TxBlocks(s), TxSize(s)) ELSE s, TxBlocks(s))

(* A second pass follows a first that sent nothing.  When the request is   *)
(* for no blocks the passes never end.                                     *)
rkusb_handle_datatx(s) ==
    LET p == TxPass(s)
        q == IF p.u.u_bytes = 0 THEN TxPass(p) ELSE p
    IN  IF q.u.u_bytes = 0 THEN [q EXCEPT !.u.status = "HUNG"]
        ELSE IF q.u.u_size = q.u.u_bytes THEN WithCsw(q, "GOOD")
        ELSE q

SendShortAnswer(s) ==
    WithCsw(rkusb_write_bulk_ep(s, 1, s.u.txbuf_num), "GOOD")

rkusb_handle_response(s, rb) ==
    CASE s.u.status = "TXDATA" -> SendShortAnswer(s)
      [] s.u.status \in {"RXDATA", "RXDATA_PREPARE"} -> rkusb_handle_datarx(s, rb)
      [] s.u.status = "TXDATA_PREPARE" -> rkusb_handle_datatx(s)

(* Whether rkusb_handle_response does anything in this pass.               *)
Responds(u) ==
    \/ u.status \in {"TXDATA", "RXDATA_PREPARE"}
    \/ u.status = "RXDATA" /\ u.rx.status = "OK"
    \/ u.status = "TXDATA_PREPARE" /\ (u.u_bytes = 0 \/ u.tx = "OK")

(* RESET 3 is to the mask ROM, 1 to the system whatever the loader, 0xFF   *)
(* plain; 0x10 locks the loader.  Any other code changes nothing.          *)
Reboots == {1, 3, 255}

rkusb_reset_check(s) ==
    LET done == [s EXCEPT !.u.reset_flag = 0]
    IN  CASE s.u.reset_flag = 3   -> [done EXCEPT !.ld = "MASKROM"]
          [] s.u.reset_flag = 16  -> [done EXCEPT !.sec.drmLock = @ \/ Signed]
          [] s.u.reset_flag = 255 -> done
          [] s.u.reset_flag = 1   -> [done EXCEPT !.ld = "NORECOVER"]
          [] OTHER -> s

(* LowFormat is NULL on eMMC.                                              *)
rkusb_lowformat_check(s) == [s EXCEPT !.fmt = FALSE]

-----------------------------------------------------------------------------
(* The loop.                                                               *)
HasCommand(u) == u.status = "IDLE" /\ u.rx.actual > 0

HasWork(s) == HasCommand(s.u) \/ Responds(s.u) \/ (s.u.status = "CSW" /\ s.u.tx = "OK")

(* The body of the loop up to rkusb_reset_check.                           *)
Serve(s, rb) ==
    LET s1 == IF HasCommand(s.u) THEN do_rockusb_cmd(s, rb) ELSE s
        s2 == IF Responds(s1.u) THEN rkusb_handle_response(s1, rb) ELSE s1
    IN  IF s2.u.status = "CSW" THEN rkusb_send_csw(s2) ELSE s2

(* used: the command block has been executed.                              *)
MarkUsed(rb, k) == IF rb[k].kind = "cbw" THEN [rb EXCEPT ![k].used = TRUE] ELSE rb

(* One pass of the loop.  A pass with nothing to do changes nothing.  The  *)
(* check of the timeout that ends a pass is in BootMode.                   *)
Pass ==
    /\ pc = "run" /\ HasWork(Dev)
    /\ LET s == Serve(Dev, rx_buffer)
       IN  IF s.u.status = "HUNG" THEN Becomes(s) /\ pc' = "hung"
           ELSE /\ Becomes(rkusb_lowformat_check(rkusb_reset_check(s)))
                /\ pc' = IF s.u.reset_flag \in Reboots THEN "delay" ELSE "run"
    /\ rx_buffer' = IF HasCommand(usbcmd) THEN MarkUsed(rx_buffer, usbcmd.rx.buf) ELSE rx_buffer
    /\ UNCHANGED <<host, view>>

(* The state of the gadget when do_rockusb starts.                         *)
ZeroUsbcmd ==
    [status |-> "IDLE", configured |-> FALSE, rxbuf_num |-> 0, txbuf_num |-> 0,
     d_size |-> 0, d_bytes |-> 0, u_size |-> 0, u_bytes |-> 0, lba |-> 0,
     cbw |-> NoCmd, csw |-> "GOOD", reset_flag |-> 0, pre_lba |-> 0, pre_blocks |-> 0,
     pre_buffer |-> 0, rx |-> [status |-> "READY", actual |-> 0, buf |-> 0],
     tx |-> "IN_PROGRESS"]

Buffers == [k \in 0 .. 1 |-> Data(<< >>)]

NoHost == [phase |-> "attach", cmd |-> NoCmd, sent |-> 0, got |-> << >>,
           answer |-> Csw(0, "GOOD"), tag |-> 0]

Init ==
    /\ session \in Sessions
    /\ usbcmd = ZeroUsbcmd /\ tx_buffer = Buffers /\ rx_buffer = Buffers
    /\ ep_in = NoEp /\ ep_out = NoEp
    /\ medium = [sp \in Spaces |-> [a \in At(sp) |->
                  CASE sp = "UNLOCK" -> Zero [] sp = "SYS" -> Tagged(<<0, a>>) [] OTHER -> <<0, a>>]]
    /\ sec \in {[lock |-> l, drmLock |-> l] : l \in IF Signed THEN BOOLEAN ELSE {FALSE}}
    /\ loader = "NONE" /\ FWLowFormatEn = FALSE
    /\ pc = "run" /\ host = NoHost
    /\ view = [sp \in Spaces |-> [a \in At(sp) |-> {medium[sp][a]}]]

(* The host gives the command up.                                          *)
GivesUp(phase) == [host EXCEPT !.phase = phase, !.answer = Csw(host.cmd.tag, "NONE")]

(* mdelay ends, the CPU resets, the loader is started again and runs       *)
(* do_rockusb.  The unlocked state was in RAM.                             *)
reset_cpu ==
    /\ pc = "delay" /\ pc' = "run"
    /\ usbcmd' = ZeroUsbcmd /\ tx_buffer' = Buffers /\ rx_buffer' = Buffers
    /\ ep_in' = NoEp /\ ep_out' = NoEp
    /\ medium' = [medium EXCEPT !["UNLOCK"][0] = Zero]
    /\ view' = [view EXCEPT !["UNLOCK"][0] = {Zero}]
    /\ sec' = [sec EXCEPT !.lock = sec.drmLock]
    /\ FWLowFormatEn' = FALSE
    /\ host' = IF host.phase = "idle" THEN [host EXCEPT !.phase = "attach"] ELSE GivesUp("attach")
    /\ UNCHANGED loader

-----------------------------------------------------------------------------
(* The host and the controller.                                            *)
Permitted(c) == ~sec.lock \/ (c.op = "LBA_WRITE_10" /\ c.sp # "LBA")

Target(c) == IF c.op \in {"READ_10", "WRITE_10"} THEN "PBA" ELSE c.sp

Stored(c, i) ==
    LET b == <<c.v, i>>
    IN  CASE c.sp = "SYS" /\ c.op = "LBA_WRITE_10" -> Tagged(b)
          [] c.sp = "UNLOCK" /\ c.v # GoodKey -> Junk
          [] OTHER -> b

(* The blocks a write may touch: whole pages of the boot area.             *)
Touched(c) ==
    IF c.op \notin Writes THEN {}
    ELSE c.lba .. c.lba + (IF c.op = "WRITE_10" THEN PbaBlocks(c.n) ELSE c.n) - 1

(* What block a then holds.                                                *)
Shown(c, a) == IF a < c.lba + c.n THEN Stored(c, a - c.lba + 1) ELSE Junk

(* A write that has been announced may or may not show; once it has been   *)
(* answered its blocks must.                                               *)
Announced(c) ==
    IF ~Permitted(c) THEN view
    ELSE [view EXCEPT ![Target(c)] = [a \in DOMAIN @ |->
            IF a \notin Touched(c) THEN @[a] ELSE @[a] \cup {Shown(c, a)}]]

Answered(c) ==
    IF c.op \notin Writes \/ ~Permitted(c) THEN view
    ELSE [view EXCEPT ![Target(c)] = [a \in DOMAIN @ |->
            IF a \in c.lba .. c.lba + c.n - 1 THEN {Stored(c, a - c.lba + 1)} ELSE @[a]]]

(* An OUT packet train fills the buffer of the request at the head.        *)
Deliver(units, content) ==
    LET r == Head(ep_out.queue)
    IN  /\ Becomes(dwc3_rx_handler([Dev EXCEPT !.out = TransferComplete(@)], TRUE, units, r.buf))
        /\ rx_buffer' = [rx_buffer EXCEPT ![r.buf] = content]

SendCbw(c) ==
    /\ pc = "run" /\ host.phase = "idle" /\ Started(ep_out)
    /\ LET d == [c EXCEPT !.tag = 1 - host.tag]
       IN  /\ Deliver(1, Cbw(d))
           /\ host' = [NoHost EXCEPT !.cmd = d, !.tag = d.tag, !.phase =
                          CASE c.op \in Writes /\ c.n > 0 -> "out"
                            [] c.op \in Reads \cup Small -> "in"
                            [] OTHER -> "csw"]
    /\ view' = Announced(c)
    /\ UNCHANGED pc

SendData ==
    /\ pc = "run" /\ host.phase = "out" /\ Started(ep_out)
    /\ LET n    == Min2(Head(ep_out.queue).len \div UNIT, host.cmd.n - host.sent)
           sent == host.sent + n
       IN  /\ Deliver(n * UNIT, Data(SubSeq(Payload(host.cmd), host.sent + 1, sent)))
           /\ host' = [host EXCEPT !.sent = sent,
                                   !.phase = IF sent = host.cmd.n THEN "csw" ELSE "out"]
    /\ UNCHANGED <<pc, view>>

(* What goes over the wire when units of the buffer are sent.              *)
Wire(m, units) ==
    [i \in 1 .. units \div UNIT |->
        IF m.kind = "data" /\ i <= Len(m.blocks) THEN m.blocks[i] ELSE Junk]

(* During the delay before a reset the controller still sends, and the     *)
(* gadget no longer looks.                                                 *)
RecvIn ==
    /\ pc \in {"run", "delay"} /\ host.phase \in {"in", "csw"} /\ Started(ep_in)
    /\ LET r   == Head(ep_in.queue)
           m   == tx_buffer[r.buf]
           got == host.got \o Wire(m, r.len)
           last == m.kind = "small" \/ Len(got) >= host.cmd.n
       IN  /\ Becomes(dwc3_tx_handler([Dev EXCEPT !.in = TransferComplete(@)], TRUE))
           /\ IF host.phase = "in" /\ m.kind \in {"data", "small"}
              THEN /\ host' = [host EXCEPT !.got = got, !.phase = IF last THEN "csw" ELSE "in"]
                   /\ UNCHANGED view
              ELSE /\ host' = [host EXCEPT !.phase = "idle", !.answer = m]
                   /\ view' = IF m.kind = "csw" THEN Answered(host.cmd) ELSE view
    /\ UNCHANGED <<pc, rx_buffer>>

InError ==
    /\ pc = "run" /\ "in_error" \in Faults
    /\ host.phase \in {"in", "csw"} /\ Started(ep_in)
    /\ Becomes(dwc3_tx_handler([Dev EXCEPT !.in = TransferComplete(@)], FALSE))
    /\ host' = GivesUp("recover")
    /\ UNCHANGED <<pc, rx_buffer, view>>

-----------------------------------------------------------------------------
(* Control requests and bus events.                                        *)
SetAddress ==
    /\ pc = "run" /\ host.phase = "attach"
    /\ Becomes([Dev EXCEPT !.u.status = "IDLE"])
    /\ host' = [host EXCEPT !.phase = "addressed"]
    /\ UNCHANGED <<pc, rx_buffer, view>>

(* Faulty variant: the IN endpoint stays disabled.                         *)
ConfiguredOutOnly(s) ==
    rkusb_read_bulk_ep([s EXCEPT !.u.configured = TRUE, !.u.txbuf_num = 0, !.u.tx = "OK",
                                 !.out.enabled = TRUE], 1, 0)

Configured(s) ==
    rkusb_read_bulk_ep([s EXCEPT !.u.configured = TRUE, !.u.txbuf_num = 0, !.u.tx = "OK",
                                 !.in.enabled = TRUE, !.out.enabled = TRUE], 1, 0)

SetConfiguration ==
    /\ pc = "run" /\ host.phase = "addressed"
    /\ Becomes(Configured(Dev))
    /\ host' = [host EXCEPT !.phase = "idle"]
    /\ UNCHANGED <<pc, rx_buffer, view>>

(* Faulty variants: the endpoint keeps its request; no new one is queued.  *)
ClearInKeeps(s)    == [s EXCEPT !.u.txbuf_num = 0, !.u.tx = "OK"]
ClearOutKeeps(s)   == rkusb_read_bulk_ep(s, 1, 0)
ClearOutNoQueue(s) == DisableOut(s)

ClearIn(s) == [DisableIn(s) EXCEPT !.u.txbuf_num = 0, !.u.tx = "OK"]

ClearOut(s) == rkusb_read_bulk_ep(DisableOut(s), 1, 0)

(* rockusb_clear_feature, then event 4 of rkusb_event_handler_for_dwc3.    *)
rockusb_clear_feature(s, f) ==
    LET idle == [s EXCEPT !.u.status = "IDLE"]
    IN  CASE f = "clear_in"   -> ClearIn(idle)
          [] f = "clear_out"  -> ClearOut(idle)
          [] f = "clear_both" -> ClearOut(ClearIn(idle))
          [] OTHER            -> idle

ClearFeature(f) ==
    /\ pc = "run" /\ f \in Faults /\ host.phase \notin {"attach", "addressed"}
    /\ Becomes(rockusb_clear_feature(Dev, f))
    /\ host' = IF host.phase = "idle" THEN host ELSE GivesUp("idle")
    /\ UNCHANGED <<pc, rx_buffer, view>>

rockusb_disable(s) ==
    [DisableIn(DisableOut(s)) EXCEPT !.in.enabled = FALSE, !.out.enabled = FALSE]

BusReset ==
    /\ pc = "run" /\ host.phase \notin {"attach", "addressed"}
    /\ "reset" \in Faults \/ ("reset_idle" \in Faults /\ host.phase = "idle")
    /\ Becomes([rockusb_disable(Dev) EXCEPT !.u.configured = FALSE])
    /\ host' = IF host.phase = "idle" THEN [host EXCEPT !.phase = "attach"] ELSE GivesUp("attach")
    /\ UNCHANGED <<pc, rx_buffer, view>>

Step ==
    \/ Pass
    \/ reset_cpu
    \/ \E c \in Cmds : SendCbw(c)
    \/ SendData
    \/ RecvIn
    \/ InError
    \/ SetAddress
    \/ SetConfiguration
    \/ \E f \in Clears : ClearFeature(f)
    \/ BusReset

Next == Step /\ UNCHANGED session

Spec == Init /\ [][Next]_vars

(* WF_vars(Pass), with ENABLED <<Pass>>_vars written out.                  *)
WeaklyFairPass == []<>~(pc = "run" /\ HasWork(Dev)) \/ []<><<Pass /\ UNCHANGED session>>_vars

(* The loop never stops polling.  The host enumerates the device, moves    *)
(* the data of a command it has started, and recovers from an error; each  *)
(* in a phase of its own.                                                  *)
HostGoesOn ==
    \/ SetAddress \/ SetConfiguration \/ SendData \/ RecvIn
    \/ host.phase = "recover" /\ ClearFeature("clear_both")

Fairness ==
    /\ WeaklyFairPass
    /\ WF_vars((reset_cpu \/ HostGoesOn) /\ UNCHANGED session)

FairSpec == Spec /\ Fairness

-----------------------------------------------------------------------------
BlockType == Int \X Int

CswType == [kind : {"csw"}, tag : 0 .. 1, status : {"GOOD", "FAIL", "NONE"}]

ContentType ==
    [kind : {"data"}, blocks : Seq(BlockType)] \cup {SmallData} \cup CswType
      \cup [kind : {"cbw"}, cmd : CmdType, used : BOOLEAN]

RxType == [status : {"READY", "OK", "ERROR"}, actual : Nat, buf : 0 .. 1]

UsbcmdType ==
    [status : {"IDLE", "CMD", "RXDATA", "TXDATA", "CSW", "RXDATA_PREPARE",
               "TXDATA_PREPARE", "HUNG"},
     configured : BOOLEAN, rxbuf_num : 0 .. 1, txbuf_num : 0 .. 1,
     d_size : Nat, d_bytes : Nat, u_size : Nat, u_bytes : Nat, lba : Nat,
     cbw : CmdType, csw : {"GOOD", "FAIL"}, reset_flag : Nat, pre_lba : Nat,
     pre_blocks : Nat, pre_buffer : 0 .. 1,
     rx : RxType, tx : {"IN_PROGRESS", "OK", "ERROR"}]

ReqType == [buf : 0 .. 1, len : Nat]

EpType == [queue : Seq(ReqType), busy : BOOLEAN, enabled : BOOLEAN, stray : BOOLEAN]

HostType ==
    [phase : {"attach", "addressed", "idle", "out", "in", "csw", "recover"},
     cmd : CmdType, sent : Nat, got : Seq(BlockType), answer : ContentType, tag : 0 .. 1]

LoaderFlags == {"NONE", "LOADER_ERR", "MASKROM", "NORECOVER"}

(* f has a value for every block of every space.                           *)
OnBlocks(f) == f = [sp \in Spaces |-> [a \in At(sp) |-> f[sp][a]]]

(* Every variable keeps its type: the gadget's status, counters and buffer *)
(* numbers, the endpoints, the buffers, the medium and the host.           *)
TypeOK ==
    /\ usbcmd \in UsbcmdType /\ ep_in \in EpType /\ ep_out \in EpType
    /\ tx_buffer \in [0 .. 1 -> ContentType] /\ rx_buffer \in [0 .. 1 -> ContentType]
    /\ OnBlocks(medium) /\ \A sp \in Spaces : \A a \in At(sp) : medium[sp][a] \in BlockType
    /\ sec \in [lock : BOOLEAN, drmLock : BOOLEAN]
    /\ loader \in LoaderFlags /\ FWLowFormatEn = FALSE
    /\ pc \in {"run", "delay", "hung"} /\ session \in Sessions
    /\ host \in HostType /\ host.sent <= host.cmd.n /\ OnBlocks(view)

(* Read commands return what the medium was last told to hold: every block *)
(* rkusb_handle_datatx uploads is one the host wrote there, although it is *)
(* read ahead into alternating buffers.                                    *)
ReadCorrect ==
    \A i \in DOMAIN host.got :
        host.got[i] \in view[Target(host.cmd)][host.cmd.lba + i - 1]

(* The medium holds what the host may expect: data rkusb_handle_datarx     *)
(* writes lands where the command said, nothing else changes, and a write  *)
(* is there by the time the gadget serves the next command, although its   *)
(* status is queued first.                                                 *)
WrittenAsAnswered ==
    \A sp \in Spaces : \A a \in At(sp) : medium[sp][a] \in view[sp][a]

(* When do_rockusb takes the received packet for a command, it is one, and *)
(* has not been executed before.                                           *)
NextPacketIsCommand ==
    pc = "run" /\ HasCommand(usbcmd) =>
        LET m == rx_buffer[usbcmd.rx.buf] IN m.kind = "cbw" /\ ~m.used

(* At most one request waits on an endpoint: a second would not be started *)
(* when the first completes, since only queueing starts transfers.         *)
NoRequestStranded == Len(ep_in.queue) <= 1 /\ Len(ep_out.queue) <= 1

(* The gadget queues no request to a disabled endpoint.                    *)
QueuedToEnabled == ~ep_in.stray /\ ~ep_out.stray

(* The status the host receives is that of the command it sent.            *)
OwnAnswer == host.answer.kind = "csw" /\ host.answer.tag = host.cmd.tag

AnswerFits == host.phase = "idle" => OwnAnswer

(* The gadget and the controller never use a buffer together: none that is *)
(* queued for sending is refilled, and the one that is being written to    *)
(* the medium is not queued for receiving.                                 *)
Holds(q, k) == \E i \in DOMAIN q : q[i].buf = k

BuffersNotShared ==
    [][pc = "run" =>
        /\ \A k \in 0 .. 1 : tx_buffer'[k] # tx_buffer[k] => ~Holds(ep_in.queue, k)
        /\ medium' # medium => ~Holds(ep_out'.queue, usbcmd.rx.buf)]_vars

(* Every command the host starts comes to an end, with its status, a reset *)
(* it asked for, or the host's own abort.                                  *)
AnswersCommands == host.phase # "idle" ~> host.phase = "idle"

-----------------------------------------------------------------------------
(* The inductive invariant behind these: the situations that the gadget,   *)
(* the controller and the host can be in together.                         *)

Idle(ep) == ep = [NoEp EXCEPT !.enabled = TRUE]

Busy(ep, k, len) ==
    ep = [queue |-> <<[buf |-> k, len |-> len]>>, busy |-> TRUE, enabled |-> TRUE, stray |-> FALSE]

(* The transmit side rests, or sends the buffer last used, of that kind.   *)
InIdle == Idle(ep_in) /\ usbcmd.tx = "OK"

InBusy(kind, len) ==
    /\ Busy(ep_in, 1 - usbcmd.txbuf_num, len) /\ usbcmd.tx = "IN_PROGRESS"
    /\ tx_buffer[1 - usbcmd.txbuf_num].kind = kind

(* The receive side waits for len units, in the buffer last used.          *)
OutBusy(len) ==
    /\ Busy(ep_out, 1 - usbcmd.rxbuf_num, len)
    /\ usbcmd.rx.status = "READY" /\ usbcmd.rx.actual = 0

(* It has received some, and the next request will use the other buffer.   *)
OutDone(units) ==
    /\ Idle(ep_out) /\ usbcmd.rx.status = "OK" /\ usbcmd.rx.actual = units
    /\ usbcmd.rxbuf_num = 1 - usbcmd.rx.buf

AwaitsCommand == usbcmd.status = "IDLE" /\ OutBusy(UNIT)

Detached ==
    /\ pc = "run" /\ host.phase \in {"attach", "addressed"} /\ OwnAnswer
    /\ ep_in = NoEp /\ ep_out = NoEp
    /\ usbcmd.status = "IDLE" /\ usbcmd.rx.actual = 0

Ready ==
    /\ pc \in {"run", "delay"} /\ host.phase = "idle" /\ OwnAnswer
    /\ InIdle /\ AwaitsCommand

(* The phase of the host that has just sent c.                             *)
FirstPhase(c) ==
    CASE c.op \in Writes /\ c.n > 0 -> "out"
      [] c.op \in Reads \cup Small -> "in"
      [] OTHER -> "csw"

Commanded ==
    /\ pc = "run" /\ host.phase = FirstPhase(host.cmd) /\ host.sent = 0 /\ host.got = << >>
    /\ InIdle /\ usbcmd.status = "IDLE" /\ OutDone(1)
    /\ rx_buffer[usbcmd.rx.buf] = Cbw(host.cmd)

(* The command that is being served.                                       *)
Serving(ops) == pc = "run" /\ usbcmd.cbw = host.cmd /\ host.cmd.op \in ops

Receiving ==
    /\ usbcmd.status = "RXDATA" /\ Serving(Writes) /\ InIdle
    /\ usbcmd.d_size = host.cmd.n * UNIT /\ host.got = << >>
    /\ \E j \in 0 .. host.cmd.n :
         LET d == j * BLOCK_MAX
             m == Min2(host.cmd.n - d, BLOCK_MAX)
         IN  /\ d < host.cmd.n /\ usbcmd.d_bytes = d * UNIT
             /\ \/ host.phase = "out" /\ host.sent = d /\ OutBusy(m * UNIT)
                \/ /\ host.phase = IF d + m = host.cmd.n THEN "csw" ELSE "out"
                   /\ host.sent = d + m /\ OutDone(m * UNIT)
                   /\ rx_buffer[usbcmd.rx.buf] = Data(SubSeq(Payload(host.cmd), d + 1, d + m))

Uploading ==
    /\ usbcmd.status = "TXDATA_PREPARE" /\ Serving(Reads) /\ Idle(ep_out)
    /\ host.phase = "in" /\ usbcmd.u_size = host.cmd.n * UNIT
    /\ usbcmd.pre_lba = usbcmd.lba /\ usbcmd.pre_blocks = BLOCK_MAX
    /\ tx_buffer[usbcmd.txbuf_num].kind = "data"
    /\ \E j \in 1 .. host.cmd.n :
         LET u == j * BLOCK_MAX
         IN  /\ u < host.cmd.n /\ usbcmd.u_bytes = u * UNIT
             /\ usbcmd.lba = host.cmd.lba + u
             /\ \/ InIdle /\ Len(host.got) = u
                \/ InBusy("data", BLOCK_MAX * UNIT) /\ Len(host.got) + BLOCK_MAX = u

Finishing ==
    /\ usbcmd.status = "CSW" /\ Serving(Reads \cup Small) /\ Idle(ep_out)
    /\ \/ host.phase = "csw" /\ InIdle
       \/ host.phase = "in" /\ host.cmd.op \in Small /\ InBusy("small", 1) /\ host.got = << >>
       \/ /\ host.phase = "in" /\ host.cmd.op \in Reads
          /\ \E b \in 1 .. BLOCK_MAX :
                InBusy("data", b * UNIT) /\ Len(host.got) + b = host.cmd.n

Answering ==
    /\ pc \in {"run", "delay"} /\ host.phase = "csw" /\ AwaitsCommand
    /\ InBusy("csw", 1) /\ tx_buffer[1 - usbcmd.txbuf_num].tag = host.cmd.tag

(* After an error nothing is sent until the host clears the endpoints.     *)
Failed ==
    /\ pc = "run" /\ host.phase = "recover" /\ Idle(ep_in) /\ usbcmd.tx = "ERROR"
    /\ \/ AwaitsCommand
       \/ Idle(ep_out) /\ usbcmd.status = "CSW"
       \/ Idle(ep_out) /\ usbcmd.status = "TXDATA_PREPARE" /\ usbcmd.u_bytes # 0

Hung ==
    /\ pc = "hung" /\ host.phase = "in" /\ usbcmd.status = "HUNG"
    /\ Idle(ep_in) /\ Idle(ep_out)

(* The host's command is one of the session's.                             *)
OfSession == \E c \in Cmds \cup {NoCmd} : host.cmd = [c EXCEPT !.tag = host.cmd.tag]

Link ==
    /\ OfSession /\ usbcmd.reset_flag \notin Reboots \cup {16}
    /\ \/ Detached \/ Ready \/ Commanded \/ Receiving \/ Uploading \/ Finishing
       \/ Answering \/ Failed \/ Hung

(* What has been read ahead goes on where a read that was given up         *)
(* stopped; without endpoint clears there is none.                         *)
AheadOf(c) == {c.lba + j * BLOCK_MAX : j \in {i \in 1 .. c.n : i * BLOCK_MAX < c.n}}

ReadCmds == {c \in Cmds : c.op \in Reads}

AheadInv ==
    usbcmd.pre_blocks # 0 =>
        IF "clear_both" \in Faults
        THEN \E c \in ReadCmds : usbcmd.pre_lba \in AheadOf(c)
        ELSE usbcmd.status = "TXDATA_PREPARE"

(* A host that clears both endpoints or none, and resets the bus between   *)
(* commands; and if it clears them, its reads begin where no other goes on.*)
Orderly ==
    /\ Faults \subseteq {"in_error", "clear_both", "reset_idle"}
    /\ "clear_both" \in Faults => \A c, d \in ReadCmds : c.lba \notin AheadOf(d)

LinkInv == Orderly /\ TypeOK /\ Link /\ AheadInv

(* The blocks of a command are on the medium, and so is what is read ahead.*)
Limit(c) == IF Target(c) = "PBA" THEN Capacity - 1 ELSE Capacity

Fits(c) ==
    /\ c.sp # "PBA" /\ (Target(c) = "PBA" => c.sp = "LBA")
    /\ c.sp = "UNLOCK" => c.lba = 0 /\ c.n <= 1
    /\ c.op \in Writes => c.lba + c.n <= Limit(c)
    /\ c.op \in Reads => /\ c.lba + Min2(c.n, BLOCK_MAX) <= Limit(c)
                         /\ \A a \in AheadOf(c) : a + BLOCK_MAX <= Limit(c)

Fitting == \A c \in Cmds : c.op \in Reads \cup Writes => Fits(c)

(* Block i of the command is on the medium.                                *)
InPlace(c, i) == medium[Target(c)][c.lba + i - 1] = Stored(c, i)

(* While a write is on its way the host expects it, and what has been      *)
(* taken over is in place; all of it when the answer is sent.              *)
WriteInv ==
    host.cmd.op \in Writes /\ host.phase \in {"out", "csw"} /\ Permitted(host.cmd) =>
        /\ \A a \in At(Target(host.cmd)) \cap Touched(host.cmd) :
              Shown(host.cmd, a) \in view[Target(host.cmd)][a]
        /\ usbcmd.status = "RXDATA" =>
              LET d == usbcmd.d_bytes \div UNIT
              IN  /\ host.cmd.sp # "UNLOCK" => usbcmd.lba = host.cmd.lba + d
                  /\ \A i \in 1 .. d : InPlace(host.cmd, i)
        /\ AwaitsCommand => \A i \in 1 .. host.cmd.n : InPlace(host.cmd, i)

(* The first n blocks of a transmit buffer are what the host may expect of *)
(* the blocks from a on.                                                   *)
Fresh(k, a, n) ==
    LET b == tx_buffer[k].blocks
    IN  n <= Len(b) /\ \A i \in 1 .. n : b[i] \in view[Target(host.cmd)][a + i - 1]

(* While a read is on its way so are the buffer being sent and the one     *)
(* read ahead.                                                             *)
ReadInv ==
    /\ ReadCorrect /\ (pc = "delay" \/ host.cmd.op \notin Reads => host.got = << >>)
    /\ host.cmd.op \in Reads /\ host.phase = "in" =>
        /\ usbcmd.tx = "IN_PROGRESS" =>
              Fresh(1 - usbcmd.txbuf_num, host.cmd.lba + Len(host.got), Head(ep_in.queue).len \div UNIT)
        /\ usbcmd.status = "TXDATA_PREPARE" => Fresh(usbcmd.txbuf_num, usbcmd.lba, BLOCK_MAX)

DataInv ==
    /\ \A a \in At("SYS") : Tagged(medium["SYS"][a]) = medium["SYS"][a]
    /\ WrittenAsAnswered /\ WriteInv /\ ReadInv

RInv == LinkInv /\ Fitting /\ DataInv
=============================================================================
