------------------------------ MODULE Fastboot ------------------------------
(***************************************************************************)
(* The fastboot gadget of common/cmd_fastboot.c (the CONFIG_RK_DWC3_UDC    *)
(* build) around the download path of ImageDownload: its command handlers, *)
(* its two transfer buffers and the bulk endpoints, the device lock kept   *)
(* in the saved environment (common/env_rk.c), and a host that runs        *)
(* scripts of commands as the fastboot tool does.                          *)
(*                                                                         *)
(* do_fastboot polls: dwc3_uboot_handle_interrupt delivers the completions *)
(* that have happened, then fbt_handle_rx handles what was received.  The  *)
(* controller moves data between any two steps of either.                  *)
(***************************************************************************)
EXTENDS ImageDownload

CONSTANTS
    Scripts,     \* sequences of commands the host runs
    Verified,    \* partitions whose images are checked before they are stored
    CMD,         \* FASTBOOT_COMMAND_SIZE, 64
    EACH,        \* CONFIG_FASTBOOT_TRANSFER_BUFFER_SIZE_EACH
    TOTAL,       \* CONFIG_FASTBOOT_TRANSFER_BUFFER_SIZE
    PAGE,        \* CONFIG_FASTBOOT_MKBOOTIMAGE_PAGE_SIZE
    MaxScripts,  \* how many of them it runs in all
    Faults       \* the disturbances the run allows, of AllFaults

(* write: the medium refuses a write.  write_early: also one that fails    *)
(* with more than one piece still to come.  power: the power fails.        *)
(* reset: the bus is reset between downloads.                              *)
AllFaults == {"write", "write_early", "power", "reset"}

CommandType ==
    [op : {"type", "flash", "erase"}, ptn : STRING] \cup
    [op : {"download"}, img : Images] \cup
    [op : {"checksum", "unlock", "unlock_accept", "lock", "reboot", "boot",
           "continue", "other"}]

ASSUME FastbootAssumption ==
    /\ Scripts \subseteq Seq(CommandType)
    /\ CMD \in Nat \ {0} /\ EACH \in Nat /\ TOTAL \in Nat /\ PAGE \in Nat
    /\ MaxScripts \in Nat
    /\ Verified \subseteq Partitions /\ "" \notin Partitions
    /\ Faults \subseteq AllFaults

(* Bytes tell which image they are of, zeros and the user's data apart.  A *)
(* sparse file has another magic number than the images that are verified. *)
ASSUME NamesAssumption ==
    /\ \A a, b \in Images : a.id = b.id => a = b
    /\ "zero" \notin ImageIds /\ "user" \notin ImageIds
    /\ \A img \in Images : img.signed => ~img.sparse
    /\ NoPtn \notin STRING

VARIABLES
    pending_ptn_name,
    unlocked,
    unlock_pending,   \* unlock_pending_start_time # 0
    env,              \* the saved lock state: "0", "1", or a broken crc
    save,             \* what saveenv is writing, and for whom
    configured,
    mem,              \* rx_buffer, buffer[0] and buffer[1]
    inhand,           \* the buffer fbt_rx_process is working on
    rx,               \* rx_giveback
    rxq,              \* reads queued on the OUT endpoint
    tx,               \* tx_giveback, tx_buffer, and whether it is queued
    events,           \* completions not yet delivered
    pc,
    host,
    scripts           \* scripts started so far

lockVars == <<unlocked, unlock_pending, env, save>>
usbVars == <<configured, mem, inhand, rx, rxq, tx, events>>
vars == <<dlVars, pending_ptn_name, lockVars, usbVars, pc, host, scripts>>

---------------------------------------------------------------------------
NoRx == [actual |-> 0, buf |-> "none", off |-> 0]
Buffers == {"rx", "b0", "b1"}
NoData == [b \in Buffers |-> <<>>]
NoSave == [val |-> "none", by |-> "none"]
UserData == [s \in {0} |-> <<[op |-> "byte", img |-> "user", at |-> 0]>>]

OKAY == "OKAY"
FAIL == "FAIL"
DATA == "DATA"

commandRead == [len |-> CMD, buf |-> "rx", off |-> 0]
idleHost == [phase |-> "idle", script |-> <<>>, sent |-> 0]

Init ==
    /\ env \in {"0", "1"} /\ save = NoSave
    /\ disk = [p \in Partitions |->
                  IF p = "userdata" /\ env = "0" THEN UserData ELSE <<>>]
    /\ image = CHOOSE img \in Images : TRUE
    /\ DInit
    /\ pending_ptn_name = "" /\ unlocked = FALSE /\ unlock_pending = FALSE
    /\ configured = FALSE /\ mem = NoData /\ inhand = "none"
    /\ rx = NoRx /\ rxq = <<>> /\ events = <<>>
    /\ tx = [buffer |-> "none", queued |-> FALSE, status |-> "ok"]
    /\ pc = "off" /\ host = idleHost /\ scripts = 0

---------------------------------------------------------------------------
(* Completions.                                                            *)

(* fbt_event_handler_for_dwc3, fbt_dwc3_rx_handler, fbt_dwc3_tx_handler.   *)
(* A reset gives back what is queued with an error status.                 *)
deliver(u, e) ==
    CASE e.op = "rx" -> [u EXCEPT !.rx = [actual |-> e.actual, buf |-> e.buf, off |-> e.off]]
      [] e.op = "tx" -> [u EXCEPT !.tx.status = "ok"]
      [] e.op = "reset" ->
            [u EXCEPT !.configured = FALSE, !.rxq = <<>>,
                      !.tx = [u.tx EXCEPT !.queued = FALSE,
                                          !.status = IF @ = "ok" THEN "ok" ELSE "error"]]
      [] e.op = "configured" ->
            [u EXCEPT !.configured = TRUE, !.tx.status = "ok", !.rx = NoRx,
                      !.rxq = Append(@, commandRead)]

delivered ==
    LET after[n \in 0..Len(events)] ==
            IF n = 0 THEN [configured |-> configured, rx |-> rx, rxq |-> rxq, tx |-> tx]
            ELSE deliver(after[n - 1], events[n])
    IN  after[Len(events)]

(* dwc3_uboot_handle_interrupt; the loop then looks at what was received   *)
(* only when the device is configured.                                     *)
handleInterrupt ==
    LET u == delivered IN
    /\ pc = "loop" /\ (events # <<>> \/ (configured /\ rx.actual # 0))
    /\ configured' = u.configured /\ rx' = u.rx /\ rxq' = u.rxq /\ tx' = u.tx
    /\ events' = <<>>
    /\ pc' = IF u.configured /\ u.rx.actual # 0 THEN "rx" ELSE "loop"
    /\ UNCHANGED <<dlVars, pending_ptn_name, lockVars, mem, inhand, host>>

(* fbt_response_process: the text is always replaced, but only sent when   *)
(* the last one is out.                                                    *)
respond(r) ==
    tx' = IF tx.status = "ok" THEN [buffer |-> r, queued |-> TRUE, status |-> "busy"]
          ELSE [tx EXCEPT !.buffer = r]

(* What fbt_handle_rx does once fbt_rx_process has returned 1: clear the   *)
(* head of the buffer that was received, and read the next command.  The   *)
(* faulty variant, first, does not read.                                   *)
ClearOnly(m) ==
    /\ mem' = [m EXCEPT ![rx.buf] =
                 [i \in DOMAIN @ |-> IF i \in (rx.off + 1)..(rx.off + CMD)
                                     THEN Zero ELSE @[i]]]
    /\ rx' = NoRx
    /\ UNCHANGED rxq

clearAndListen(m) ==
    /\ mem' = [m EXCEPT ![rx.buf] =
                 [i \in DOMAIN @ |-> IF i \in (rx.off + 1)..(rx.off + CMD)
                                     THEN Zero ELSE @[i]]]
    /\ rx' = NoRx
    /\ rxq' = Append(rxq, commandRead)

---------------------------------------------------------------------------
(* Data.                                                                   *)

(* Faulty variant: the buffers are not swapped.                            *)
SameBuffer(b) == b

otherBuffer(b) == IF b = "b0" THEN "b1" ELSE "b0"

(* Faulty variant: rx_giveback is not cleared when the next read is queued. *)
ReceiveTwice ==
    LET n    == Min2(rx.actual, TRANS)
        rest == d_size - d_bytes - n
    IN
    /\ pc = "rx" /\ d_size # 0
    /\ Receive(SubSeq(mem[rx.buf], rx.off + 1, rx.off + n))
    /\ rxq' = IF rest > 0
              THEN Append(rxq,
                 [len |-> Min2(rest, TRANS),
                  buf |-> IF d_legacy THEN rx.buf ELSE otherBuffer(rx.buf),
                  off |-> IF d_legacy THEN rx.off + n ELSE 0])
              ELSE rxq
    /\ pc' = "data" /\ inhand' = rx.buf
    /\ UNCHANGED <<pending_ptn_name, lockVars, configured, mem, rx, tx, events, host>>

(* The data branch of fbt_rx_process up to the call of the board: the next *)
(* read is queued before this piece is handled.                            *)
receivePiece ==
    LET n    == Min2(rx.actual, TRANS)
        rest == d_size - d_bytes - n
    IN
    /\ pc = "rx" /\ d_size # 0
    /\ Receive(SubSeq(mem[rx.buf], rx.off + 1, rx.off + n))
    /\ IF rest > 0
       THEN /\ rxq' = Append(rxq,
                 [len |-> Min2(rest, TRANS),
                  buf |-> IF d_legacy THEN rx.buf ELSE otherBuffer(rx.buf),
                  off |-> IF d_legacy THEN rx.off + n ELSE 0])
            /\ rx' = NoRx
       ELSE UNCHANGED <<rx, rxq>>
    /\ pc' = "data" /\ inhand' = rx.buf
    /\ UNCHANGED <<pending_ptn_name, lockVars, configured, mem, tx, events, host>>

(* Writes fail only where the run allows it.                               *)
mayFail ==
    \/ "write_early" \in Faults
    \/ "write" \in Faults /\ d_size - d_bytes <= 2 * TRANS

storePiece ==
    /\ pc = "data"
    /\ \/ handleDirectDownload(TRUE)
       \/ mayFail /\ handleDirectDownload(FALSE)
       \/ handleSparseDownload
    /\ UNCHANGED <<pending_ptn_name, lockVars, usbVars, pc, host>>

finishPiece ==
    /\ pc = "data" /\ Finish
    /\ IF moreToCome THEN UNCHANGED <<mem, rx, rxq, tx>>
       ELSE respond(IF d_status < 0 THEN FAIL ELSE OKAY) /\ clearAndListen(mem)
    /\ pc' = "loop" /\ inhand' = "none"
    /\ UNCHANGED <<pending_ptn_name, lockVars, configured, events, host>>

---------------------------------------------------------------------------
(* Commands.  Each handler ends in a response and, unless it leaves        *)
(* fastboot, in reading the next command.                                  *)

cmd == mem[rx.buf][rx.off + 1]

handling(op) == pc = "rx" /\ d_size = 0 /\ cmd.op = op

answer(r) ==
    /\ respond(r) /\ clearAndListen(mem) /\ pc' = "loop"
    /\ UNCHANGED <<configured, inhand, events, host>>

(* getvar partition-type; getvar all asks it too, for no name.             *)
getvar_partition_type ==
    LET name == cmd.ptn IN
    /\ handling("type")
    /\ Command /\ UNCHANGED disk
    /\ pending_ptn_name' = name
    /\ pending_ptn' = IF name \in Partitions THEN name ELSE NoPtn
    /\ answer(IF name \in Partitions \cup {""} THEN OKAY ELSE FAIL)
    /\ UNCHANGED lockVars

(* getvar checksum reads the medium, here sectors of zeros, into buffer[0]. *)
getvar_checksum ==
    /\ handling("checksum")
    /\ respond(OKAY) /\ clearAndListen([mem EXCEPT !.b0 = [i \in DOMAIN @ |-> Zero]]) /\ pc' = "loop"
    /\ UNCHANGED <<dlVars, pending_ptn_name, lockVars, configured, inhand, events, host>>

(* Faulty variant: the lock is looked at by the flash command only.        *)
DownloadFits(img, legacy) ==
    /\ img.len <= EACH \/ pending_ptn # NoPtn
    /\ img.len < TOTAL \/ ~legacy
    /\ img.len # 0

downloadAllowed(img, legacy) ==
    /\ unlocked
    /\ img.len <= EACH \/ pending_ptn # NoPtn
    /\ img.len < TOTAL \/ ~legacy
    /\ img.len # 0

(* The names of the loader and the parameter file are legacy names too;    *)
(* LoaderUpdate and BootMode follow those two.                             *)
handle_download ==
    LET img    == cmd.img
        legacy == pending_ptn_name = "" \/ pending_ptn_name \in Verified
    IN
    /\ handling("download")
    /\ IF ~downloadAllowed(img, legacy)
       THEN DownloadRefused(legacy) /\ answer(FAIL)
       ELSE /\ Download(img, legacy)
            /\ respond(DATA)
            /\ rxq' = Append(rxq, [len |-> Min2(img.len, TRANS), buf |-> "b0", off |-> 0])
            /\ rx' = NoRx /\ pc' = "loop"
            /\ UNCHANGED <<configured, mem, inhand, events, host>>
    /\ UNCHANGED <<pending_ptn_name, lockVars>>

(* Faulty variant: only the header is looked at.                           *)
VerifiesHeader == image.signed

(* SecureModeVerifyBootImage, SecureModeVerifyUbootImage: the hash of what *)
(* is in the transfer buffer is the one its header names.                  *)
verifies == /\ image.signed
            /\ SubSeq(mem.b0, 1, d_bytes) = Slice(image, 0, image.len)

(* unsparse, on the image in the transfer buffer: the chunks before the    *)
(* first whose header is damaged or refused, as far as sector `end'.       *)
HeaderIntact(k) ==
    LET at == HeaderAt(image)[k] IN
    /\ SubSeq(mem.b0, at + 1, at + CHUNKHDR) = Slice(image, at, CHUNKHDR)
    /\ image.chunks[k].ok /\ image.chunks[k].type # "fill"

ChunksTaken == {k \in DOMAIN image.chunks : \A j \in 1..k : HeaderIntact(j)}

unsparse(content, end) ==
    LET chunkOf(s) == CHOOSE k \in ChunksTaken : s \in Extent(image, k)
        from(s) == HeaderAt(image)[chunkOf(s)] + CHUNKHDR
                     + (s - OutAt(image)[chunkOf(s)]) * BLK
        taken == {s \in UNION {Extent(image, k) : k \in ChunksTaken} : s < end}
    IN  [s \in DOMAIN content \cup taken |->
            IF s \in taken THEN SubSeq(mem.b0, from(s) + 1, from(s) + BLK)
            ELSE content[s]]

(* rkimg_store_image: a run of sectors at a time, up to the first failure. *)
store_image(p) ==
    LET sparse == image.sparse /\ mem.b0[1] = Byte(image, 1)
        blocks == IF sparse THEN OutAt(image)[Len(image.chunks) + 1]
                  ELSE DIV_ROUND_UP(d_bytes, BLK)
        whole  == sparse => ChunksTaken = DOMAIN image.chunks
    IN
    \E n \in 0..blocks :
        /\ n = blocks \/ "write" \in Faults
        /\ disk' = [disk EXCEPT ![p] = IF sparse THEN unsparse(@, n)
                                       ELSE Store(@, 0, n, SubSeq(mem.b0, 1, d_bytes))]
        /\ answer(IF n = blocks /\ whole THEN OKAY ELSE FAIL)

(* fbt_handle_flash and rkimage_store_image.  A streamed image is on the   *)
(* medium already; a legacy image is verified if the last type query named *)
(* a partition whose images are, and written now.  When it named none, the *)
(* code compares the names with what is at address 0, where none of them   *)
(* is.                                                                     *)
handle_flash ==
    LET p      == cmd.ptn
        refuse == \/ ~unlocked \/ d_bytes = 0
                  \/ ~d_legacy /\ (pending_ptn # p \/ d_status <= 0)
                  \/ d_legacy /\ pending_ptn \in Verified /\ ~verifies
                  \/ d_legacy /\ p \notin Partitions
    IN
    /\ handling("flash")
    /\ Command /\ pending_ptn' = NoPtn
    /\ IF refuse \/ ~d_legacy
       THEN UNCHANGED disk /\ answer(IF refuse THEN FAIL ELSE OKAY)
       ELSE store_image(p)
    /\ UNCHANGED <<pending_ptn_name, lockVars>>

(* rkimage_partition_erase succeeds and erases nothing: StorageEraseBlock  *)
(* ends in SdhciBootErase, which returns 0.                                *)
erase(p) == UNCHANGED disk

handle_erase ==
    /\ handling("erase")
    /\ Command /\ UNCHANGED pending_ptn
    /\ IF cmd.ptn \notin Partitions THEN UNCHANGED disk /\ answer(FAIL)
       ELSE erase(cmd.ptn) /\ answer(OKAY)
    /\ UNCHANGED <<pending_ptn_name, lockVars>>

(* fbt_set_unlocked, up to saveenv.                                        *)
set_unlocked(val, by) ==
    /\ unlocked' = (val = "1")
    /\ save' = [val |-> val, by |-> by]
    /\ pc' = "save"

oem_unlock ==
    /\ handling("unlock")
    /\ unlock_pending' = (unlock_pending \/ ~unlocked)
    /\ answer(IF unlocked THEN FAIL ELSE OKAY)
    /\ UNCHANGED <<dlVars, pending_ptn_name, unlocked, env, save>>

oem_unlock_accept ==
    /\ handling("unlock_accept")
    /\ IF ~unlock_pending
       THEN answer(FAIL) /\ UNCHANGED <<dlVars, lockVars>>
       ELSE /\ unlock_pending' = FALSE
            /\ Command /\ UNCHANGED pending_ptn
            /\ IF "userdata" \in Partitions THEN erase("userdata") ELSE UNCHANGED disk
            /\ set_unlocked("1", "accept")
            /\ UNCHANGED <<env, usbVars, host>>
    /\ UNCHANGED pending_ptn_name

oem_lock ==
    /\ handling("lock")
    /\ IF unlocked THEN set_unlocked("0", "lock") /\ UNCHANGED <<usbVars, host>>
       ELSE answer(FAIL) /\ UNCHANGED <<unlocked, save>>
    /\ UNCHANGED <<dlVars, pending_ptn_name, unlock_pending, env>>

(* What follows the save: the lock command answers, an accepted unlock     *)
(* answers and leaves for recovery to wipe, start-up enters the loop.      *)
saved ==
    /\ save' = NoSave
    /\ CASE save.by = "lock"   -> answer(OKAY)
         [] save.by = "accept" -> /\ respond(OKAY) /\ pc' = "leave"
                                  /\ UNCHANGED <<configured, mem, inhand, rx, rxq, events, host>>
         [] save.by = "init"   -> pc' = "loop" /\ UNCHANGED <<usbVars, host>>

(* saveenv: while its sectors are being replaced the crc does not match.   *)
(* Its result is ignored.                                                  *)
saveenv ==
    /\ \/ pc = "save" /\ env' = "bad" /\ pc' = "save2" /\ UNCHANGED <<save, usbVars, host>>
       \/ pc = "save2" /\ env' = save.val /\ saved
       \/ pc \in {"save", "save2"} /\ "write" \in Faults /\ UNCHANGED env /\ saved
    /\ UNCHANGED <<dlVars, pending_ptn_name, unlocked, unlock_pending>>

(* reboot, continue, and boot with an image in memory answer and leave.    *)
handle_leave ==
    LET goes == cmd.op # "boot" \/ (unlocked /\ d_bytes > PAGE) IN
    /\ \E op \in {"reboot", "boot", "continue"} : handling(op)
    /\ IF goes THEN /\ respond(OKAY) /\ pc' = "leave"
                    /\ UNCHANGED <<configured, mem, inhand, rx, rxq, events, host>>
       ELSE answer(FAIL)
    /\ UNCHANGED <<dlVars, pending_ptn_name, lockVars>>

(* Anything else, image data taken for a command included.                 *)
unknown ==
    /\ \E op \in {"byte", "other"} : handling(op)
    /\ answer(FAIL)
    /\ UNCHANGED <<dlVars, pending_ptn_name, lockVars>>

(* More than FASTBOOT_UNLOCK_TIMEOUT_SECS have passed.                     *)
unlockExpires ==
    /\ pc = "loop" /\ configured /\ unlock_pending
    /\ unlock_pending' = FALSE
    /\ UNCHANGED <<dlVars, pending_ptn_name, unlocked, env, save, usbVars, pc, host>>

---------------------------------------------------------------------------
(* Power, the rest of the boot, and the host.                              *)

turnOff ==
    /\ pc' = "off"
    /\ Restart
    /\ pending_ptn_name' = "" /\ unlocked' = FALSE /\ unlock_pending' = FALSE
    /\ save' = NoSave
    /\ configured' = FALSE /\ mem' = NoData /\ inhand' = "none"
    /\ rx' = NoRx /\ rxq' = <<>> /\ events' = <<>>
    /\ tx' = [buffer |-> "none", queued |-> FALSE, status |-> "ok"]
    /\ host' = idleHost
    /\ UNCHANGED env

(* An accepted unlock leaves for recovery, which formats userdata; BootMode *)
(* follows the request through misc.                                       *)
leave ==
    /\ pc = "leave" /\ turnOff
    /\ disk' = IF cmd.op = "unlock_accept" THEN [disk EXCEPT !["userdata"] = <<>>]
               ELSE disk

powerLoss == "power" \in Faults /\ pc # "off" /\ turnOff /\ UNCHANGED disk

(* env_relocate_spec and fbt_fastboot_init: a broken or missing setting    *)
(* locks the device.                                                       *)
powerOn ==
    /\ pc = "off"
    /\ IF env = "bad" THEN set_unlocked("0", "init")
       ELSE unlocked' = (env = "1") /\ pc' = "loop" /\ UNCHANGED save
    /\ UNCHANGED <<dlVars, pending_ptn_name, unlock_pending, env, usbVars, host>>

(* The kernel of a locked device has run and kept the user's data.         *)
runKernel ==
    /\ pc = "off" /\ env # "1"
    /\ Command /\ UNCHANGED pending_ptn
    /\ disk' = [disk EXCEPT !["userdata"] = UserData]
    /\ UNCHANGED <<pending_ptn_name, lockVars, usbVars, pc, host>>

attached == pc \notin {"off", "leave"}
hostMoves == UNCHANGED <<dlVars, pending_ptn_name, lockVars, pc>>

hostConfigure ==
    /\ attached /\ ~configured /\ events = <<>>
    /\ events' = <<[op |-> "configured"]>>
    /\ host' = idleHost
    /\ hostMoves /\ UNCHANGED <<configured, mem, inhand, rx, rxq, tx>>

hostReset ==
    /\ "reset" \in Faults /\ attached /\ configured
    /\ \/ host.phase = "idle"
       \/ host.phase = "resp" /\ Head(host.script).op # "download"
    /\ events' = Append(events, [op |-> "reset"])
    /\ host' = [idleHost EXCEPT !.phase = "reset"]
    /\ hostMoves /\ UNCHANGED <<configured, mem, inhand, rx, rxq, tx>>

hostStart ==
    /\ attached /\ configured /\ host = idleHost
    /\ scripts < MaxScripts /\ scripts' = scripts + 1
    /\ \E script \in Scripts : host' = [host EXCEPT !.script = script]
    /\ hostMoves /\ UNCHANGED usbVars

(* n units of content arrive in the buffer of the read that is queued.     *)
transfer(content) ==
    LET r == Head(rxq) IN
    /\ mem' = [mem EXCEPT ![r.buf] = SubSeq(@, 1, r.off) \o content]
    /\ rxq' = Tail(rxq)
    /\ events' = Append(events, [op |-> "rx", actual |-> Len(content),
                                 buf |-> r.buf, off |-> r.off])
    /\ hostMoves /\ UNCHANGED <<configured, inhand, rx, tx>>

hostCommand ==
    /\ attached /\ host.phase = "idle" /\ host.script # <<>> /\ rxq # <<>>
    /\ transfer(<<Head(host.script)>>)
    /\ host' = [host EXCEPT !.phase = "resp", !.sent = 0]

hostData ==
    LET img == Head(host.script).img
        n   == Min2(Head(rxq).len, img.len - host.sent)
    IN
    /\ attached /\ host.phase = "data" /\ rxq # <<>>
    /\ transfer(Slice(img, host.sent, n))
    /\ host' = [host EXCEPT !.sent = @ + n,
                            !.phase = IF host.sent + n = img.len THEN "resp" ELSE "data"]

(* The tool gives a script up when a command fails, a type query excepted. *)
hostAnswer ==
    /\ pc # "off" /\ host.phase = "resp" /\ tx.queued
    /\ tx' = [tx EXCEPT !.queued = FALSE]
    /\ events' = Append(events, [op |-> "tx"])
    /\ host' = IF tx.buffer = DATA THEN [host EXCEPT !.phase = "data"]
               ELSE IF tx.buffer = OKAY \/ Head(host.script).op = "type"
               THEN [idleHost EXCEPT !.script = Tail(host.script)]
               ELSE idleHost
    /\ hostMoves /\ UNCHANGED <<configured, mem, inhand, rx, rxq>>

---------------------------------------------------------------------------
fbt_rx_process ==
    \/ receivePiece \/ getvar_partition_type \/ getvar_checksum
    \/ handle_download \/ handle_flash \/ handle_erase \/ oem_unlock
    \/ oem_unlock_accept \/ oem_lock \/ handle_leave \/ unknown

device == \/ handleInterrupt \/ fbt_rx_process \/ storePiece \/ finishPiece
          \/ saveenv \/ leave

hostGoesOn == hostConfigure \/ hostCommand \/ hostData \/ hostAnswer

Next ==
    \/ hostStart
    \/ /\ UNCHANGED scripts
       /\ \/ device \/ hostGoesOn \/ hostReset
          \/ unlockExpires \/ powerLoss \/ powerOn \/ runKernel

Spec == Init /\ [][Next]_vars

(* The loop never sleeps, and the host tool and the bus do not stall.      *)
FairSpec == Spec /\ WF_vars(device /\ UNCHANGED scripts)
            /\ WF_vars(hostGoesOn /\ UNCHANGED scripts)

---------------------------------------------------------------------------
TypeOK ==
    /\ image \in Images /\ pending_ptn \in Partitions \cup {NoPtn}
    /\ d_size \in Nat /\ d_bytes \in Nat /\ d_legacy \in BOOLEAN
    /\ d_status \in {-1, 0, 1} /\ flag_sparse \in BOOLEAN
    /\ sparse_cur_chunk \in Nat /\ d_direct_size \in Nat /\ d_direct_offset \in Nat
    /\ length \in 0..TRANS /\ step \in {"idle", "direct", "chunk", "done"}
    /\ unlocked \in BOOLEAN /\ unlock_pending \in BOOLEAN /\ configured \in BOOLEAN
    /\ env \in {"0", "1", "bad"}
    /\ rx.actual \in 0..TRANS /\ rx.buf \in {"none", "rx", "b0", "b1"}
    /\ tx.buffer \in {"none", OKAY, FAIL, DATA} /\ tx.status \in {"ok", "busy", "error"}
    /\ pc \in {"off", "loop", "rx", "data", "save", "save2", "leave"}
    /\ host.phase \in {"idle", "resp", "data", "reset"}

(* d_size tells data from commands (include/fastboot.h: "This can be       *)
(* checked to find whether next packet is a command or a data"): the       *)
(* device and the host agree on what each packet is.                       *)
NextPacketIsCommand == pc = "rx" => (d_size # 0 <=> cmd.op = "byte")

(* At most one read is queued, and never into the buffer whose contents    *)
(* are being written to the medium.                                        *)
ReadsApart ==
    /\ Len(rxq) <= 1
    /\ pc = "data" /\ ~d_legacy =>
         /\ \A i \in DOMAIN rxq : rxq[i].buf # inhand
         /\ \A i \in DOMAIN events : events[i].op = "rx" => events[i].buf # inhand

(* An OKAY to a flash command means that the partition holds the image the *)
(* host downloaded for it, whichever way it got there.                     *)
FlashTrue ==
    /\ tx.queued /\ tx.buffer = OKAY
    /\ host.phase = "resp" /\ Head(host.script).op = "flash"
    => Holds(disk[Head(host.script).ptn], image)

(* An OKAY to a download means that the image is in the device's hands:    *)
(* in the transfer buffer when it is to be verified and stored later.  The *)
(* comments of fbt_rx_process and fbt_handle_rx say that what is cleared   *)
(* at the end of a download is the command buffer.                         *)
DownloadIntact ==
    /\ tx.queued /\ tx.buffer = OKAY /\ d_legacy
    /\ host.phase = "resp" /\ Head(host.script).op = "download"
    => SubSeq(mem.b0, 1, d_bytes) = Slice(image, 0, image.len)

(* cmd_fastboot.c, oem unlock: "Unlocking forces a factory reset": when    *)
(* fastboot takes commands on an unlocked device, what the user kept under *)
(* the lock is gone.                                                       *)
UnlockedAfterErase == pc = "loop" /\ unlocked => disk["userdata"] # UserData

(* Fastboot writes to the medium of an unlocked device only: the lock is   *)
(* looked at when a download is asked for, the pieces are written later,   *)
(* and nothing locks the device in between.  (While fastboot does not run, *)
(* the kernel and recovery write.)                                         *)
LockedUntouched ==
    [][disk' # disk => unlocked \/ pc \in {"off", "leave"}]_vars

(* The gadget's part of a session is a run of the download path alone: the *)
(* pieces reach it once each, in order and unmixed, through two buffers    *)
(* that the controller fills while it writes.                              *)
Streams == DSpec

(* Every script the host starts comes to its end: each command is answered *)
(* and each download accepted or refused, never left hanging.              *)
SessionEnds == host.script # <<>> ~> host.script = <<>>

---------------------------------------------------------------------------
(* The inductive invariant behind the properties of the protocol: in each  *)
(* situation that the device and the host can be in together, one of them  *)
(* has the move.                                                           *)

rxEvent(n, b, o) == [op |-> "rx", actual |-> n, buf |-> b, off |-> o]
given(n, b, o) == [actual |-> n, buf |-> b, off |-> o]
TxEvent == [op |-> "tx"]
ResetEvent == [op |-> "reset"]
ConfiguredEvent == [op |-> "configured"]
resetHost == [idleHost EXCEPT !.phase = "reset"]

(* fbt_rx_process counts a piece twice when the download has failed and    *)
(* more is to come: device and host stay together only when a failure is   *)
(* met with at most one more piece to come.                                *)
FailsLate == step = "done" /\ d_status = -1 => d_size <= d_bytes + 2 * TRANS

RxType == [actual : 0..TRANS, buf : Buffers \cup {"none"}, off : Nat]
TxType == [buffer : {"none", OKAY, FAIL, DATA}, queued : BOOLEAN,
           status : {"ok", "busy", "error"}]
HostType == [phase : {"idle", "resp", "data", "reset"}, script : Seq(CommandType),
             sent : Nat]

LinkType ==
    /\ configured \in BOOLEAN /\ mem \in [Buffers -> Seq(ByteType \cup CommandType)]
    /\ rx \in RxType /\ tx \in TxType /\ host \in HostType
    /\ (d_size # 0 /\ d_legacy => d_status = 0)
    /\ IF pc \in {"save", "save2"}
       THEN /\ save \in [val : {"0", "1"}, by : {"lock", "accept", "init"}]
            /\ configured <=> save.by # "init"
       ELSE save = NoSave

(* Switched off, or not configured.                                        *)
Unplugged ==
    /\ pc \in {"off", "loop", "save", "save2"} /\ ~configured
    /\ rxq = <<>> /\ ~tx.queued
    /\ \/ events = <<>> /\ host \in {idleHost, resetHost}
       \/ events = <<ConfiguredEvent>> /\ host = idleHost /\ pc # "off"

(* The device waits for a command; the host has an answer to fetch, or not. *)
Listening ==
    /\ pc = "loop" /\ configured /\ rx = NoRx /\ rxq = <<commandRead>>
    /\ \/ /\ host.phase = "resp" /\ host.script # <<>> /\ events = <<>>
          /\ tx.queued /\ tx.status = "busy" /\ tx.buffer \in {OKAY, FAIL}
       \/ /\ host.phase = "idle" /\ ~tx.queued
          /\ \/ events = <<>> /\ tx.status = "ok"
             \/ events = <<TxEvent>> /\ tx.status = "busy"

(* A command has been sent.                                                *)
Sent ==
    /\ pc = "loop" /\ configured /\ rx = NoRx /\ rxq = <<>> /\ ~tx.queued
    /\ host.phase = "resp" /\ host.sent = 0
    /\ host.script # <<>> /\ mem["rx"] = <<Head(host.script)>>
    /\ \/ events = <<rxEvent(1, "rx", 0)>> /\ tx.status = "ok"
       \/ events = <<TxEvent, rxEvent(1, "rx", 0)>> /\ tx.status = "busy"

(* A command is being handled; a reset may be on its way.                  *)
Handling ==
    /\ pc \in {"rx", "save", "save2"} /\ configured
    /\ rx = given(1, "rx", 0) /\ rxq = <<>> /\ ~tx.queued /\ tx.status = "ok"
    /\ mem["rx"] = <<cmd>> /\ cmd \in CommandType
    /\ pc # "rx" => cmd.op \in {"lock", "unlock_accept"}
    /\ \/ /\ host.phase = "resp" /\ host.script # <<>> /\ cmd = Head(host.script)
          /\ host.sent = 0 /\ events = <<>>
       \/ host = resetHost /\ cmd.op # "download" /\ events = <<ResetEvent>>

Resetting ==
    /\ pc = "loop" /\ configured /\ host = resetHost
    /\ rxq \in {<<>>, <<commandRead>>}
    /\ events \in {<<ResetEvent>>, <<TxEvent, ResetEvent>>,
                   <<rxEvent(1, "rx", 0), ResetEvent>>,
                   <<TxEvent, rxEvent(1, "rx", 0), ResetEvent>>}

Leaving ==
    /\ pc = "leave" /\ configured /\ rxq = <<>>
    /\ \/ /\ host.phase = "resp" /\ host.script # <<>> /\ tx.buffer = OKAY
          /\ Head(host.script).op \notin {"download", "flash"} /\ events = <<>>
       \/ host.phase = "idle" /\ ~tx.queued /\ events = <<TxEvent>>
       \/ host = resetHost /\ events = <<ResetEvent>>

(* The piece of the download that begins at pos, and buffer b for it.      *)
pieceLen(pos) == Min2(TRANS, d_size - pos)
placeOf(pos) == IF d_legacy THEN pos ELSE 0

PieceBuffer(b) == b \in {"b0", "b1"} /\ (d_legacy => b = "b0")

Loaded(pos, b) ==
    /\ PieceBuffer(b) /\ pos < d_size
    /\ Len(mem[b]) >= placeOf(pos) + pieceLen(pos)
    /\ SubSeq(mem[b], placeOf(pos) + 1, placeOf(pos) + pieceLen(pos))
         = Slice(image, pos, pieceLen(pos))
    /\ host.sent = pos + pieceLen(pos)
    /\ host.phase = IF pos + pieceLen(pos) = d_size THEN "resp" ELSE "data"

(* It is awaited, or it has arrived; E has happened before.                *)
Coming(pos, b, E) ==
    /\ rx = NoRx
    /\ \/ /\ PieceBuffer(b) /\ pos < d_size
          /\ rxq = <<[len |-> pieceLen(pos), buf |-> b, off |-> placeOf(pos)]>>
          /\ events = E /\ Len(mem[b]) >= placeOf(pos)
          /\ host.phase = "data" /\ host.sent = pos
       \/ /\ Loaded(pos, b) /\ rxq = <<>>
          /\ events = Append(E, rxEvent(pieceLen(pos), b, placeOf(pos)))

(* What the download path expects next; after a failure, the last piece.   *)
Awaited(pos) ==
    IF d_status = 0 THEN pos = d_bytes ELSE d_bytes >= d_size /\ d_size <= pos + TRANS

Offered ==
    /\ pc = "loop" /\ step = "idle" /\ d_status = 0 /\ d_bytes = 0
    /\ tx = [buffer |-> DATA, queued |-> TRUE, status |-> "busy"]
    /\ host.phase = "resp" /\ host.sent = 0
    /\ events = <<>> /\ rx = NoRx
    /\ rxq = <<[len |-> pieceLen(0), buf |-> "b0", off |-> 0]>>

Awaiting ==
    /\ pc = "loop" /\ step = "idle" /\ ~tx.queued
    /\ \E pos \in 0..d_size, b \in Buffers :
         /\ Awaited(pos)
         /\ \/ tx.status = "ok" /\ Coming(pos, b, <<>>)
            \/ tx.status = "busy" /\ Coming(pos, b, <<TxEvent>>)

Received ==
    /\ pc = "rx" /\ step = "idle" /\ ~tx.queued /\ tx.status = "ok"
    /\ rxq = <<>> /\ events = <<>>
    /\ \E pos \in 0..d_size, b \in Buffers :
         Awaited(pos) /\ Loaded(pos, b) /\ rx = given(pieceLen(pos), b, placeOf(pos))

(* A piece is being written, from a buffer that no read fills meanwhile.   *)
Storing ==
    /\ pc = "data" /\ step # "idle" /\ ~tx.queued /\ tx.status = "ok"
    /\ length \in 1..TRANS /\ inhand \in {"b0", "b1"}
    /\ IF d_bytes + length < d_size
       THEN /\ length = TRANS
            /\ \E b \in Buffers : /\ Coming(d_bytes + length, b, <<>>)
                                  /\ ~d_legacy => b # inhand
       ELSE /\ rxq = <<>> /\ events = <<>> /\ host.phase = "resp"
            /\ rx.buf = inhand

Downloading ==
    /\ configured /\ host.script # <<>>
    /\ Head(host.script) = [op |-> "download", img |-> image]
    /\ Offered \/ Awaiting \/ Received \/ Storing

Link ==
    /\ LinkType
    /\ IF d_size = 0
       THEN /\ step = "idle"
            /\ Unplugged \/ Listening \/ Sent \/ Handling \/ Resetting \/ Leaving
       ELSE Downloading

(* What the link does not involve.                                         *)
AsideType ==
    /\ disk = [p \in Partitions |-> disk[p]] /\ length <= TRANS
    /\ unlocked \in BOOLEAN /\ unlock_pending \in BOOLEAN /\ env \in {"0", "1", "bad"}

LinkInv == FullInv /\ Link /\ AsideType

(* A download goes on under an open lock.                                  *)
LockInv == d_size # 0 => unlocked

(* Whichever image a sector has bytes of, it has what the image puts there. *)
TrueSector(img, s, c) ==
    (\E i \in DOMAIN c : c[i].img = img.id)
        => s \in DOMAIN Expected(img) /\ c = Expected(img)[s]

TrueContents(c) == \A img \in Images : \A s \in DOMAIN c : TrueSector(img, s, c[s])

ContentsInv == \A p \in Partitions : TrueContents(disk[p])

(* The fastboot tool flashes what it has just downloaded, for the          *)
(* partition whose type it asked just before.                              *)
Aside == {"checksum", "erase", "unlock", "lock", "reboot", "boot", "continue", "other"}

AsideIn(s, i, j) == \A k \in i..j : s[k].op \in Aside

DownloadBefore(s, j) ==
    \E k \in 1..(j - 1) : s[k].op = "download" /\ AsideIn(s, k + 1, j - 1)

TypeBefore(s, j) ==
    \E k \in 1..(j - 1) :
        s[k].op = "type" /\ s[k].ptn # "" /\ AsideIn(s, k + 1, j - 1)

(* Command k is the download of a flash.                                   *)
ForFlash(s, k) ==
    /\ s[k].op = "download"
    /\ \E j \in (k + 1)..Len(s) : s[j].op = "flash" /\ AsideIn(s, k + 1, j - 1)

ToolScripts ==
    \A s \in Scripts : \A j \in 1..Len(s) :
        /\ s[j].op = "flash" => DownloadBefore(s, j)
        /\ ForFlash(s, j) => TypeBefore(s, j)

(* What is left of a script either has the download of its next flash, or  *)
(* comes after it, and so with the query of its next download.             *)
Followed(s) ==
    \A j \in 1..Len(s) : s[j].op = "flash" => DownloadBefore(s, j) \/ AsideIn(s, 1, j - 1)

Queried(s) ==
    \A j \in 1..Len(s) : ForFlash(s, j) => TypeBefore(s, j) \/ AsideIn(s, 1, j - 1)

FlashNext(s) == \E j \in 1..Len(s) : s[j].op = "flash" /\ AsideIn(s, 1, j - 1)
DownloadNext(s) == \E j \in 1..Len(s) : ForFlash(s, j) /\ AsideIn(s, 1, j - 1)

(* What the host has still to send when the device has done with its part  *)
(* of the present command.                                                 *)
Remaining ==
    IF host.script # <<>> /\ (tx.queued \/ d_size # 0) THEN Tail(host.script)
    ELSE host.script

(* rkimage_store_image verifies a legacy image as the pending partition's. *)
LegacyNamed == d_legacy => pending_ptn \in Verified

NameKept ==
    /\ pending_ptn_name # ""
    /\ pending_ptn_name \in Verified => pending_ptn = pending_ptn_name

FlashNamed == pc = "rx" /\ d_size = 0 /\ cmd.op = "flash" => LegacyNamed

(* From the query to the flash the pending partition is the one named.     *)
NamedInv ==
    /\ Followed(host.script) /\ Queried(host.script)
    /\ DownloadNext(Remaining) => NameKept
    /\ FlashNext(Remaining) => LegacyNamed
    /\ FlashNamed

Uploaded ==
    /\ tx.queued /\ tx.buffer = OKAY
    /\ host.phase = "resp" /\ Head(host.script).op = "download"

StreamedInPlace ==
    ~d_legacy /\ d_status = 1 /\ pending_ptn \in Partitions
        => Holds(disk[pending_ptn], image)

FlashInv ==
    /\ FlashTrue
    /\ d_size = 0 /\ (FlashNext(host.script) \/ Uploaded) => StreamedInPlace

FInv == LinkInv /\ FailsLate /\ LockInv /\ NamedInv /\ ContentsInv /\ FlashInv

=============================================================================
