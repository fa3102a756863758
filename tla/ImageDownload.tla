--------------------------- MODULE ImageDownload ---------------------------
(***************************************************************************)
(* A fastboot download: the data half of fbt_rx_process in                 *)
(* common/cmd_fastboot.c, and the code of                                  *)
(* board/rockchip/common/rkloader/rkimage.c that writes the pieces to a    *)
(* partition as they arrive, unpacking sparse images on the way.           *)
(*                                                                         *)
(* One step of the module is one StorageWriteLba or one turn of the chunk  *)
(* loop, because the controller fills the other buffer meanwhile.  `work'  *)
(* is the buffer/length pair the C functions pass along.                   *)
(*                                                                         *)
(* A byte is named by its image and its place there, so that what lies on  *)
(* the medium can be compared with what was sent.  Sizes are scaled: BLK   *)
(* bytes make a sector, TRANS bytes one USB transfer.                      *)
(***************************************************************************)
EXTENDS Integers, Sequences

CONSTANTS
    Images,      \* what the host may send: see ImageType
    Partitions,
    BLK,         \* RK_BLK_SIZE, 512
    TRANS,       \* USB_MAX_TRANS_SIZE, 0x20000
    FILEHDR,     \* sizeof(sparse_header_t), 28
    CHUNKHDR,    \* sizeof(chunk_header_t), 12
    NoPtn        \* the null partition pointer

(* A raw image has no chunks.  A chunk is raw, dont_care, or of a type the *)
(* loader does not know; `ok' says its total_sz agrees with its chunk_sz.  *)
ChunkType == [type : {"raw", "dont_care", "fill"}, len : Nat, ok : BOOLEAN]
ImageIds == {img.id : img \in Images}
ImageType == [id : ImageIds, sparse : BOOLEAN, chunks : Seq(ChunkType),
              len : Nat, zeros : SUBSET Nat, signed : BOOLEAN]

VARIABLES
    image,              \* the image the host sends, as it has it
    pending_ptn,        \* the partition the last type query named
    d_size,             \* 0 when the next packet is a command
    d_bytes,
    d_legacy,           \* the whole image is kept in memory instead
    d_status,           \* 0 running, 1 complete, -1 failed
    flag_sparse,
    sparse_cur_chunk,
    d_direct_size,      \* bytes of this extent still to write
    d_direct_offset,    \* next sector of the partition
    d_cache,            \* bytes left over from the last piece
    work,
    length,             \* of the piece being handled
    step,               \* idle, direct, chunk, done
    disk                \* per partition: sector -> bytes, where written

progress == <<d_status, flag_sparse, sparse_cur_chunk, d_direct_size,
              d_direct_offset>>
dlVars == <<image, pending_ptn, d_size, d_bytes, d_legacy, progress, d_cache,
            work, length, step, disk>>

---------------------------------------------------------------------------
Min2(a, b) == IF a < b THEN a ELSE b

(* Faulty variants: a whole number of sectors counts one more; a rest of   *)
(* less than a sector does not count.                                      *)
DivPlusOne(n, d) == n \div d + 1
DivDown(n, d) == n \div d

DIV_ROUND_UP(n, d) == (n + d - 1) \div d
CONSUMED(s, n) == SubSeq(s, n + 1, Len(s))

Zero == [op |-> "byte", img |-> "zero", at |-> 0]

Byte(img, i) ==
    IF i \in img.zeros THEN Zero ELSE [op |-> "byte", img |-> img.id, at |-> i]

Slice(img, from, n) == [i \in 1..n |-> Byte(img, from + i)]

RawLen(c) == IF c.type = "raw" THEN c.len ELSE 0

(* Where the header of chunk k lies in the image.                          *)
HeaderAt(img) ==
    LET f[k \in Nat] == IF k <= 1 THEN FILEHDR
                        ELSE f[k - 1] + (CHUNKHDR + RawLen(img.chunks[k - 1]))
    IN  f

(* What the sparse tools produce: the chunks fill the file, extents are    *)
(* whole sectors, and a chunk header begins with its type, 0xCAC1 and up.  *)
WellFormed(img) ==
    img.sparse => /\ img.len = HeaderAt(img)[Len(img.chunks) + 1]
                  /\ img.chunks # <<>>
                  /\ \A k \in DOMAIN img.chunks :
                        /\ img.chunks[k].len % BLK = 0
                        /\ HeaderAt(img)[k] + 1 \notin img.zeros

ASSUME ImageDownloadAssumption ==
    /\ BLK \in Nat \ {0} /\ TRANS \in Nat \ {0} /\ TRANS % BLK = 0
    /\ FILEHDR \in Nat /\ CHUNKHDR \in Nat \ {0}
    /\ CHUNKHDR <= BLK /\ FILEHDR <= TRANS
    /\ NoPtn \notin Partitions
    /\ Images \subseteq ImageType /\ \A img \in Images : WellFormed(img)

(* The chunk header that begins with byte b, if one does.                  *)
ChunkAt(b) ==
    LET at == {k \in 1..Len(image.chunks) : b = Byte(image, HeaderAt(image)[k] + 1)}
    IN  IF at = {} THEN [type |-> "unknown", len |-> 0, ok |-> FALSE]
        ELSE image.chunks[CHOOSE k \in at : TRUE]

(* Sectors from..from+n-1 now hold the first bytes of w.                   *)
Store(content, from, n, w) ==
    [s \in DOMAIN content \cup from..(from + n - 1) |->
        IF s \in from..(from + n - 1)
        THEN SubSeq(w, (s - from) * BLK + 1, Min2(Len(w), (s - from + 1) * BLK))
        ELSE content[s]]

---------------------------------------------------------------------------
DInit ==
    /\ image \in Images
    /\ pending_ptn = NoPtn /\ d_size = 0 /\ d_bytes = 0 /\ d_legacy = FALSE
    /\ d_status = 0 /\ flag_sparse = FALSE /\ sparse_cur_chunk = 0
    /\ d_direct_size = 0 /\ d_direct_offset = 0
    /\ d_cache = <<>> /\ work = <<>> /\ length = 0 /\ step = "idle"
    /\ DOMAIN disk = Partitions

(* The other commands: a type query and the end of a flash set the pending *)
(* partition, an erase and a legacy flash change what a partition holds.   *)
Command ==
    /\ step = "idle" /\ d_size = 0
    /\ UNCHANGED <<image, d_size, d_bytes, d_legacy, progress, d_cache, work,
                   length, step>>

(* The download command, accepted.                                         *)
Download(img, legacy) ==
    /\ step = "idle" /\ d_size = 0 /\ img.len > 0
    /\ image' = img /\ d_legacy' = legacy
    /\ d_size' = img.len /\ d_bytes' = 0 /\ d_status' = 0
    /\ UNCHANGED <<pending_ptn, flag_sparse, sparse_cur_chunk, d_direct_size,
                   d_direct_offset, d_cache, work, length, step, disk>>

(* The download command, refused: it has already cleared the counters.     *)
DownloadRefused(legacy) ==
    /\ step = "idle" /\ d_size = 0
    /\ d_legacy' = legacy /\ d_bytes' = 0 /\ d_status' = 0
    /\ UNCHANGED <<image, pending_ptn, d_size, flag_sparse, sparse_cur_chunk,
                   d_direct_size, d_direct_offset, d_cache, work, length, step,
                   disk>>

Failed ==
    /\ d_status' = -1 /\ step' = "done"
    /\ UNCHANGED <<flag_sparse, sparse_cur_chunk, d_direct_size, d_direct_offset>>

startDownload(buf) ==
    /\ d_status' = 0 /\ sparse_cur_chunk' = 0 /\ d_direct_offset' = 0
    /\ d_cache' = <<>>
    /\ IF image.sparse /\ buf[1] = Byte(image, 1)
       THEN /\ flag_sparse' = TRUE /\ d_direct_size' = 0
            /\ work' = CONSUMED(buf, FILEHDR) /\ step' = "chunk"
       ELSE /\ flag_sparse' = FALSE /\ d_direct_size' = d_size
            /\ work' = buf /\ step' = "direct"

(* rkimage_handleDownload on a piece `buf', up to the first write.         *)
handleDownload(buf) ==
    IF pending_ptn = NoPtn
    THEN Failed /\ UNCHANGED <<d_cache, work>>
    ELSE IF (Len(buf) + d_bytes < d_size /\ Len(buf) < TRANS) \/ d_status # 0
    THEN step' = "done" /\ UNCHANGED <<progress, d_cache, work>>
    ELSE IF d_bytes = 0
    THEN startDownload(buf)
    ELSE IF Len(buf) + Len(d_cache) > TRANS + BLK
    THEN Failed /\ UNCHANGED <<d_cache, work>>
    ELSE /\ work' = d_cache \o buf /\ d_cache' = <<>>
         /\ step' = IF flag_sparse /\ d_direct_size = 0 THEN "chunk" ELSE "direct"
         /\ UNCHANGED progress

Receive(buf) ==
    /\ step = "idle" /\ d_size # 0
    /\ length' = Len(buf)
    /\ IF d_legacy THEN step' = "done" /\ UNCHANGED <<progress, d_cache, work>>
       ELSE handleDownload(buf)
    /\ UNCHANGED <<image, pending_ptn, d_size, d_bytes, d_legacy, disk>>

(* Faulty variants: the end of the extent is overlooked; a part of an      *)
(* extent waits for the rest of it.                                        *)
WriteAll == Len(work)
WriteWhole == IF Len(work) >= d_direct_size THEN d_direct_size ELSE 0

writeLen == IF Len(work) >= d_direct_size THEN d_direct_size
            ELSE (Len(work) \div BLK) * BLK

(* rkimg_handleDirectDownload and what its callers do with its result: the *)
(* rest is cached while the extent is unfinished, and otherwise a sparse   *)
(* image goes on with the next chunk and a raw one is complete.            *)
handleDirectDownload(ok) ==
    LET blocks == DIV_ROUND_UP(writeLen, BLK)
        rest   == CONSUMED(work, writeLen)
    IN
    /\ step = "direct"
    /\ IF ~ok /\ blocks # 0
       THEN Failed /\ work' = <<>> /\ UNCHANGED <<d_cache, disk>>
       ELSE /\ disk' = [disk EXCEPT ![pending_ptn] =
                          Store(@, d_direct_offset, blocks, SubSeq(work, 1, writeLen))]
            /\ d_direct_offset' = d_direct_offset + blocks
            /\ d_direct_size' = d_direct_size - writeLen
            /\ UNCHANGED <<flag_sparse, sparse_cur_chunk>>
            /\ IF d_direct_size' # 0
               THEN d_cache' = rest /\ work' = <<>> /\ step' = "done" /\ UNCHANGED d_status
               ELSE IF flag_sparse
               THEN work' = rest /\ step' = "chunk" /\ UNCHANGED <<d_cache, d_status>>
               ELSE work' = <<>> /\ step' = "done" /\ d_status' = 1 /\ UNCHANGED d_cache
    /\ UNCHANGED <<image, pending_ptn, d_size, d_bytes, d_legacy, length>>

(* One turn of the chunk loop of rkimg_handleSparseDownload.               *)
handleSparseDownload ==
    LET c == ChunkAt(work[1]) IN
    /\ step = "chunk"
    /\ IF sparse_cur_chunk >= Len(image.chunks)
       THEN /\ d_status' = 1 /\ step' = "done" /\ work' = <<>>
            /\ UNCHANGED <<flag_sparse, sparse_cur_chunk, d_direct_size,
                           d_direct_offset, d_cache>>
       ELSE IF Len(work) < CHUNKHDR
       THEN /\ d_cache' = work /\ work' = <<>> /\ step' = "done"
            /\ UNCHANGED progress
       ELSE /\ sparse_cur_chunk' = sparse_cur_chunk + 1
            /\ UNCHANGED <<flag_sparse, d_cache>>
            /\ IF c.ok /\ c.type = "raw"
               THEN /\ d_direct_size' = c.len /\ step' = "direct"
                    /\ work' = CONSUMED(work, CHUNKHDR)
                    /\ UNCHANGED <<d_status, d_direct_offset>>
               ELSE IF c.ok /\ c.type = "dont_care"
               THEN /\ d_direct_offset' = d_direct_offset + c.len \div BLK
                    /\ work' = CONSUMED(work, CHUNKHDR)
                    /\ UNCHANGED <<d_status, d_direct_size, step>>
               ELSE /\ d_status' = -1 /\ step' = "done" /\ work' = <<>>
                    /\ UNCHANGED <<d_direct_size, d_direct_offset>>
    /\ UNCHANGED <<image, pending_ptn, d_size, d_bytes, d_legacy, length, disk>>

(* Faulty variant: the last piece does not end the download.               *)
MoreAtEnd == d_bytes + length <= d_size /\ d_status <= 0

(* The piece is done: count it, and decide whether the download is.  A     *)
(* failed download that has more to come counts the piece a second time.   *)
moreToCome == d_bytes + length < d_size /\ d_status <= 0

(* Faulty variant: the end of the download is forgotten.                   *)
FinishOpen ==
    /\ step = "done"
    /\ d_bytes' = d_bytes + length + (IF moreToCome /\ d_status < 0 THEN length ELSE 0)
    /\ d_size' = d_size
    /\ step' = "idle"
    /\ UNCHANGED <<image, pending_ptn, d_legacy, progress, d_cache, work, length, disk>>

Finish ==
    /\ step = "done"
    /\ d_bytes' = d_bytes + length + (IF moreToCome /\ d_status < 0 THEN length ELSE 0)
    /\ d_size' = IF moreToCome THEN d_size ELSE 0
    /\ step' = "idle"
    /\ UNCHANGED <<image, pending_ptn, d_legacy, progress, d_cache, work, length, disk>>

(* Power on: fbt_fastboot_init and do_fastboot on cleared memory.          *)
Restart ==
    /\ pending_ptn' = NoPtn /\ d_size' = 0 /\ d_bytes' = 0 /\ d_legacy' = FALSE
    /\ d_status' = 0 /\ flag_sparse' = FALSE /\ sparse_cur_chunk' = 0
    /\ d_direct_size' = 0 /\ d_direct_offset' = 0
    /\ d_cache' = <<>> /\ work' = <<>> /\ length' = 0 /\ step' = "idle"
    /\ UNCHANGED image

(* The pieces the gadget hands over: the next bytes of the image, a full   *)
(* transfer or the rest.  Once the download has failed, d_bytes no longer  *)
(* says where the host is and what arrives is ignored.                     *)
NextPiece == Slice(image, d_bytes, Min2(TRANS, d_size - d_bytes))

AnyPtn == pending_ptn' \in Partitions \cup {NoPtn}
AnyDisk == disk' = [p \in Partitions |-> disk'[p]]

DNext ==
    \/ Command /\ AnyPtn /\ AnyDisk
    \/ \E img \in Images, legacy \in BOOLEAN : Download(img, legacy)
    \/ \E legacy \in BOOLEAN : DownloadRefused(legacy)
    \/ d_status = 0 /\ Receive(NextPiece)
    \/ d_status # 0 /\ \E n \in 1..TRANS : Receive(Slice(image, 0, n))
    \/ \E ok \in BOOLEAN : handleDirectDownload(ok)
    \/ handleSparseDownload
    \/ Finish
    \/ Restart /\ AnyDisk

DSpec == DInit /\ [][DNext]_dlVars

---------------------------------------------------------------------------
(* What an image should leave on the medium, from the sparse format alone. *)

OutAt(img) ==
    LET f[k \in Nat] == IF k <= 1 THEN 0 ELSE f[k - 1] + img.chunks[k - 1].len \div BLK
    IN  f

Extent(img, k) ==
    OutAt(img)[k]..(OutAt(img)[k] + RawLen(img.chunks[k]) \div BLK - 1)

Expected(img) ==
    IF ~img.sparse
    THEN [s \in {s \in 0..img.len : s * BLK < img.len} |->
             Slice(img, s * BLK, Min2(BLK, img.len - s * BLK))]
    ELSE [s \in UNION {Extent(img, k) : k \in DOMAIN img.chunks} |->
             LET k == CHOOSE k \in DOMAIN img.chunks : s \in Extent(img, k)
             IN  Slice(img, HeaderAt(img)[k] + CHUNKHDR + (s - OutAt(img)[k]) * BLK, BLK)]

Holds(content, img) ==
    \A s \in DOMAIN Expected(img) :
        s \in DOMAIN content /\ content[s] = Expected(img)[s]

---------------------------------------------------------------------------
(* The leftover of a piece is less than a sector, so that the next piece   *)
(* always fits d_cache: the "something wrong with d_cache" branch of       *)
(* rkimage_handleDownload, which gives the download up, is never taken.    *)
CacheFits == step = "idle" => Len(d_cache) < BLK

(* A raw image leaves nothing over: rkimage_handleDownload says "normal    *)
(* image should not get here!" where it would.                             *)
RawNeverCached == ~flag_sparse => d_cache = <<>>

(* Every sector that holds a byte of the image holds exactly the bytes the *)
(* image has there, at every moment of the download: nothing is written in *)
(* the wrong place, twice or from a buffer already reused.                 *)
WrittenIsImage ==
    \A p \in Partitions : \A s \in DOMAIN disk[p] :
        (\E i \in DOMAIN disk[p][s] : disk[p][s][i].img = image.id)
            => s \in DOMAIN Expected(image) /\ disk[p][s] = Expected(image)[s]

(* When rkimage.c calls a raw download complete, all of it is in place.    *)
RawComplete ==
    step = "done" /\ d_status = 1 /\ ~flag_sparse /\ ~d_legacy
        => Holds(disk[pending_ptn], image)

(* When rkimage.c calls a download complete, raw or sparse, its last byte  *)
(* has arrived and all of it is in place.                                  *)
ImageComplete ==
    step = "done" /\ d_status = 1 /\ ~d_legacy
        => d_bytes + length = d_size /\ Holds(disk[pending_ptn], image)

---------------------------------------------------------------------------
(* The inductive invariant behind these.                                   *)

ByteType == [op : {"byte"}, img : ImageIds \cup {"zero"}, at : Nat]

DTypeOK ==
    /\ image \in Images /\ pending_ptn \in Partitions \cup {NoPtn}
    /\ d_size \in Nat /\ d_bytes \in Nat /\ length \in Nat
    /\ d_legacy \in BOOLEAN /\ flag_sparse \in BOOLEAN /\ d_status \in {-1, 0, 1}
    /\ sparse_cur_chunk \in Nat /\ d_direct_size \in Nat /\ d_direct_offset \in Nat
    /\ d_cache \in Seq(ByteType) /\ work \in Seq(ByteType)
    /\ step \in {"idle", "direct", "chunk", "done"}
    /\ DOMAIN disk = Partitions

(* The first k sectors of the raw image are in place.                      *)
Written(k) ==
    \A s \in 0..(k - 1) :
        /\ s \in DOMAIN disk[pending_ptn]
        /\ disk[pending_ptn][s] = Slice(image, s * BLK, Min2(BLK, image.len - s * BLK))

(* A raw download has dealt with the first n bytes.                        *)
At(n) ==
    /\ ~image.sparse /\ pending_ptn \in Partitions
    /\ d_direct_size = d_size - n /\ d_direct_offset * BLK = n
    /\ Written(d_direct_offset)

RawInv ==
    ~flag_sparse /\ ~d_legacy /\ d_size # 0 =>
        /\ step = "idle" /\ d_status = 0 /\ d_bytes > 0 => At(d_bytes)
        /\ step = "direct" => At(d_bytes) /\ work = NextPiece /\ length = Len(NextPiece)
        /\ step = "done" /\ d_status = 0 => d_bytes + length < d_size /\ At(d_bytes + length)
        /\ step = "done" /\ d_status = 1 =>
              ~image.sparse /\ Written(DIV_ROUND_UP(image.len, BLK))
        /\ step # "chunk"

DInv ==
    /\ DTypeOK
    /\ Len(d_cache) < BLK /\ RawNeverCached
    /\ step \in {"direct", "chunk"} =>
          d_cache = <<>> /\ d_status = 0 /\ ~d_legacy /\ pending_ptn \in Partitions
    /\ step # "idle" => d_size # 0
    /\ step = "idle" /\ d_size # 0 => d_status <= 0
    /\ d_size # 0 => d_size = image.len
    /\ d_size # 0 /\ d_status = 0 => d_bytes < d_size
    /\ RawInv

(* The sectors below k that the image should fill are in place.            *)
InPlace(k) ==
    \A s \in DOMAIN Expected(image) :
        s < k => s \in DOMAIN disk[pending_ptn] /\ disk[pending_ptn][s] = Expected(image)[s]

(* A sparse download has dealt with the first n bytes and holds w, the     *)
(* next: what is left of an extent ends where the next chunk header is, on *)
(* the way in and on the way out.                                          *)
Tracks(n, w) ==
    /\ image.sparse /\ pending_ptn \in Partitions
    /\ sparse_cur_chunk <= Len(image.chunks)
    /\ n \in Nat /\ w = Slice(image, n, Len(w))
    /\ n + d_direct_size = HeaderAt(image)[sparse_cur_chunk + 1]
    /\ d_direct_offset * BLK + d_direct_size = OutAt(image)[sparse_cur_chunk + 1] * BLK
    /\ InPlace(d_direct_offset)

(* An extent is being written: the rest of the last chunk's.               *)
InExtent ==
    /\ sparse_cur_chunk > 0
    /\ image.chunks[sparse_cur_chunk].type = "raw"
    /\ d_direct_size <= image.chunks[sparse_cur_chunk].len

SparseInv ==
    flag_sparse /\ ~d_legacy /\ d_size # 0 =>
        /\ step = "idle" /\ d_status = 0 /\ d_bytes > 0 =>
              /\ Tracks(d_bytes - Len(d_cache), d_cache)
              /\ d_direct_size # 0 => InExtent
        /\ step \in {"direct", "chunk"} =>
              /\ length = Len(NextPiece)
              /\ Tracks(d_bytes + length - Len(work), work)
              /\ IF step = "direct" THEN InExtent ELSE d_direct_size = 0
        /\ step = "done" /\ d_status = 0 =>
              /\ d_bytes + length < d_size
              /\ Tracks(d_bytes + length - Len(d_cache), d_cache)
              /\ d_direct_size # 0 => InExtent
        /\ step = "done" /\ d_status = 1 => Holds(disk[pending_ptn], image)

(* A download is complete with its last piece, and not before.             *)
EndInv ==
    step = "done" /\ d_status # -1 /\ ~d_legacy =>
        (d_status = 1 <=> d_bytes + length = d_size)

FullInv == DInv /\ SparseInv /\ EndInv

=============================================================================
