------------------------ MODULE ImageDownloadProofs ------------------------
(***************************************************************************)
(* Proofs about the streaming download, for any sector and transfer size   *)
(* and any images: the cache cannot overflow, a raw image never uses it,   *)
(* the position in an image, raw or sparse, and the position on the medium *)
(* stay together wherever the image is split into transfers, and a         *)
(* download called complete is complete.                                   *)
(***************************************************************************)
EXTENDS ImageDownload, SequenceTheorems, WellFoundedInduction, TLAPS

-----------------------------------------------------------------------------
(* Sectors and bytes.                                                      *)

(* The whole sectors in n bytes leave less than a sector over.             *)
LEMMA WholeSectors ==
    ASSUME NEW n \in Nat
    PROVE  /\ n \div BLK \in Nat
           /\ (n \div BLK) * BLK \in Nat
           /\ (n \div BLK) * BLK <= n
           /\ n - (n \div BLK) * BLK < BLK
<1>1. BLK \in Nat /\ BLK > 0
    BY ImageDownloadAssumption
<1>2. n \div BLK \in Nat
    BY <1>1
<1> DEFINE q == n \div BLK
<1>3. n = BLK * q + (n % BLK) /\ n % BLK \in 0..(BLK - 1)
    BY <1>1
<1>4. q * BLK = BLK * q
    BY <1>1, <1>2
<1>5. q * BLK \in Nat
    BY <1>1, <1>2
<1> HIDE DEF q
<1>6. q * BLK <= n /\ n - q * BLK < BLK
    BY <1>1, <1>3, <1>4, <1>5
<1> QED
    BY <1>2, <1>5, <1>6 DEF q

(* A multiple of the sector size is counted exactly.                       *)
LEMMA ExactSectors ==
    ASSUME NEW k \in Nat
    PROVE  (k * BLK) \div BLK = k /\ DIV_ROUND_UP(k * BLK, BLK) = k
<1>1. BLK \in Nat /\ BLK > 0
    BY ImageDownloadAssumption
<1>2. k * BLK \in Nat
    BY <1>1
<1>3. (k * BLK) \div BLK = k
    BY <1>1
<1>4. (k * BLK + BLK - 1) \div BLK = k
    BY <1>1, <1>2
<1> QED
    BY <1>3, <1>4 DEF DIV_ROUND_UP

(* The sectors m bytes need: all but the last are full.                    *)
LEMMA NeededSectors ==
    ASSUME NEW m \in Nat
    PROVE  /\ DIV_ROUND_UP(m, BLK) \in Nat
           /\ m <= DIV_ROUND_UP(m, BLK) * BLK
           /\ DIV_ROUND_UP(m, BLK) * BLK < m + BLK
<1>1. BLK \in Nat /\ BLK > 0
    BY ImageDownloadAssumption
<1> DEFINE n == m + BLK - 1
           q == n \div BLK
<1>2. n \in Nat
    BY <1>1
<1>3. q \in Nat /\ q * BLK \in Nat /\ q * BLK <= n /\ n - q * BLK < BLK
    BY <1>2, WholeSectors
<1> HIDE DEF q
<1>4. m <= q * BLK /\ q * BLK < m + BLK
    BY <1>1, <1>3
<1> QED
    BY <1>3, <1>4 DEF DIV_ROUND_UP, q

(* Sector j of a run starts inside the run.                                *)
LEMMA SectorStart ==
    ASSUME NEW b \in Nat, NEW j \in Nat, j < b
    PROVE  /\ j * BLK \in Nat /\ (j + 1) * BLK = j * BLK + BLK
           /\ j * BLK + BLK <= b * BLK
<1>1. BLK \in Nat /\ BLK > 0
    BY ImageDownloadAssumption
<1>2. j * BLK \in Nat /\ (j + 1) * BLK = j * BLK + BLK
    BY <1>1
<1>3. PICK e \in Nat : b = (j + 1) + e
    <2>1. b - (j + 1) \in Nat /\ b = (j + 1) + (b - (j + 1))
      OBVIOUS
    <2> QED
      BY <2>1
<1>4. e * BLK \in Nat /\ b * BLK = (j + 1) * BLK + e * BLK
    BY <1>1, <1>3
<1> QED
    BY <1>1, <1>2, <1>4

(* Whole sectors in front of m bytes add to the sectors they need.         *)
LEMMA SectorsAdd ==
    ASSUME NEW k \in Nat, NEW m \in Nat
    PROVE  DIV_ROUND_UP(k * BLK + m, BLK) = k + DIV_ROUND_UP(m, BLK)
<1>1. BLK \in Nat /\ BLK > 0
    BY ImageDownloadAssumption
<1> DEFINE b == DIV_ROUND_UP(m, BLK)
           x == DIV_ROUND_UP(k * BLK + m, BLK)
           y == k + b
<1>2. k * BLK \in Nat /\ k * BLK + m \in Nat
    BY <1>1
<1>3. b \in Nat /\ m <= b * BLK /\ b * BLK < m + BLK
    BY NeededSectors
<1>4. x \in Nat /\ k * BLK + m <= x * BLK /\ x * BLK < k * BLK + m + BLK
    BY <1>2, NeededSectors
<1> HIDE DEF b, x
<1>5. y \in Nat /\ y * BLK = k * BLK + b * BLK
    BY <1>1, <1>3
<1> HIDE DEF y
<1>6. ~ (x < y)
    BY <1>1, <1>2, <1>3, <1>4, <1>5, SectorStart
<1>7. ~ (y < x)
    BY <1>1, <1>2, <1>3, <1>4, <1>5, SectorStart
<1>8. x = y
    BY <1>4, <1>5, <1>6, <1>7
<1> QED
    BY <1>8 DEF b, x, y

(* A slice is a sequence of that many bytes.                               *)
LEMMA SliceProps ==
    ASSUME NEW img \in Images, NEW from \in Nat, NEW n \in Nat
    PROVE  /\ Slice(img, from, n) \in Seq(ByteType)
           /\ Len(Slice(img, from, n)) = n
           /\ \A i \in 1..n : Slice(img, from, n)[i] = Byte(img, from + i)
<1>1. img \in ImageType
    BY ImageDownloadAssumption
<1>2. ASSUME NEW i \in Nat PROVE Byte(img, i) \in ByteType
  <2>1. img.id \in ImageIds
    BY DEF ImageIds
  <2>2. [op |-> "byte", img |-> img.id, at |-> i] \in ByteType
    BY <2>1 DEF ByteType
  <2>3. Zero \in ByteType
    BY <2>1 DEF ByteType, Zero
  <2> QED
    BY <2>2, <2>3 DEF Byte
<1>3. \A i \in 1..n : Byte(img, from + i) \in ByteType
    BY <1>2
<1> QED
    BY <1>3 DEF Slice

(* What is left of a buffer after consuming n bytes of it.                 *)
LEMMA ConsumedProps ==
    ASSUME NEW s \in Seq(ByteType), NEW n \in Nat
    PROVE  /\ CONSUMED(s, n) \in Seq(ByteType)
           /\ n <= Len(s) => Len(CONSUMED(s, n)) = Len(s) - n
           /\ n = Len(s) => CONSUMED(s, n) = <<>>
<1>1. Len(s) \in Nat /\ \A i \in n + 1..Len(s) : s[i] \in ByteType
    BY ElementOfSeq, LenProperties
<1> QED
    BY <1>1, SubSeqProperties, SubSeqEmpty DEF CONSUMED

(* A transfer is a whole number of sectors.                                *)
LEMMA TransferSectors ==
    /\ TRANS \div BLK \in Nat /\ (TRANS \div BLK) * BLK = TRANS
    /\ DIV_ROUND_UP(TRANS, BLK) = TRANS \div BLK
<1>1. BLK \in Nat /\ BLK > 0 /\ TRANS \in Nat /\ TRANS % BLK = 0
    BY ImageDownloadAssumption
<1> DEFINE q == TRANS \div BLK
<1>2. q \in Nat /\ TRANS = BLK * q + (TRANS % BLK)
    BY <1>1
<1> HIDE DEF q
<1>3. q * BLK = TRANS
    BY <1>1, <1>2
<1>4. DIV_ROUND_UP(q * BLK, BLK) = q
    BY <1>2, ExactSectors
<1> QED
    BY <1>2, <1>3, <1>4 DEF q

(* Storing m bytes of a raw image from byte k * BLK on puts each sector of *)
(* the image in its place, provided that the run ends on a sector boundary *)
(* or at the end of the image.                                             *)
LEMMA StoreRaw ==
    ASSUME NEW img \in Images, NEW content, NEW k \in Nat, NEW m \in Nat, NEW b \in Nat,
           b = DIV_ROUND_UP(m, BLK), k * BLK + m <= img.len,
           b * BLK = m \/ k * BLK + m = img.len,
           NEW s \in k..(k + b - 1)
    PROVE  /\ s \in DOMAIN Store(content, k, b, Slice(img, k * BLK, m))
           /\ Store(content, k, b, Slice(img, k * BLK, m))[s]
                = Slice(img, s * BLK, Min2(BLK, img.len - s * BLK))
<1>1. BLK \in Nat /\ BLK > 0 /\ img.len \in Nat
    BY ImageDownloadAssumption DEF ImageType
<1> DEFINE w  == Slice(img, k * BLK, m)
           j  == s - k
           lo == j * BLK
           hi == Min2(m, lo + BLK)
<1>0. k * BLK \in Nat
    BY <1>1
<1>2. w \in Seq(ByteType) /\ Len(w) = m
      /\ \A i \in 1..m : w[i] = Byte(img, k * BLK + i)
    BY <1>0, SliceProps, Zenon
<1>3. j \in Nat /\ j < b
    OBVIOUS
<1>4. lo \in Nat /\ (j + 1) * BLK = lo + BLK /\ lo + BLK <= b * BLK
    BY <1>3, SectorStart
<1>5. b * BLK < m + BLK /\ b * BLK \in Nat
    BY <1>1, NeededSectors
<1>6. s * BLK = k * BLK + lo /\ s * BLK \in Nat
  <2>1. s = k + j /\ s \in Nat
    BY <1>3
  <2> QED
    BY <1>1, <1>3, <2>1
<1> HIDE DEF lo, w
<1>7. lo < m /\ hi \in Nat /\ hi <= m /\ hi - lo = Min2(BLK, img.len - s * BLK) /\ lo < hi
  <2> DEFINE kb == k * BLK
             sb == s * BLK
             bb == b * BLK
  <2>1. /\ kb \in Nat /\ sb = kb + lo /\ lo + BLK <= bb /\ bb < m + BLK /\ bb \in Nat
        /\ kb + m <= img.len /\ (bb = m \/ kb + m = img.len)
    BY <1>0, <1>4, <1>5, <1>6
  <2> HIDE DEF kb, sb, bb
  <2>2. lo < m
    BY <1>1, <1>4, <2>1
  <2>3. hi \in Nat /\ hi <= m /\ lo < hi
    BY <1>1, <1>4, <2>2 DEF Min2
  <2>4. hi - lo = Min2(BLK, img.len - sb)
    <3>1. img.len - sb = (img.len - kb) - lo /\ img.len - kb \in Nat
      BY <1>1, <1>4, <2>1
    <3>2. CASE bb = m
      <4>1. hi = lo + BLK
        BY <1>1, <1>4, <2>1, <3>2 DEF Min2
      <4>2. BLK <= img.len - sb
        BY <1>1, <1>4, <2>1, <3>1, <3>2
      <4> QED
        BY <1>1, <1>4, <3>1, <4>1, <4>2 DEF Min2
    <3>3. CASE kb + m = img.len
      <4>1. img.len - sb = m - lo
        BY <1>1, <1>4, <2>1, <3>1, <3>3
      <4>2. CASE m < lo + BLK
        <5>1. hi = m /\ m - lo < BLK
          BY <1>1, <1>4, <4>2 DEF Min2
        <5> QED
          BY <1>1, <1>4, <4>1, <5>1 DEF Min2
      <4>3. CASE ~ (m < lo + BLK)
        <5>1. hi = lo + BLK /\ hi - lo = BLK /\ BLK <= m - lo
          BY <1>1, <1>4, <4>3 DEF Min2
        <5>2. Min2(BLK, m - lo) = BLK
          BY <1>1, <1>4, <5>1 DEF Min2
        <5> QED
          BY <4>1, <5>1, <5>2
      <4> QED
        BY <4>2, <4>3
    <3> QED
      BY <2>1, <3>2, <3>3
  <2> QED
    BY <2>2, <2>3, <2>4 DEF sb
<1> HIDE DEF hi, j
<1>8. Store(content, k, b, w)[s] = SubSeq(w, lo + 1, hi)
      /\ s \in DOMAIN Store(content, k, b, w)
    BY <1>2, <1>4, Zenon DEF Store, hi, lo, j
<1>9. SubSeq(w, lo + 1, hi) = Slice(img, s * BLK, hi - lo)
  <2>1. SubSeq(w, lo + 1, hi) = [i \in 1..(hi - lo) |-> w[lo + i]]
    BY <1>2, <1>4, <1>7
  <2>2. ASSUME NEW i \in 1..(hi - lo) PROVE w[lo + i] = Byte(img, s * BLK + i)
    <3>1. lo + i \in 1..m
      BY <1>1, <1>4, <1>7
    <3>2. w[lo + i] = Byte(img, k * BLK + (lo + i))
      BY <1>2, <3>1
    <3>3. k * BLK + (lo + i) = s * BLK + i
      BY <1>0, <1>4, <1>6
    <3> QED
      BY <3>2, <3>3
  <2> QED
    BY <2>1, <2>2 DEF Slice
<1> QED
    BY <1>7, <1>8, <1>9, Zenon DEF w

-----------------------------------------------------------------------------
(* The invariant, action by action.                                        *)

(* It holds when fastboot starts.                                          *)
LEMMA InitInv == DInit => DInv
<1> SUFFICES ASSUME DInit PROVE DInv
    OBVIOUS
<1>1. <<>> \in Seq(ByteType) /\ Len(<<>>) = 0 /\ BLK > 0
    BY EmptySeq, ImageDownloadAssumption
<1>2. DTypeOK
    BY <1>1, Zenon DEF DInit, DTypeOK
<1> QED
    BY <1>1, <1>2 DEF DInit, DInv, RawNeverCached, RawInv







(* The next piece of a running download is not empty, and full unless it   *)
(* is the last.                                                            *)
LEMMA NextPieceProps ==
    ASSUME DInv, d_size # 0, d_status = 0
    PROVE  /\ NextPiece \in Seq(ByteType)
           /\ Len(NextPiece) = Min2(TRANS, d_size - d_bytes)
           /\ Len(NextPiece) \in Nat \ {0} /\ Len(NextPiece) <= TRANS
           /\ Len(NextPiece) + d_bytes <= d_size
           /\ Len(NextPiece) + d_bytes < d_size => Len(NextPiece) = TRANS
           /\ NextPiece[1] = Byte(image, d_bytes + 1)
<1>1. d_size \in Nat /\ d_bytes \in Nat /\ d_bytes < d_size /\ image \in Images
    BY DEF DInv, DTypeOK
<1>2. TRANS \in Nat /\ TRANS > 0
    BY ImageDownloadAssumption
<1> DEFINE n == Min2(TRANS, d_size - d_bytes)
<1>3. n \in Nat /\ n > 0 /\ n <= TRANS /\ n + d_bytes <= d_size
      /\ (n + d_bytes < d_size => n = TRANS)
    BY <1>1, <1>2 DEF Min2
<1> HIDE DEF n
<1>4. Slice(image, d_bytes, n) \in Seq(ByteType) /\ Len(Slice(image, d_bytes, n)) = n
      /\ Slice(image, d_bytes, n)[1] = Byte(image, d_bytes + 1)
  <2>1. 1 \in 1..n
    BY <1>3
  <2> QED
    BY <1>1, <1>3, <2>1, SliceProps, Zenon
<1> QED
    BY <1>3, <1>4 DEF NextPiece, n



(* How much of the bytes in hand one write takes: all that the extent      *)
(* still wants, or whole sectors with less than one left over.             *)
LEMMA WriteLenProps ==
    ASSUME DTypeOK
    PROVE  /\ writeLen \in Nat /\ writeLen <= Len(work) /\ writeLen <= d_direct_size
           /\ d_direct_size # writeLen => Len(work) - writeLen < BLK
<1>1. Len(work) \in Nat /\ d_direct_size \in Nat
    BY LenProperties DEF DTypeOK
<1> DEFINE q == (Len(work) \div BLK) * BLK
<1>2. q \in Nat /\ q <= Len(work) /\ Len(work) - q < BLK
    BY <1>1, WholeSectors
<1>3. writeLen = IF Len(work) >= d_direct_size THEN d_direct_size ELSE q
    BY DEF writeLen
<1> HIDE DEF q
<1> QED
    BY <1>1, <1>2, <1>3

(* A raw download writes all of the piece in hand, to where it belongs.    *)
LEMMA DirectRaw ==
    ASSUME DInv, ~flag_sparse, step = "direct",
           NEW k, k = d_direct_offset, NEW m, m = writeLen,
           NEW b, b = DIV_ROUND_UP(m, BLK)
    PROVE  /\ k \in Nat /\ m \in Nat /\ b \in Nat
           /\ m = length /\ m = Len(work) /\ d_direct_size = d_size - d_bytes
           /\ SubSeq(work, 1, m) = Slice(image, k * BLK, m)
           /\ k * BLK = d_bytes /\ k * BLK + m <= image.len
           /\ d_direct_size # m => b * BLK = m /\ (k + b) * BLK = d_bytes + m
           /\ d_direct_size = m => /\ k * BLK + m = image.len
                                  /\ k + b = DIV_ROUND_UP(image.len, BLK)
<1>1. /\ d_status = 0 /\ ~d_legacy /\ d_size # 0 /\ d_size = image.len /\ d_bytes < d_size
      /\ DTypeOK /\ At(d_bytes) /\ work = NextPiece /\ length = Len(NextPiece)
    BY DEF DInv, RawInv
<1>2. /\ Len(work) = Min2(TRANS, d_size - d_bytes) /\ work \in Seq(ByteType)
      /\ Len(work) \in Nat /\ Len(work) + d_bytes <= d_size
      /\ (Len(work) + d_bytes < d_size => Len(work) = TRANS)
    BY <1>1, NextPieceProps
<1>3. /\ d_direct_size = d_size - d_bytes /\ k * BLK = d_bytes /\ k \in Nat
      /\ d_size \in Nat /\ d_bytes \in Nat /\ image \in Images
    BY <1>1 DEF At, DTypeOK
<1>4. BLK \in Nat /\ BLK > 0 /\ TRANS \in Nat
    BY ImageDownloadAssumption
<1>5. m = Len(work)
  <2>1. CASE Len(work) >= d_direct_size
    BY <1>2, <1>3, <2>1 DEF writeLen
  <2>2. CASE ~ (Len(work) >= d_direct_size)
    <3>1. Len(work) = TRANS
      BY <1>2, <1>3, <2>2
    <3>2. m = (TRANS \div BLK) * BLK
      BY <2>2, <3>1 DEF writeLen
    <3> QED
      BY <3>1, <3>2, TransferSectors
  <2> QED
    BY <2>1, <2>2
<1>6. SubSeq(work, 1, m) = Slice(image, k * BLK, m)
  <2>1. work = Slice(image, d_bytes, m)
    BY <1>1, <1>2, <1>5 DEF NextPiece
  <2>2. SubSeq(work, 1, Len(work)) = work
    BY <1>2
  <2> QED
    BY <1>3, <1>5, <2>1, <2>2
<1>7. b \in Nat
    BY <1>2, <1>5, NeededSectors
<1>8. ASSUME d_direct_size # m PROVE b * BLK = m /\ (k + b) * BLK = d_bytes + m
  <2>1. m = TRANS
    BY <1>2, <1>3, <1>5, <1>8
  <2>2. b * BLK = m
    BY <2>1, TransferSectors
  <2>3. (k + b) * BLK = k * BLK + b * BLK
    BY <1>3, <1>4, <1>7
  <2> QED
    BY <1>3, <2>2, <2>3
<1>9. ASSUME d_direct_size = m
      PROVE  k * BLK + m = image.len /\ k + b = DIV_ROUND_UP(image.len, BLK)
  <2>1. k * BLK + m = image.len
    BY <1>1, <1>3, <1>9
  <2>2. m \in Nat
    BY <1>2, <1>5
  <2> QED
    BY <1>3, <2>1, <2>2, SectorsAdd
<1> QED
    BY <1>1, <1>2, <1>3, <1>5, <1>6, <1>7, <1>8, <1>9







---------------------------------------------------------------------------

LEMMA StepInv ==
    ASSUME DInv, [DNext]_dlVars
    PROVE  DInv'
(* Commands other than download happen between downloads only.             *)
<1>CommandInv.
      ASSUME DInv, Command, AnyPtn, AnyDisk
      PROVE  DInv'
  <2> USE <1>CommandInv
  <2>1. DOMAIN disk' = Partitions
      BY DEF AnyDisk
  <2>2. DTypeOK'
      BY <2>1 DEF DInv, DTypeOK, Command, AnyPtn, progress
  <2> QED
      BY <2>2 DEF DInv, Command, progress, RawNeverCached, RawInv
(* The download command starts from nothing received.                      *)
<1>DownloadInv.
      ASSUME DInv, NEW img \in Images, NEW legacy \in BOOLEAN, Download(img, legacy)
      PROVE  DInv'
  <2> USE <1>DownloadInv
  <2>1. img.len \in Nat
      BY ImageDownloadAssumption DEF ImageType
  <2>2. DTypeOK'
      BY <2>1 DEF DInv, DTypeOK, Download
  <2> QED
      BY <2>1, <2>2 DEF DInv, Download, RawNeverCached, RawInv
(* A refused download leaves none in progress.                             *)
<1>RefusedInv.
      ASSUME DInv, NEW legacy \in BOOLEAN, DownloadRefused(legacy)
      PROVE  DInv'
  <2> USE <1>RefusedInv
  <2>1. DTypeOK'
      BY DEF DInv, DTypeOK, DownloadRefused
  <2> QED
      BY <2>1 DEF DInv, DownloadRefused, RawNeverCached, RawInv
(* A restart forgets the download.                                         *)
<1>RestartInv.
      ASSUME DInv, Restart, AnyDisk
      PROVE  DInv'
  <2> USE <1>RestartInv
  <2>1. <<>> \in Seq(ByteType) /\ Len(<<>>) = 0 /\ BLK > 0 /\ DOMAIN disk' = Partitions
      BY EmptySeq, ImageDownloadAssumption DEF AnyDisk
  <2>2. DTypeOK'
      BY <2>1, Zenon DEF DInv, DTypeOK, Restart
  <2> QED
      BY <2>1, <2>2 DEF DInv, Restart, RawNeverCached, RawInv
(* A piece of a failed or finished download changes nothing but the count. *)
<1>ReceiveIgnored.
      ASSUME DInv, NEW buf \in Seq(ByteType), Receive(buf),
             d_legacy \/ d_status # 0
      PROVE  DInv'
  <2> USE <1>ReceiveIgnored
  <2>1. Len(buf) \in Nat
      BY LenProperties
  <2>2. /\ step = "idle" /\ step' = "done" /\ d_size # 0 /\ length' = Len(buf)
        /\ UNCHANGED <<image, pending_ptn, d_size, d_bytes, d_legacy, disk, flag_sparse,
                       sparse_cur_chunk, d_direct_size, d_direct_offset, d_cache, work>>
        /\ d_status' \in {d_status, -1}
      BY DEF Receive, handleDownload, Failed, progress
  <2>3. d_status <= 0 /\ d_status \in {-1, 0, 1}
      BY <2>2 DEF DInv, DTypeOK
  <2>4. d_legacy \/ d_status' = -1
      BY <2>2, <2>3
  <2>5. DTypeOK'
      BY <2>1, <2>2, <2>3 DEF DInv, DTypeOK
  <2>6. RawInv'
      BY <2>2, <2>4 DEF RawInv
  <2> QED
      BY <2>2, <2>3, <2>5, <2>6 DEF DInv, RawNeverCached
(* A piece of a running download: it is either refused for want of a       *)
(* partition or becomes the bytes in hand, after what was left over.       *)
<1>ReceiveRunning.
      ASSUME DInv, d_status = 0, ~d_legacy, Receive(NextPiece)
      PROVE  DInv'
  <2> USE <1>ReceiveRunning
  <2> DEFINE buf == NextPiece
  <2>1. /\ step = "idle" /\ d_size # 0 /\ length' = Len(buf)
        /\ UNCHANGED <<image, pending_ptn, d_size, d_bytes, d_legacy, disk>>
        /\ handleDownload(buf)
      BY DEF Receive
  <2>2. /\ buf \in Seq(ByteType) /\ Len(buf) \in Nat \ {0} /\ Len(buf) <= TRANS
        /\ Len(buf) + d_bytes <= d_size
        /\ (Len(buf) + d_bytes < d_size => Len(buf) = TRANS)
        /\ buf[1] = Byte(image, d_bytes + 1)
      BY <2>1, NextPieceProps
  <2>3. /\ DTypeOK /\ Len(d_cache) < BLK /\ RawNeverCached /\ RawInv
        /\ d_size = image.len /\ d_bytes < d_size
      BY <2>1 DEF DInv
  <2>4. /\ BLK \in Nat /\ BLK > 0 /\ TRANS \in Nat /\ FILEHDR \in Nat
        /\ <<>> \in Seq(ByteType) /\ Len(<<>>) = 0
      BY ImageDownloadAssumption, EmptySeq
  <2>5. NextPiece' = NextPiece
      BY <2>1 DEF NextPiece
  <2> HIDE DEF buf
  <2>6. CASE pending_ptn = NoPtn
    <3>1. /\ d_status' = -1 /\ step' = "done"
          /\ UNCHANGED <<flag_sparse, sparse_cur_chunk, d_direct_size, d_direct_offset,
                         d_cache, work>>
      BY <2>1, <2>6 DEF handleDownload, Failed
    <3>2. DTypeOK'
      BY <2>1, <2>2, <2>3, <3>1 DEF DTypeOK
    <3>3. RawInv'
      BY <3>1 DEF RawInv
    <3> QED
      BY <2>1, <2>3, <3>1, <3>2, <3>3 DEF DInv, RawNeverCached
  <2>7. CASE pending_ptn # NoPtn /\ d_bytes = 0
    <3>1. startDownload(buf)
      BY <2>1, <2>2, <2>3, <2>7 DEF handleDownload, DTypeOK
    <3>2. CONSUMED(buf, FILEHDR) \in Seq(ByteType)
      BY <2>2, <2>4, ConsumedProps
    <3>3. /\ d_status' = 0 /\ d_cache' = <<>> /\ step' \in {"direct", "chunk"}
          /\ sparse_cur_chunk' = 0 /\ d_direct_offset' = 0
          /\ d_direct_size' \in Nat /\ flag_sparse' \in BOOLEAN /\ work' \in Seq(ByteType)
      <4>1. CASE image.sparse /\ buf[1] = Byte(image, 1)
        BY <3>1, <3>2, <4>1 DEF startDownload
      <4>2. CASE ~ (image.sparse /\ buf[1] = Byte(image, 1))
        BY <2>2, <2>3, <3>1, <4>2, Zenon DEF startDownload, DTypeOK
      <4> QED
        BY <4>1, <4>2
    <3>4. DTypeOK'
      BY <2>1, <2>2, <2>3, <3>3 DEF DTypeOK
    <3>5. ~flag_sparse' => /\ step' = "direct" /\ d_direct_size' = d_size /\ work' = buf
                           /\ ~image.sparse
      <4>1. buf[1] = Byte(image, 1)
        BY <2>2, <2>7
      <4> QED
        BY <3>1, <4>1 DEF startDownload
    <3>6. RawInv'
      <4> SUFFICES ASSUME ~flag_sparse' PROVE RawInv'
        BY DEF RawInv
      <4>1. 0 * BLK = 0
        BY <2>4
      <4>2. At(d_bytes)'
        BY <2>1, <2>3, <2>7, <3>3, <3>5, <4>1 DEF At, Written, DTypeOK
      <4> QED
        BY <2>1, <2>5, <3>3, <3>5, <4>2 DEF RawInv, buf
    <3> QED
      BY <2>1, <2>3, <2>4, <2>7, <3>3, <3>4, <3>6 DEF DInv, RawNeverCached, DTypeOK
  <2>8. CASE pending_ptn # NoPtn /\ d_bytes # 0
    <3>1. Len(d_cache) \in Nat
      BY <2>3, LenProperties DEF DTypeOK
    <3>2. ~ (Len(buf) + Len(d_cache) > TRANS + BLK)
      BY <2>2, <2>3, <2>4, <3>1
    <3>3. /\ work' = d_cache \o buf /\ d_cache' = <<>>
          /\ step' = IF flag_sparse /\ d_direct_size = 0 THEN "chunk" ELSE "direct"
          /\ UNCHANGED <<d_status, flag_sparse, sparse_cur_chunk, d_direct_size, d_direct_offset>>
      BY <2>1, <2>2, <2>3, <2>8, <3>2 DEF handleDownload, DTypeOK, progress
    <3>4. work' \in Seq(ByteType)
      BY <2>2, <2>3, <3>3, ConcatProperties DEF DTypeOK
    <3>5. DTypeOK'
      BY <2>1, <2>2, <2>3, <2>4, <3>3, <3>4 DEF DTypeOK
    <3>6. RawInv'
      <4> SUFFICES ASSUME ~flag_sparse PROVE RawInv'
        BY <3>3 DEF RawInv
      <4>1. work' = buf /\ step' = "direct"
        BY <2>2, <2>3, <3>3, ConcatEmptySeq DEF RawNeverCached
      <4>2. At(d_bytes)
        BY <2>1, <2>3, <2>8 DEF RawInv, DTypeOK
      <4>3. At(d_bytes)'
        BY <2>1, <3>3, <4>2 DEF At, Written
      <4> QED
        BY <2>1, <2>5, <4>1, <4>3 DEF RawInv, buf
    <3> QED
      BY <2>1, <2>3, <2>4, <2>8, <3>3, <3>5, <3>6 DEF DInv, RawNeverCached, DTypeOK
  <2> QED
      BY <2>6, <2>7, <2>8
(* One write, or its failure.                                              *)
<1>DirectInv.
      ASSUME DInv, NEW ok \in BOOLEAN, handleDirectDownload(ok)
      PROVE  DInv'
  <2> USE <1>DirectInv
  <2>0. PICK k, m, b, rest : /\ k = d_direct_offset /\ m = writeLen
                            /\ b = DIV_ROUND_UP(m, BLK) /\ rest = CONSUMED(work, m)
      OBVIOUS
  <2>1. /\ step = "direct" /\ DTypeOK /\ d_cache = <<>> /\ d_status = 0 /\ ~d_legacy
        /\ pending_ptn \in Partitions /\ d_size # 0 /\ d_size = image.len /\ d_bytes < d_size
        /\ UNCHANGED <<image, pending_ptn, d_size, d_bytes, d_legacy, length>>
      BY DEF handleDirectDownload, DInv
  <2>2. /\ m \in Nat /\ m <= Len(work) /\ m <= d_direct_size
        /\ d_direct_size # m => Len(work) - m < BLK
      BY <2>0, <2>1, WriteLenProps
  <2>3. b \in Nat /\ k \in Nat /\ d_direct_size \in Nat
      BY <2>0, <2>1, <2>2, NeededSectors DEF DTypeOK
  <2>4. /\ rest \in Seq(ByteType) /\ Len(rest) = Len(work) - m
        /\ (m = Len(work) => rest = <<>>)
      BY <2>0, <2>1, <2>2, ConsumedProps, Zenon DEF DTypeOK
  <2>5. <<>> \in Seq(ByteType) /\ Len(<<>>) = 0 /\ BLK > 0
      BY EmptySeq, ImageDownloadAssumption
  <2>6. CASE ~ok /\ b # 0
    <3>1. /\ d_status' = -1 /\ step' = "done" /\ work' = <<>>
          /\ UNCHANGED <<flag_sparse, sparse_cur_chunk, d_direct_size, d_direct_offset,
                         d_cache, disk>>
      BY <2>0, <2>6 DEF handleDirectDownload, Failed
    <3>2. DTypeOK'
      BY <2>1, <2>5, <3>1 DEF DTypeOK
    <3>3. RawInv'
      BY <3>1 DEF RawInv
    <3> QED
      BY <2>1, <2>5, <3>1, <3>2, <3>3 DEF DInv, RawNeverCached
  <2>7. CASE ~ (~ok /\ b # 0)
    <3>0. PICK new : new = Store(disk[pending_ptn], k, b, SubSeq(work, 1, m))
      OBVIOUS
    <3>1. /\ disk' = [disk EXCEPT ![pending_ptn] = new]
          /\ d_direct_offset' = k + b /\ d_direct_size' = d_direct_size - m
          /\ UNCHANGED <<flag_sparse, sparse_cur_chunk>>
          /\ IF d_direct_size' # 0
             THEN d_cache' = rest /\ work' = <<>> /\ step' = "done" /\ UNCHANGED d_status
             ELSE IF flag_sparse
             THEN work' = rest /\ step' = "chunk" /\ UNCHANGED <<d_cache, d_status>>
             ELSE work' = <<>> /\ step' = "done" /\ d_status' = 1 /\ UNCHANGED d_cache
      BY <2>0, <2>7, <3>0 DEF handleDirectDownload
    <3>2. disk'[pending_ptn] = new /\ DOMAIN disk' = Partitions
      BY <2>1, <3>1 DEF DTypeOK
    <3>3. d_direct_size' \in Nat /\ d_direct_offset' \in Nat
      BY <2>2, <2>3, <3>1
    <3>4. /\ d_cache' \in Seq(ByteType) /\ work' \in Seq(ByteType) /\ d_status' \in {0, 1}
          /\ step' \in {"done", "chunk"}
      BY <2>1, <2>4, <2>5, <3>1, Zenon
    <3>5. DTypeOK'
      BY <2>1, <3>1, <3>2, <3>3, <3>4 DEF DTypeOK
    <3>6. Len(d_cache') < BLK
      <4>1. CASE d_direct_size' # 0
        BY <2>2, <2>3, <2>4, <3>1, <4>1
      <4>2. CASE d_direct_size' = 0
        BY <2>1, <2>5, <3>1, <4>2
      <4> QED
        BY <4>1, <4>2
    <3>7. CASE flag_sparse
      <4>1. RawInv' /\ RawNeverCached'
        BY <3>1, <3>7 DEF RawInv, RawNeverCached
      <4>2. step' = "chunk" => d_cache' = <<>> /\ d_status' = 0
        BY <2>1, <3>1, <3>7
      <4>3. d_status' = 0
        BY <2>1, <3>1, <3>7
      <4> QED
        BY <2>1, <3>4, <3>5, <3>6, <4>1, <4>2, <4>3 DEF DInv
    <3>8. CASE ~flag_sparse
      <4>1. /\ m = length /\ m = Len(work) /\ d_direct_size = d_size - d_bytes
            /\ SubSeq(work, 1, m) = Slice(image, k * BLK, m)
            /\ k * BLK = d_bytes /\ k * BLK + m <= image.len
            /\ (d_direct_size # m => b * BLK = m /\ (k + b) * BLK = d_bytes + m)
            /\ (d_direct_size = m => /\ k * BLK + m = image.len
                                     /\ k + b = DIV_ROUND_UP(image.len, BLK))
        BY <2>0, <2>1, <3>8, DirectRaw
      <4>2. At(d_bytes)
        BY <2>1, <3>8 DEF DInv, RawInv
      <4>3. \A s \in 0..(k + b - 1) :
              /\ s \in DOMAIN new
              /\ new[s] = Slice(image, s * BLK, Min2(BLK, image.len - s * BLK))
        <5> TAKE s \in 0..(k + b - 1)
        <5>1. CASE s \in 0..(k - 1)
          <6>1. /\ s \in DOMAIN disk[pending_ptn]
                /\ disk[pending_ptn][s] = Slice(image, s * BLK, Min2(BLK, image.len - s * BLK))
            BY <2>0, <4>2, <5>1 DEF At, Written
          <6>2. s \notin k..(k + b - 1)
            BY <2>3, <5>1
          <6> QED
            BY <3>0, <6>1, <6>2 DEF Store
        <5>2. CASE s \in k..(k + b - 1)
          <6>1. b * BLK = m \/ k * BLK + m = image.len
            BY <4>1
          <6>2. image \in Images /\ b = DIV_ROUND_UP(m, BLK)
            BY <2>0, <2>1 DEF DTypeOK
          <6>3. new = Store(disk[pending_ptn], k, b, Slice(image, k * BLK, m))
            BY <3>0, <4>1, Zenon
          <6>4. k * BLK + m <= image.len
            BY <4>1
          <6> QED
            BY <2>2, <2>3, <5>2, <6>1, <6>2, <6>3, <6>4, StoreRaw
        <5> QED
          BY <2>3, <5>1, <5>2
      <4>6. /\ image' = image /\ pending_ptn' = pending_ptn /\ disk'[pending_ptn'] = new
            /\ d_direct_offset' = k + b
        BY <2>1, <3>1, <3>2
      <4>7. \A s \in 0..(d_direct_offset' - 1) :
              /\ s \in DOMAIN disk'[pending_ptn']
              /\ disk'[pending_ptn'][s] = Slice(image', s * BLK, Min2(BLK, image'.len - s * BLK))
        BY <2>3, <4>3, <4>6
      <4>4. CASE d_direct_size' # 0
        <5>1. d_direct_size # m
          BY <2>2, <2>3, <3>1, <4>4
        <5>2. d_cache' = <<>> /\ step' = "done" /\ d_status' = 0
          BY <2>1, <2>4, <3>1, <4>1, <4>4
        <5>3. d_bytes' + length' < d_size' /\ At(d_bytes + length)'
          <6>1. d_bytes + m < d_size
            BY <2>1, <2>2, <2>3, <4>1, <5>1 DEF DTypeOK
          <6>2. d_direct_size' = d_size - (d_bytes + m) /\ d_direct_offset' * BLK = d_bytes + m
            BY <2>1, <2>2, <2>3, <3>1, <4>1, <5>1 DEF DTypeOK
          <6>3. ~image.sparse
            BY <4>2 DEF At
          <6>4. Written(d_direct_offset)'
            BY <4>7 DEF Written
          <6> QED
            BY <2>1, <4>1, <6>1, <6>2, <6>3, <6>4 DEF At
        <5>4. RawInv' /\ RawNeverCached'
          BY <5>2, <5>3 DEF RawInv, RawNeverCached
        <5> QED
          BY <2>1, <3>4, <3>5, <3>6, <5>2, <5>4 DEF DInv
      <4>5. CASE d_direct_size' = 0
        <5>1. d_direct_size = m
          BY <2>2, <2>3, <3>1, <4>5
        <5>2. d_cache' = <<>> /\ step' = "done" /\ d_status' = 1
          BY <2>1, <3>1, <3>8, <4>5
        <5>3. Written(DIV_ROUND_UP(image.len, BLK))' /\ ~image'.sparse
          <6>1. DIV_ROUND_UP(image'.len, BLK) = d_direct_offset'
            BY <2>1, <3>1, <4>1, <5>1
          <6>2. Written(DIV_ROUND_UP(image.len, BLK))'
            BY <4>7, <6>1 DEF Written
          <6> QED
            BY <2>1, <4>2, <6>2 DEF At
        <5>4. RawInv' /\ RawNeverCached'
          BY <5>2, <5>3 DEF RawInv, RawNeverCached
        <5> QED
          BY <2>1, <3>4, <3>5, <3>6, <5>2, <5>4 DEF DInv
      <4> QED
        BY <4>4, <4>5
    <3> QED
      BY <3>7, <3>8
  <2> QED
      BY <2>6, <2>7
(* A chunk header names a length, whatever it says otherwise.              *)
<1>ChunkProps.
    ASSUME DTypeOK, NEW byte
    PROVE  ChunkAt(byte).len \in Nat
  <2> USE <1>ChunkProps
  <2> DEFINE at == {k \in 1..Len(image.chunks) : byte = Byte(image, HeaderAt(image)[k] + 1)}
  <2>1. image.chunks \in Seq(ChunkType)
      BY ImageDownloadAssumption DEF DTypeOK, ImageType
  <2>2. CASE at = {}
      BY <2>2 DEF ChunkAt
  <2>3. CASE at # {}
    <3>1. (CHOOSE k \in at : TRUE) \in at
      BY <2>3
    <3>2. (CHOOSE k \in at : TRUE) \in 1..Len(image.chunks)
      BY <3>1, Zenon
    <3>3. image.chunks[CHOOSE k \in at : TRUE] \in ChunkType
      BY <2>1, <3>2, ElementOfSeq, Zenon
    <3>4. ChunkAt(byte) = image.chunks[CHOOSE k \in at : TRUE]
      BY <2>3 DEF ChunkAt
    <3> QED
      BY <3>3, <3>4 DEF ChunkType
  <2> QED
      BY <2>2, <2>3
(* The chunk loop only runs for a sparse image; what it puts into the      *)
(* cache is less than a chunk header.                                      *)
<1>ChunkInv.
    ASSUME DInv, handleSparseDownload
    PROVE  DInv'
  <2> USE <1>ChunkInv
  <2>1. /\ DTypeOK /\ step = "chunk" /\ d_cache = <<>> /\ d_status = 0 /\ ~d_legacy
        /\ pending_ptn \in Partitions /\ d_size # 0 /\ d_size = image.len
        /\ d_bytes < d_size /\ Len(d_cache) < BLK
        /\ UNCHANGED <<image, pending_ptn, d_size, d_bytes, d_legacy, length, disk>>
      BY DEF DInv, handleSparseDownload
  <2>2. flag_sparse
      BY <2>1 DEF DInv, RawInv, DTypeOK
  <2>3. flag_sparse'
      BY <2>2, Zenon DEF handleSparseDownload, progress
  <2>4. PICK c, rest : c = ChunkAt(work[1]) /\ rest = CONSUMED(work, CHUNKHDR)
      OBVIOUS
  <2>5. c.len \in Nat
      BY <2>1, <2>4, <1>ChunkProps
  <2>6. PICK n : n = c.len \div BLK
      OBVIOUS
  <2>7. n \in Nat
      BY <2>5, <2>6, WholeSectors
  <2>8. <<>> \in Seq(ByteType) /\ Len(<<>>) = 0 /\ BLK > 0 /\ CHUNKHDR \in Nat /\ CHUNKHDR <= BLK
        /\ BLK \in Nat
      BY EmptySeq, ImageDownloadAssumption
  <2>9. Len(work) >= CHUNKHDR => rest \in Seq(ByteType)
      BY <2>1, <2>4, <2>8, ConsumedProps DEF DTypeOK
  <2>10. /\ work' \in Seq(ByteType) /\ d_cache' \in Seq(ByteType) /\ Len(d_cache') < BLK
         /\ d_status' \in {-1, 0, 1} /\ sparse_cur_chunk' \in Nat
         /\ d_direct_size' \in Nat /\ d_direct_offset' \in Nat
         /\ step' \in {"direct", "chunk", "done"}
         /\ (step' \in {"direct", "chunk"} => d_cache' = <<>> /\ d_status' = 0)
    <3> USE <2>1
    <3>1. CASE sparse_cur_chunk >= Len(image.chunks)
      BY <2>8, <3>1, Zenon DEF handleSparseDownload, DTypeOK
    <3>2. CASE ~(sparse_cur_chunk >= Len(image.chunks)) /\ Len(work) < CHUNKHDR
      <4>1. /\ d_cache' = work /\ work' = <<>> /\ step' = "done"
            /\ UNCHANGED <<d_status, sparse_cur_chunk, d_direct_size, d_direct_offset>>
        BY <3>2 DEF handleSparseDownload, progress
      <4>2. Len(work) \in Nat
        BY LenProperties DEF DTypeOK
      <4> QED
        BY <2>8, <3>2, <4>1, <4>2 DEF DTypeOK
    <3>3. CASE ~(sparse_cur_chunk >= Len(image.chunks)) /\ ~(Len(work) < CHUNKHDR)
      <4>1. /\ sparse_cur_chunk' = sparse_cur_chunk + 1 /\ UNCHANGED d_cache
            /\ \/ /\ d_direct_size' = c.len /\ step' = "direct" /\ work' = rest
                  /\ UNCHANGED <<d_status, d_direct_offset>>
               \/ /\ d_direct_offset' = d_direct_offset + n /\ work' = rest
                  /\ UNCHANGED <<d_status, d_direct_size, step>>
               \/ /\ d_status' = -1 /\ step' = "done" /\ work' = <<>>
                  /\ UNCHANGED <<d_direct_size, d_direct_offset>>
        BY <2>4, <2>6, <3>3 DEF handleSparseDownload
      <4>2. rest \in Seq(ByteType)
        <5>1. Len(work) \in Nat
          BY LenProperties DEF DTypeOK
        <5> QED
          BY <2>8, <2>9, <3>3, <5>1
      <4>3. /\ sparse_cur_chunk' \in Nat /\ d_cache' = <<>>
            /\ d_direct_size' \in Nat /\ d_direct_offset' \in Nat
        BY <2>5, <2>7, <4>1 DEF DTypeOK
      <4>4. /\ work' \in Seq(ByteType) /\ step' \in {"direct", "chunk", "done"}
            /\ d_status' \in {-1, 0} /\ (step' \in {"direct", "chunk"} => d_status' = 0)
        BY <2>8, <4>1, <4>2, Zenon
      <4> QED
        BY <2>8, <4>3, <4>4
    <3> QED
      BY <3>1, <3>2, <3>3
  <2>11. DTypeOK'
      BY <2>1, <2>3, <2>10 DEF DTypeOK
  <2>12. RawInv' /\ RawNeverCached'
      BY <2>3 DEF RawInv, RawNeverCached
  <2> QED
      BY <2>1, <2>10, <2>11, <2>12 DEF DInv
(* Counting the piece keeps the counters with the medium.                  *)
<1>FinishInv.
    ASSUME DInv, Finish
    PROVE  DInv'
  <2> USE <1>FinishInv
  <2>1. /\ DTypeOK /\ step = "done" /\ step' = "idle" /\ d_size # 0 /\ d_size = image.len
        /\ Len(d_cache) < BLK /\ RawNeverCached
        /\ UNCHANGED <<image, pending_ptn, d_legacy, d_status, flag_sparse,
                       sparse_cur_chunk, d_direct_size, d_direct_offset, d_cache, work,
                       length, disk>>
      BY DEF DInv, Finish, progress
  <2>2. RawNeverCached'
      BY <2>1 DEF RawNeverCached
  <2>3. CASE ~moreToCome
    <3>1. d_size' = 0 /\ d_bytes' = d_bytes + length
      BY <2>1, <2>3 DEF Finish, DTypeOK
    <3>2. DTypeOK'
      BY <2>1, <3>1 DEF DTypeOK
    <3>3. RawInv'
      BY <3>1 DEF RawInv
    <3> QED
      BY <2>1, <2>2, <3>1, <3>2, <3>3 DEF DInv
  <2>4. CASE moreToCome /\ d_status < 0
    <3>1. d_size' = d_size /\ d_bytes' = d_bytes + length + length /\ d_status' # 0 /\ d_status' <= 0
      BY <2>1, <2>4 DEF Finish, DTypeOK
    <3>2. DTypeOK'
      BY <2>1, <3>1 DEF DTypeOK
    <3>3. RawInv'
      BY <2>1, <3>1 DEF RawInv
    <3> QED
      BY <2>1, <2>2, <3>1, <3>2, <3>3 DEF DInv
  <2>5. CASE moreToCome /\ d_status = 0
    <3>1. d_size' = d_size /\ d_bytes' = d_bytes + length /\ d_bytes' < d_size
      BY <2>1, <2>5 DEF Finish, DTypeOK, moreToCome
    <3>2. DTypeOK'
      BY <2>1, <3>1 DEF DTypeOK
    <3>3. ~flag_sparse /\ ~d_legacy => At(d_bytes + length)
      BY <2>1, <2>5 DEF DInv, RawInv
    <3>4. Written(d_direct_offset) => Written(d_direct_offset)'
      BY <2>1 DEF Written
    <3>5. ~flag_sparse' /\ ~d_legacy' => At(d_bytes)'
      BY <2>1, <3>1, <3>3, <3>4 DEF At
    <3>6. RawInv'
      BY <2>1, <3>5 DEF RawInv
    <3> QED
      BY <2>1, <2>2, <2>5, <3>1, <3>2, <3>6 DEF DInv
  <2> QED
      BY <2>1, <2>3, <2>4, <2>5 DEF moreToCome, DTypeOK
<1>1. CASE Command /\ AnyPtn /\ AnyDisk
    BY <1>1, <1>CommandInv
<1>2. CASE \E img \in Images, legacy \in BOOLEAN : Download(img, legacy)
    BY <1>2, <1>DownloadInv
<1>3. CASE \E legacy \in BOOLEAN : DownloadRefused(legacy)
    BY <1>3, <1>RefusedInv
<1>4. CASE d_status = 0 /\ Receive(NextPiece)
  <2>1. d_size # 0
    BY <1>4 DEF Receive
  <2>2. NextPiece \in Seq(ByteType)
    BY <1>4, <2>1, NextPieceProps
  <2>3. CASE d_legacy
    BY <1>4, <2>2, <2>3, <1>ReceiveIgnored
  <2>4. CASE ~d_legacy
    BY <1>4, <2>4, <1>ReceiveRunning
  <2> QED
    BY <2>3, <2>4
<1>5. CASE d_status # 0 /\ \E n \in 1..TRANS : Receive(Slice(image, 0, n))
  <2>1. PICK n \in 1..TRANS : Receive(Slice(image, 0, n))
    BY <1>5
  <2>2. image \in Images /\ n \in Nat
    BY ImageDownloadAssumption DEF DInv, DTypeOK
  <2>3. Slice(image, 0, n) \in Seq(ByteType)
    BY <2>2, SliceProps
  <2> QED
    BY <1>5, <2>1, <2>3, <1>ReceiveIgnored
<1>6. CASE \E ok \in BOOLEAN : handleDirectDownload(ok)
    BY <1>6, <1>DirectInv
<1>7. CASE handleSparseDownload
    BY <1>7, <1>ChunkInv
<1>8. CASE Finish
    BY <1>8, <1>FinishInv
<1>9. CASE Restart /\ AnyDisk
    BY <1>9, <1>RestartInv
<1>10. CASE UNCHANGED dlVars
  <2>1. /\ DTypeOK' /\ RawNeverCached'
    BY <1>10 DEF DInv, DTypeOK, RawNeverCached, dlVars, progress
  <2>2. NextPiece' = NextPiece
    BY <1>10 DEF NextPiece, dlVars
  <2>3. /\ At(d_bytes) => At(d_bytes)'
        /\ At(d_bytes + length) => At(d_bytes + length)'
        /\ Written(DIV_ROUND_UP(image.len, BLK)) => Written(DIV_ROUND_UP(image.len, BLK))'
    BY <1>10 DEF At, Written, dlVars, progress
  <2>4. RawInv'
    BY <1>10, <2>2, <2>3 DEF DInv, RawInv, dlVars, progress
  <2> QED
    BY <1>10, <2>1, <2>4 DEF DInv, dlVars, progress
<1> QED
    BY <1>1, <1>2, <1>3, <1>4, <1>5, <1>6, <1>7, <1>8, <1>9, <1>10 DEF DNext

(* The state of a download is sound at every moment, whatever the images,  *)
(* the sizes and the outcome of each write: the bytes rkimage.c has counted *)
(* are those on the medium, and what it has left over is less than a       *)
(* sector.                                                                 *)
THEOREM DownloadSound == DSpec => []DInv
<1>1. DInit => DInv
    BY InitInv
<1>2. DInv /\ [DNext]_dlVars => DInv'
    BY StepInv
<1> QED
    BY <1>1, <1>2, PTL DEF DSpec

(* The next piece always fits d_cache: rkimage_handleDownload never gives a *)
(* download up with "something wrong with d_cache".                        *)
THEOREM CacheAlwaysFits == DSpec => []CacheFits
<1>1. DInv => CacheFits
    BY DEF DInv, CacheFits
<1> QED
    BY <1>1, DownloadSound, PTL

(* rkimage_handleDownload never has bytes of a raw image left over.        *)
THEOREM RawIsNeverCached == DSpec => []RawNeverCached
<1>1. DInv => RawNeverCached
    BY DEF DInv
<1> QED
    BY <1>1, DownloadSound, PTL

(* The invariant says that a raw download called complete is on the medium. *)
LEMMA InvRawComplete ==
    ASSUME DInv
    PROVE  RawComplete
<1> SUFFICES ASSUME step = "done", d_status = 1, ~flag_sparse, ~d_legacy
             PROVE  Holds(disk[pending_ptn], image)
  BY DEF RawComplete
<1>1. ~image.sparse /\ Written(DIV_ROUND_UP(image.len, BLK))
  BY DEF DInv, RawInv
<1> DEFINE S == {s \in 0..image.len : s * BLK < image.len}
           F == [s \in S |-> Slice(image, s * BLK, Min2(BLK, image.len - s * BLK))]
           n == DIV_ROUND_UP(image.len, BLK)
<1>2. Expected(image) = F
  BY <1>1 DEF Expected
<1>3. \A s \in DOMAIN F : s \in DOMAIN disk[pending_ptn] /\ disk[pending_ptn][s] = F[s]
  <2> TAKE s \in S
  <2>1. image.len \in Nat /\ BLK \in Nat /\ BLK > 0
    BY ImageDownloadAssumption DEF DInv, DTypeOK, ImageType
  <2>2. n \in Nat /\ image.len <= n * BLK
    BY <2>1, NeededSectors
  <2> HIDE DEF n
  <2>3. s \in Nat /\ s * BLK < n * BLK
    BY <2>1, <2>2
  <2>4. s \in 0..(n - 1)
    <3>1. SUFFICES ASSUME s >= n PROVE FALSE
      BY <2>2, <2>3
    <3>2. s * BLK = n * BLK + (s - n) * BLK /\ (s - n) * BLK >= 0
      BY <2>1, <2>2, <2>3, <3>1
    <3> QED
      BY <2>1, <2>2, <2>3, <3>2
  <2>5. Written(n)
    BY <1>1 DEF n
  <2> QED
    BY <2>4, <2>5 DEF Written
<1> QED
  BY <1>2, <1>3 DEF Holds

(* A raw download that rkimage.c calls complete is on the medium, every    *)
(* byte in its place, the last short sector included.                      *)
THEOREM RawIsComplete == DSpec => []RawComplete
    BY InvRawComplete, DownloadSound, PTL

-----------------------------------------------------------------------------
(* Induction, for sets.                                                    *)

(* A set of numbers with 0 in it that is closed under +1 holds them all.   *)
LEMMA SetInduction ==
    ASSUME NEW S, 0 \in S, \A n \in Nat : n \in S => n + 1 \in S
    PROVE  \A n \in Nat : n \in S
<1> DEFINE Bad == Nat \ S
           R == OpToRel(<, Nat)
<1> SUFFICES ASSUME Bad # {} PROVE FALSE
    OBVIOUS
<1>1. IsWellFoundedOn(R, Nat)
    BY NatLessThanWellFounded, Zenon
<1>2. \A m, n \in Nat : m < n => <<m, n>> \in R
    BY DEF OpToRel
<1> HIDE DEF R
<1>3. PICK n \in Bad : \A m \in Bad : ~ (<<m, n>> \in R)
    BY <1>1, WFMin, Zenon
<1>4. n \in Nat /\ n \notin S /\ n # 0
    OBVIOUS
<1>5. n - 1 \in Nat /\ n - 1 < n /\ (n - 1) + 1 = n
    BY <1>4
<1>6. n - 1 \in S
    BY <1>2, <1>3, <1>4, <1>5, Zenon
<1> QED
    BY <1>4, <1>5, <1>6

(* f is b plus the first values of e.                                      *)
IsSum(f, b, e) == f = [k \in Nat |-> IF k <= 1 THEN b ELSE f[k - 1] + e[k - 1]]

(* A running sum exists as a function.                                     *)
LEMMA RunningSum ==
    ASSUME NEW b, NEW e
    PROVE  \E f : IsSum(f, b, e)
<1> DEFINE Upto(n, g) == g = [k \in 0..n |-> IF k <= 1 THEN b ELSE g[k - 1] + e[k - 1]]
<1>1. \A n \in Nat : \E g : Upto(n, g)
  <2> DEFINE S == {n \in Nat : \E g : Upto(n, g)}
  <2>1. 0 \in S
    <3> DEFINE g == [k \in 0..0 |-> b]
    <3>1. Upto(0, g)
      OBVIOUS
    <3> QED
      BY <3>1, Zenon
  <2>2. ASSUME NEW n \in Nat, n \in S PROVE n + 1 \in S
    <3>1. PICK g : Upto(n, g)
      BY <2>2
    <3> DEFINE h == [k \in 0..(n + 1) |-> IF k <= 1 THEN b ELSE g[k - 1] + e[k - 1]]
    <3>2. \A k \in 0..n : h[k] = g[k]
      BY <3>1
    <3>3. ASSUME NEW k \in 0..(n + 1), ~ (k <= 1) PROVE h[k - 1] = g[k - 1]
      <4>1. k - 1 \in 0..n
        BY <3>3
      <4> HIDE DEF h
      <4> QED
        BY <3>2, <4>1
    <3>4. Upto(n + 1, h)
      BY <3>3, Zenon
    <3>5. \E u : Upto(n + 1, u)
      BY <3>4, Zenon
    <3> QED
      BY <3>5
  <2>3. \A n \in Nat : n \in S
    <3> HIDE DEF S
    <3> QED
      BY <2>1, <2>2, SetInduction
  <2> QED
    BY <2>3, Zenon
<1>2. ASSUME NEW n \in Nat, NEW m \in Nat, NEW g, NEW h, Upto(n, g), Upto(m, h)
      PROVE  \A k \in Nat : k <= n /\ k <= m => g[k] = h[k]
  <2> DEFINE S == {k \in Nat : k <= n /\ k <= m => g[k] = h[k]}
  <2>1. 0 \in S
    BY <1>2
  <2>2. ASSUME NEW k \in Nat, k \in S PROVE k + 1 \in S
    BY <1>2, <2>2
  <2>3. \A k \in Nat : k \in S
    <3> HIDE DEF S
    <3> QED
      BY <2>1, <2>2, SetInduction
  <2> QED
    BY <2>3
<1> DEFINE G(n) == CHOOSE g : Upto(n, g)
           f == [k \in Nat |-> G(k)[k]]
<1>3. \A n \in Nat : Upto(n, G(n))
    BY <1>1, Zenon
<1> HIDE DEF G
<1>4. \A n \in Nat : G(n)[n] = IF n <= 1 THEN b ELSE G(n)[n - 1] + e[n - 1]
    BY <1>3
<1>5. ASSUME NEW n \in Nat, ~ (n <= 1) PROVE G(n)[n - 1] = G(n - 1)[n - 1]
  <2>1. n - 1 \in Nat /\ n - 1 <= n /\ n - 1 <= n - 1
    BY <1>5
  <2>2. Upto(n, G(n)) /\ Upto(n - 1, G(n - 1))
    BY <1>3, <2>1
  <2> HIDE DEF Upto
  <2> QED
    BY <1>2, <2>1, <2>2
<1>6. IsSum(f, b, e)
    BY <1>4, <1>5 DEF IsSum
<1> QED
    BY <1>6

(* The positions of the chunk headers satisfy their recursion.             *)
LEMMA HeaderRec ==
    ASSUME NEW img
    PROVE  \A k \in Nat : HeaderAt(img)[k] =
              IF k <= 1 THEN FILEHDR
              ELSE HeaderAt(img)[k - 1] + (CHUNKHDR + RawLen(img.chunks[k - 1]))
<1> DEFINE e == [j \in Nat |-> CHUNKHDR + RawLen(img.chunks[j])]
           P(f) == f = [k \in Nat |-> IF k <= 1 THEN FILEHDR
                         ELSE f[k - 1] + (CHUNKHDR + RawLen(img.chunks[k - 1]))]
<1>1. PICK f : IsSum(f, FILEHDR, e)
  <2> HIDE DEF e
  <2> QED
    BY RunningSum
<1>2. P(f)
    BY <1>1 DEF IsSum
<1>3. HeaderAt(img) = CHOOSE g : P(g)
    BY DEF HeaderAt
<1>4. P(CHOOSE g : P(g))
    BY <1>2
<1>5. P(HeaderAt(img))
    BY <1>3, <1>4
<1> QED
    BY <1>5

(* So do the positions on the medium.                                      *)
LEMMA OutRec ==
    ASSUME NEW img
    PROVE  \A k \in Nat : OutAt(img)[k] =
              IF k <= 1 THEN 0
              ELSE OutAt(img)[k - 1] + img.chunks[k - 1].len \div BLK
<1> DEFINE e == [j \in Nat |-> img.chunks[j].len \div BLK]
           P(f) == f = [k \in Nat |-> IF k <= 1 THEN 0
                         ELSE f[k - 1] + img.chunks[k - 1].len \div BLK]
<1>1. PICK f : IsSum(f, 0, e)
  <2> HIDE DEF e
  <2> QED
    BY RunningSum
<1>2. P(f)
    BY <1>1 DEF IsSum
<1>3. OutAt(img) = CHOOSE g : P(g)
    BY DEF OutAt
<1>4. P(CHOOSE g : P(g))
    BY <1>2
<1>5. P(OutAt(img))
    BY <1>3, <1>4
<1> QED
    BY <1>5

-----------------------------------------------------------------------------
(* Where chunks lie.                                                       *)

(* One chunk after the other, in the image and on the medium.              *)
LEMMA ChunkSteps ==
    ASSUME NEW img \in Images, img.sparse
    PROVE  LET H == HeaderAt(img)
               O == OutAt(img)
               N == Len(img.chunks)
           IN  /\ N \in Nat \ {0} /\ img.chunks \in Seq(ChunkType) /\ img.len = H[N + 1]
               /\ H[1] = FILEHDR /\ O[1] = 0
               /\ \A k \in 1..N :
                    /\ img.chunks[k].len \in Nat
                    /\ img.chunks[k].len = (img.chunks[k].len \div BLK) * BLK
                    /\ RawLen(img.chunks[k]) \in {0, img.chunks[k].len}
                    /\ H[k + 1] = H[k] + (CHUNKHDR + RawLen(img.chunks[k]))
                    /\ O[k + 1] = O[k] + img.chunks[k].len \div BLK
                    /\ H[k] + 1 \notin img.zeros
<1>1. img \in ImageType /\ WellFormed(img) /\ BLK \in Nat \ {0}
    BY ImageDownloadAssumption
<1>2. img.chunks \in Seq(ChunkType) /\ img.chunks # <<>>
    BY <1>1 DEF ImageType, WellFormed
<1>3. Len(img.chunks) \in Nat \ {0} /\ DOMAIN img.chunks = 1..Len(img.chunks)
    BY <1>2
<1>4. HeaderAt(img)[1] = FILEHDR /\ OutAt(img)[1] = 0
    BY HeaderRec, OutRec
<1>5. img.len = HeaderAt(img)[Len(img.chunks) + 1]
    BY <1>1 DEF WellFormed
<1>6. ASSUME NEW k \in 1..Len(img.chunks)
      PROVE  /\ img.chunks[k].len \in Nat
             /\ img.chunks[k].len = (img.chunks[k].len \div BLK) * BLK
             /\ RawLen(img.chunks[k]) \in {0, img.chunks[k].len}
             /\ HeaderAt(img)[k + 1] = HeaderAt(img)[k] + (CHUNKHDR + RawLen(img.chunks[k]))
             /\ OutAt(img)[k + 1] = OutAt(img)[k] + img.chunks[k].len \div BLK
             /\ HeaderAt(img)[k] + 1 \notin img.zeros
  <2>1. img.chunks[k] \in ChunkType
    BY <1>2, <1>3
  <2>2. img.chunks[k].len \in Nat
    BY <2>1 DEF ChunkType
  <2>3. img.chunks[k].len % BLK = 0 /\ HeaderAt(img)[k] + 1 \notin img.zeros
    BY <1>1, <1>3 DEF WellFormed
  <2>4. \A n \in Nat : n % BLK = 0 => n = (n \div BLK) * BLK
    BY <1>1
  <2>5. k + 1 \in Nat /\ ~ (k + 1 <= 1) /\ (k + 1) - 1 = k
    BY <1>3
  <2>6. /\ HeaderAt(img)[k + 1] = HeaderAt(img)[k] + (CHUNKHDR + RawLen(img.chunks[k]))
        /\ OutAt(img)[k + 1] = OutAt(img)[k] + img.chunks[k].len \div BLK
    BY <2>5, HeaderRec, OutRec
  <2> QED
    BY <2>2, <2>3, <2>4, <2>6 DEF RawLen
<1> QED
    BY <1>2, <1>3, <1>4, <1>5, <1>6

(* The same, for one chunk.                                                *)
LEMMA ChunkStep ==
    ASSUME NEW img \in Images, img.sparse, NEW k \in 1..Len(img.chunks)
    PROVE  /\ img.chunks[k].len \in Nat
           /\ img.chunks[k].len = (img.chunks[k].len \div BLK) * BLK
           /\ RawLen(img.chunks[k]) \in {0, img.chunks[k].len}
           /\ HeaderAt(img)[k + 1] = HeaderAt(img)[k] + (CHUNKHDR + RawLen(img.chunks[k]))
           /\ OutAt(img)[k + 1] = OutAt(img)[k] + img.chunks[k].len \div BLK
    BY ChunkSteps

(* Both positions are numbers and grow from chunk to chunk.                *)
LEMMA ChunkOrder ==
    ASSUME NEW img \in Images, img.sparse
    PROVE  LET H == HeaderAt(img)
               O == OutAt(img)
               N == Len(img.chunks)
           IN  /\ \A k \in 1..N + 1 : H[k] \in Nat /\ O[k] \in Nat
               /\ \A j, k \in 1..N + 1 : j < k => H[j + 1] <= H[k] /\ O[j + 1] <= O[k]
<1> DEFINE H == HeaderAt(img)
           O == OutAt(img)
           N == Len(img.chunks)
<1>1. /\ N \in Nat \ {0} /\ H[1] = FILEHDR /\ O[1] = 0
      /\ FILEHDR \in Nat /\ CHUNKHDR \in Nat /\ BLK \in Nat \ {0}
    BY ChunkSteps, ImageDownloadAssumption
<1>2. \A k \in 1..N : /\ RawLen(img.chunks[k]) \in Nat
                      /\ img.chunks[k].len \div BLK \in Nat
                      /\ H[k + 1] = H[k] + (CHUNKHDR + RawLen(img.chunks[k]))
                      /\ O[k + 1] = O[k] + img.chunks[k].len \div BLK
  <2> SUFFICES ASSUME NEW k \in 1..N
               PROVE  /\ RawLen(img.chunks[k]) \in Nat
                      /\ img.chunks[k].len \div BLK \in Nat
                      /\ H[k + 1] = H[k] + (CHUNKHDR + RawLen(img.chunks[k]))
                      /\ O[k + 1] = O[k] + img.chunks[k].len \div BLK
    OBVIOUS
  <2>1. img.chunks[k].len \in Nat /\ RawLen(img.chunks[k]) \in {0, img.chunks[k].len}
    BY ChunkSteps
  <2>2. img.chunks[k].len \div BLK \in Nat
    BY <1>1, <2>1
  <2> QED
    BY <2>1, <2>2, ChunkSteps
<1> HIDE DEF H, O, N
<1>3. \A k \in 1..N + 1 : H[k] \in Nat /\ O[k] \in Nat
  <2> DEFINE S == {n \in Nat : n + 1 <= N + 1 => H[n + 1] \in Nat /\ O[n + 1] \in Nat}
  <2>1. 0 \in S
    BY <1>1
  <2>2. ASSUME NEW n \in Nat, n \in S PROVE n + 1 \in S
    BY <1>1, <1>2, <2>2
  <2>3. \A n \in Nat : n \in S
    <3> HIDE DEF S
    <3> QED
      BY <2>1, <2>2, SetInduction
  <2>4. ASSUME NEW k \in 1..N + 1 PROVE H[k] \in Nat /\ O[k] \in Nat
    <3>1. k - 1 \in Nat /\ (k - 1) + 1 = k
      BY <1>1
    <3>2. k - 1 \in S
      BY <2>3, <3>1
    <3> QED
      BY <1>1, <3>1, <3>2
  <2> QED
    BY <2>4
<1>4. ASSUME NEW j \in 1..N + 1
      PROVE  \A k \in 1..N + 1 : j < k => H[j + 1] <= H[k] /\ O[j + 1] <= O[k]
  <2> DEFINE S == {n \in Nat : j + 1 + n <= N + 1 =>
                                  H[j + 1] <= H[j + 1 + n] /\ O[j + 1] <= O[j + 1 + n]}
  <2>1. 0 \in S
    BY <1>1, <1>3
  <2>2. ASSUME NEW n \in Nat, n \in S PROVE n + 1 \in S
    <3> SUFFICES ASSUME j + 1 + (n + 1) <= N + 1
                 PROVE  /\ H[j + 1] <= H[j + 1 + (n + 1)]
                        /\ O[j + 1] <= O[j + 1 + (n + 1)]
      OBVIOUS
    <3> DEFINE q == j + 1 + n
    <3>1. q \in 1..N /\ j + 1 + (n + 1) = q + 1 /\ j + 1 \in 1..N + 1
      BY <1>1
    <3>2. H[j + 1] <= H[q] /\ O[j + 1] <= O[q]
      BY <1>1, <2>2, <3>1
    <3> HIDE DEF q
    <3>3. q \in 1..N + 1 /\ q + 1 \in 1..N + 1
      BY <1>1, <3>1
    <3>4. H[q + 1] >= H[q] /\ O[q + 1] >= O[q]
      BY <1>1, <1>2, <1>3, <3>1, <3>3
    <3> QED
      BY <1>3, <3>1, <3>2, <3>3, <3>4
  <2>3. \A n \in Nat : n \in S
    <3> HIDE DEF S
    <3> QED
      BY <2>1, <2>2, SetInduction
  <2>4. ASSUME NEW k \in 1..N + 1, j < k PROVE H[j + 1] <= H[k] /\ O[j + 1] <= O[k]
    <3>1. k - (j + 1) \in Nat /\ j + 1 + (k - (j + 1)) = k
      BY <1>1, <2>4
    <3>2. k - (j + 1) \in S
      BY <2>3, <3>1
    <3> QED
      BY <1>1, <3>1, <3>2
  <2> QED
    BY <2>4
<1> QED
    BY <1>3, <1>4 DEF H, O, N

(* The header that begins with the first byte of chunk k's header is chunk *)
(* k's: rkimg_handleSparseDownload finds each chunk where it looks for it. *)
LEMMA ChunkFound ==
    ASSUME image \in Images, image.sparse, NEW k \in 1..Len(image.chunks)
    PROVE  ChunkAt(Byte(image, HeaderAt(image)[k] + 1)) = image.chunks[k]
<1> DEFINE H == HeaderAt(image)
           N == Len(image.chunks)
           at == {j \in 1..N : Byte(image, H[k] + 1) = Byte(image, H[j] + 1)}
<1>1. N \in Nat /\ CHUNKHDR \in Nat \ {0}
    BY ChunkSteps, ImageDownloadAssumption
<1>2. ASSUME NEW j \in 1..N PROVE Byte(image, H[j] + 1) = [op |-> "byte", img |-> image.id, at |-> H[j] + 1]
    BY ChunkSteps DEF Byte
<1>3. \A i \in 1..N + 1 : H[i] \in Nat
    BY ChunkOrder
<1>4. ASSUME NEW i \in 1..N, NEW j \in 1..N, i < j PROVE H[i] < H[j]
  <2>1. i \in 1..N + 1 /\ j \in 1..N + 1 /\ i + 1 \in 1..N + 1
    BY <1>1
  <2>2. H[i + 1] <= H[j]
    BY <1>4, <2>1, ChunkOrder
  <2>3. H[i + 1] = H[i] + (CHUNKHDR + RawLen(image.chunks[i]))
        /\ RawLen(image.chunks[i]) \in {0, image.chunks[i].len} /\ image.chunks[i].len \in Nat
    BY ChunkSteps
  <2>4. H[i] \in Nat /\ H[j] \in Nat /\ H[i + 1] \in Nat
    BY <1>3, <2>1
  <2>5. RawLen(image.chunks[i]) \in Nat
    BY <2>3
  <2> HIDE DEF H
  <2> QED
    BY <1>1, <2>2, <2>3, <2>4, <2>5
<1>5. at = {k}
  <2>1. k \in at
    OBVIOUS
  <2>2. ASSUME NEW j \in at PROVE j = k
    <3>1. H[k] + 1 = H[j] + 1
      <4>1. [op |-> "byte", img |-> image.id, at |-> H[k] + 1]
            = [op |-> "byte", img |-> image.id, at |-> H[j] + 1]
        BY <1>2
      <4> HIDE DEF H
      <4> QED
        BY <4>1
    <3>2. H[k] = H[j]
      <4>1. k \in 1..N + 1 /\ j \in 1..N + 1
        BY <1>1
      <4> HIDE DEF H
      <4> QED
        BY <1>3, <3>1, <4>1
    <3>3. ~ (k < j) /\ ~ (j < k)
      <4>1. H[k] \in Nat
        BY <1>1, <1>3
      <4> HIDE DEF H
      <4> QED
        BY <1>4, <3>2, <4>1
    <3> QED
      BY <1>1, <3>3
  <2> HIDE DEF at
  <2> QED
    BY <2>1, <2>2, Zenon
<1> HIDE DEF H
<1> QED
    BY <1>5 DEF ChunkAt, H

(* Only raw chunks fill sectors.                                           *)
LEMMA ExtentProps ==
    ASSUME NEW img \in Images, img.sparse, NEW k \in 1..Len(img.chunks)
    PROVE  Extent(img, k) = IF img.chunks[k].type = "raw"
                            THEN OutAt(img)[k]..(OutAt(img)[k + 1] - 1) ELSE {}
<1>1. OutAt(img)[k + 1] = OutAt(img)[k] + img.chunks[k].len \div BLK
    BY ChunkSteps
<1>2. OutAt(img)[k] \in Nat
  <2>1. k \in 1..Len(img.chunks) + 1
    BY ChunkSteps
  <2> QED
    BY <2>1, ChunkOrder
<1>3. CASE img.chunks[k].type = "raw"
  <2>1. RawLen(img.chunks[k]) = img.chunks[k].len
    BY <1>3 DEF RawLen
  <2> DEFINE x == img.chunks[k].len \div BLK
  <2>2. x \in Nat
    BY ChunkSteps, ImageDownloadAssumption
  <2>3. Extent(img, k) = OutAt(img)[k]..(OutAt(img)[k] + x - 1)
    BY <2>1 DEF Extent
  <2> HIDE DEF x
  <2> QED
    <3>1. OutAt(img)[k + 1] = OutAt(img)[k] + x
      BY <1>1 DEF x
    <3> QED
      BY <1>2, <1>3, <2>2, <2>3, <3>1
<1>4. CASE img.chunks[k].type # "raw"
  <2>1. RawLen(img.chunks[k]) = 0
    BY <1>4 DEF RawLen
  <2>2. 0 \div BLK = 0
    BY ImageDownloadAssumption
  <2>3. Extent(img, k) = OutAt(img)[k]..(OutAt(img)[k] + 0 - 1)
    BY <2>1, <2>2 DEF Extent
  <2> QED
    BY <1>2, <1>4, <2>3
<1> QED
    BY <1>3, <1>4

(* No sector belongs to two chunks.                                        *)
LEMMA ExtentsApart ==
    ASSUME NEW img \in Images, img.sparse,
           NEW j \in 1..Len(img.chunks), NEW k \in 1..Len(img.chunks),
           NEW s \in Extent(img, j), s \in Extent(img, k)
    PROVE  j = k
<1> DEFINE O == OutAt(img)
           N == Len(img.chunks)
<1>1. N \in Nat
    BY ChunkSteps
<1>2. s \in O[j]..(O[j + 1] - 1) /\ s \in O[k]..(O[k + 1] - 1)
    BY ExtentProps, Zenon
<1>3. /\ j \in 1..N + 1 /\ k \in 1..N + 1 /\ j + 1 \in 1..N + 1 /\ k + 1 \in 1..N + 1
    BY <1>1
<1>4. O[j] \in Nat /\ O[k] \in Nat /\ O[j + 1] \in Nat /\ O[k + 1] \in Nat
    BY <1>3, ChunkOrder
<1>5. (j < k => O[j + 1] <= O[k]) /\ (k < j => O[k + 1] <= O[j])
    BY <1>3, ChunkOrder
<1> HIDE DEF O
<1>6. ~ (j < k) /\ ~ (k < j)
    BY <1>2, <1>4, <1>5
<1> QED
    BY <1>1, <1>6

(* What the image should leave in a sector of chunk k's extent.            *)
LEMMA ExpectedSector ==
    ASSUME NEW img \in Images, img.sparse, NEW k \in 1..Len(img.chunks),
           NEW s \in Extent(img, k)
    PROVE  /\ s \in DOMAIN Expected(img)
           /\ Expected(img)[s] =
                Slice(img, HeaderAt(img)[k] + CHUNKHDR + (s - OutAt(img)[k]) * BLK, BLK)
<1>1. DOMAIN img.chunks = 1..Len(img.chunks)
    BY ChunkSteps
<1> DEFINE D == UNION {Extent(img, j) : j \in DOMAIN img.chunks}
           C(t) == CHOOSE j \in DOMAIN img.chunks : t \in Extent(img, j)
<1>2. Expected(img) =
        [t \in D |-> Slice(img, HeaderAt(img)[C(t)] + CHUNKHDR + (t - OutAt(img)[C(t)]) * BLK, BLK)]
    BY DEF Expected
<1>3. s \in D
    BY <1>1
<1>4. C(s) \in 1..Len(img.chunks) /\ s \in Extent(img, C(s))
    BY <1>1
<1>5. C(s) = k
  <2> HIDE DEF C
  <2> QED
    BY <1>4, ExtentsApart
<1> HIDE DEF D, C
<1>6. s \in DOMAIN Expected(img)
    BY <1>2, <1>3
<1> QED
    BY <1>2, <1>3, <1>5, <1>6

(* It leaves nothing anywhere else.                                        *)
LEMMA ExpectedOnly ==
    ASSUME NEW img \in Images, img.sparse, NEW s \in DOMAIN Expected(img)
    PROVE  \E k \in 1..Len(img.chunks) : s \in Extent(img, k)
<1>1. DOMAIN img.chunks = 1..Len(img.chunks)
    BY ChunkSteps
<1>2. DOMAIN Expected(img) = UNION {Extent(img, j) : j \in DOMAIN img.chunks}
    BY DEF Expected
<1> QED
    BY <1>1, <1>2

(* A part of a slice, and two slices in a row, are slices.                 *)
PartIsSlice(img, n, m, a, b) ==
    SubSeq(Slice(img, n, m), a + 1, b) = Slice(img, n + a, b - a)
LEMMA SliceSub ==
    ASSUME NEW img \in Images, NEW n \in Nat, NEW m \in Nat, NEW a \in Nat, NEW b \in Nat,
           a <= b, b <= m
    PROVE  PartIsSlice(img, n, m, a, b)
<1> DEFINE w == Slice(img, n, m)
<1>1. w \in Seq(ByteType) /\ Len(w) = m /\ \A i \in 1..m : w[i] = Byte(img, n + i)
    BY SliceProps
<1> HIDE DEF w
<1>2. SubSeq(w, a + 1, b) = [i \in 1..(b - a) |-> w[a + i]]
    BY <1>1
<1>3. \A i \in 1..(b - a) : w[a + i] = Byte(img, n + a + i)
    BY <1>1
<1> QED
    BY <1>2, <1>3 DEF Slice, w, PartIsSlice



(* Whole sectors of an image, stored, are slices of it.                    *)
SectorIsSlice(img, content, off, n, b, s) ==
    /\ s \in DOMAIN Store(content, off, b, Slice(img, n, b * BLK))
    /\ Store(content, off, b, Slice(img, n, b * BLK))[s] = Slice(img, n + (s - off) * BLK, BLK)
LEMMA StoreSlices ==
    ASSUME NEW img \in Images, NEW content, NEW off \in Nat, NEW n \in Nat, NEW b \in Nat,
           NEW s \in off..(off + b - 1)
    PROVE  SectorIsSlice(img, content, off, n, b, s)
<1> DEFINE j == s - off
           lo == j * BLK
           w == Slice(img, n, b * BLK)
<1>1. BLK \in Nat \ {0} /\ j \in Nat /\ j < b /\ b * BLK \in Nat
    BY ImageDownloadAssumption
<1>2. lo \in Nat /\ (j + 1) * BLK = lo + BLK /\ lo + BLK <= b * BLK
    BY <1>1, SectorStart
<1>3. /\ w \in Seq(ByteType) /\ Len(w) = b * BLK
      /\ \A i \in 1..(b * BLK) : w[i] = Byte(img, n + i)
    BY <1>1, SliceProps
<1> HIDE DEF w, lo
<1>4. Min2(Len(w), (j + 1) * BLK) = lo + BLK
    BY <1>1, <1>2, <1>3 DEF Min2
<1>5. SubSeq(w, lo + 1, lo + BLK) = Slice(img, n + lo, BLK)
  <2>1. (lo + BLK) - lo = BLK /\ lo + BLK \in Nat /\ lo <= lo + BLK
    BY <1>1, <1>2
  <2> DEFINE m == b * BLK
             h == lo + BLK
  <2>2. m \in Nat /\ h \in Nat /\ lo <= h /\ h <= m
    BY <1>1, <1>2, <2>1
  <2> HIDE DEF m, h
  <2>3. SubSeq(Slice(img, n, m), lo + 1, h) = Slice(img, n + lo, h - lo)
    <3>1. lo \in Nat
      BY <1>2
    <3>2. PartIsSlice(img, n, m, lo, h)
      BY <2>2, <3>1, SliceSub
    <3> QED
      BY <3>2 DEF PartIsSlice
  <2> QED
    BY <2>1, <2>3 DEF w, m, h
<1>6. /\ s \in DOMAIN Store(content, off, b, w)
      /\ Store(content, off, b, w)[s] = SubSeq(w, j * BLK + 1, Min2(Len(w), (j + 1) * BLK))
    BY Zenon DEF Store
<1> QED
    BY <1>4, <1>5, <1>6, Zenon DEF w, lo, SectorIsSlice

-----------------------------------------------------------------------------
(* The invariant, action by action.                                        *)

(* Products of sums.                                                       *)
LEMMA Distributes ==
    ASSUME NEW a \in Int, NEW b \in Int, NEW c \in Int
    PROVE  (a + b) * c = a * c + b * c /\ (a - b) * c = a * c - b * c
    OBVIOUS

(* Of the b sectors that the m bytes from n on fill, each is written as    *)
(* expected, whatever the partition held.                                  *)
StoredInPlace(n, m, b) ==
    \A content : \A s \in d_direct_offset..(d_direct_offset + b - 1) :
        /\ s \in DOMAIN Store(content, d_direct_offset, b, Slice(image, n, m))
        /\ s \in DOMAIN Expected(image)
        /\ Store(content, d_direct_offset, b, Slice(image, n, m))[s] = Expected(image)[s]

(* rkimg_handleDirectDownload in an extent writes whole sectors, each to   *)
(* the sector it belongs to, and keeps what follows them.                  *)
LEMMA SparseWrite ==
    ASSUME DInv, d_size # 0, InExtent, NEW n, Tracks(n, work),
           NEW m, m = writeLen, NEW b, b = DIV_ROUND_UP(m, BLK)
    PROVE  /\ m \in Nat /\ b \in Nat /\ m = b * BLK
           /\ m <= d_direct_size /\ m <= Len(work)
           /\ (d_direct_offset + b) * BLK = d_direct_offset * BLK + m
           /\ SubSeq(work, 1, m) = Slice(image, n, m)
           /\ CONSUMED(work, m) = Slice(image, n + m, Len(work) - m)
           /\ Len(CONSUMED(work, m)) = Len(work) - m
           /\ StoredInPlace(n, m, b)
<1> DEFINE c == sparse_cur_chunk
           off == d_direct_offset
           ds == d_direct_size
           H == HeaderAt(image)
           O == OutAt(image)
           l == image.chunks[c].len
<1>1. /\ image \in Images /\ image.sparse /\ c \in 1..Len(image.chunks)
      /\ BLK \in Nat \ {0} /\ CHUNKHDR \in Nat /\ off \in Nat /\ ds \in Nat
      /\ work \in Seq(ByteType) /\ Len(work) \in Nat /\ n \in Nat
  <2>1. /\ image \in Images /\ image.sparse /\ c \in Nat /\ c > 0 /\ off \in Nat /\ ds \in Nat
        /\ work \in Seq(ByteType) /\ n \in Nat /\ c <= Len(image.chunks)
    BY DEF DInv, DTypeOK, InExtent, Tracks
  <2>2. Len(image.chunks) \in Nat
    BY <2>1, ChunkSteps
  <2> QED
    BY <2>1, <2>2, ImageDownloadAssumption
<1>2. PICK d \in Nat : /\ l \in Nat /\ l = d * BLK
                        /\ H[c + 1] = H[c] + (CHUNKHDR + l) /\ O[c + 1] = O[c] + d
  <2>1. RawLen(image.chunks[c]) = l
    BY DEF InExtent, RawLen
  <2>2. /\ l \in Nat /\ l = (l \div BLK) * BLK
        /\ H[c + 1] = H[c] + (CHUNKHDR + l) /\ O[c + 1] = O[c] + l \div BLK
    BY <1>1, <2>1, ChunkStep, Zenon
  <2>3. l \div BLK \in Nat
    BY <1>1, <2>2
  <2> QED
    BY <2>2, <2>3
<1>3. H[c] \in Nat /\ O[c] \in Nat /\ O[c + 1] \in Nat
  <2>1. c \in 1..Len(image.chunks) + 1 /\ c + 1 \in 1..Len(image.chunks) + 1
    BY <1>1
  <2> QED
    BY <1>1, <2>1, ChunkOrder
<1>4. n + ds = H[c + 1] /\ off * BLK + ds = O[c + 1] * BLK /\ ds <= l
    BY DEF Tracks, InExtent
<1>5. m \in Nat /\ m <= Len(work) /\ m <= ds
    BY WriteLenProps DEF DInv
<1>6. PICK q \in Nat : m = q * BLK
  <2>1. CASE m = ds
    <3>1. off <= O[c + 1]
      <4> SUFFICES ASSUME O[c + 1] < off PROVE FALSE
        BY <1>1, <1>3
      <4>1. O[c + 1] * BLK + BLK <= off * BLK /\ O[c + 1] * BLK \in Nat
        BY <1>1, <1>3, SectorStart, Zenon
      <4>2. off * BLK \in Nat
        BY <1>1
      <4> HIDE DEF off, O, ds
      <4> QED
        BY <1>1, <1>4, <4>1, <4>2
    <3>2. O[c + 1] - off \in Nat /\ (O[c + 1] - off) * BLK = O[c + 1] * BLK - off * BLK
      BY <1>1, <1>3, <3>1
    <3>3. O[c + 1] * BLK - off * BLK = ds
      BY <1>1, <1>3, <1>4
    <3> QED
      BY <2>1, <3>2, <3>3
  <2>2. CASE m = (Len(work) \div BLK) * BLK
    BY <1>1, <2>2, WholeSectors, Zenon
  <2> QED
    BY <2>1, <2>2 DEF writeLen
<1>7. b = q
    BY <1>6, ExactSectors
<1>8. (off + b) * BLK = off * BLK + m /\ b \in Nat
  <2>1. b \in Nat /\ b \in Int /\ off \in Int /\ BLK \in Int
    BY <1>1, <1>6, <1>7
  <2>2. (off + b) * BLK = off * BLK + b * BLK
    BY <2>1, Distributes
  <2> QED
    BY <1>6, <1>7, <2>1, <2>2
<1>9. work = Slice(image, n, Len(work))
    BY DEF Tracks
<1>10. SubSeq(work, 1, m) = Slice(image, n, m)
  <2>1. PartIsSlice(image, n, Len(work), 0, m)
    BY <1>1, <1>5, SliceSub
  <2>2. 0 + 1 = 1 /\ n + 0 = n /\ m - 0 = m
    BY <1>1, <1>5
  <2> QED
    BY <1>9, <2>1, <2>2 DEF PartIsSlice
<1>11. CONSUMED(work, m) = Slice(image, n + m, Len(work) - m)
       /\ Len(CONSUMED(work, m)) = Len(work) - m
  <2>1. PartIsSlice(image, n, Len(work), m, Len(work))
    BY <1>1, <1>5, SliceSub
  <2>2. CONSUMED(work, m) = Slice(image, n + m, Len(work) - m)
    BY <1>9, <2>1 DEF PartIsSlice, CONSUMED
  <2>3. Len(CONSUMED(work, m)) = Len(work) - m
    BY <1>1, <1>5, ConsumedProps
  <2> QED
    BY <2>2, <2>3
<1> DEFINE x == off * BLK
           y == O[c] * BLK
<1>12. x \in Nat /\ y \in Nat /\ x + ds = y + l /\ O[c + 1] * BLK = y + l
  <2>1. x \in Nat /\ y \in Nat
    BY <1>1, <1>3
  <2>2. O[c + 1] * BLK = y + l
    BY <1>1, <1>2, <1>3, Distributes
  <2> QED
    BY <1>4, <2>1, <2>2
<1>13. O[c] <= off
  <2> SUFFICES ASSUME off < O[c] PROVE FALSE
    BY <1>1, <1>3
  <2>1. x + BLK <= y
    BY <1>1, <1>3, SectorStart, Zenon
  <2> HIDE DEF x, y, ds, l
  <2> QED
    BY <1>1, <1>2, <1>4, <1>12, <2>1
<1>14. off + b <= O[c + 1]
  <2> SUFFICES ASSUME O[c + 1] < off + b PROVE FALSE
    BY <1>1, <1>3, <1>8
  <2>1. off + b \in Nat
    BY <1>1, <1>8
  <2>2. O[c + 1] * BLK + BLK <= (off + b) * BLK
    BY <1>3, <2>1, SectorStart
  <2>3. (y + l) + BLK <= x + m
    BY <1>8, <1>12, <2>2
  <2> HIDE DEF x, y, ds, l
  <2> QED
    BY <1>1, <1>2, <1>5, <1>12, <2>3
<1>15. ASSUME NEW s \in off..(off + b - 1)
       PROVE  /\ s \in Extent(image, c)
              /\ n + (s - off) * BLK = H[c] + CHUNKHDR + (s - O[c]) * BLK
  <2>1. b \in Nat /\ s \in Nat
    BY <1>1, <1>8
  <2>2. s \in O[c]..(O[c + 1] - 1)
    <3> DEFINE u == O[c]
               v == O[c + 1]
    <3>1. u \in Nat /\ v \in Nat /\ u <= off /\ off + b <= v /\ off \in Nat
      BY <1>1, <1>3, <1>13, <1>14
    <3> HIDE DEF u, v
    <3>2. s \in u..(v - 1)
      BY <2>1, <3>1
    <3> QED
      BY <3>2 DEF u, v
  <2>3. s \in Extent(image, c)
    BY <1>1, <2>2, ExtentProps, Zenon DEF InExtent
  <2> DEFINE z == s * BLK
  <2>4. (s - off) * BLK = z - x /\ (s - O[c]) * BLK = z - y /\ z \in Nat
    BY <1>1, <1>3, <2>1, Distributes
  <2>5. n + ds = H[c] + (CHUNKHDR + l)
    BY <1>2, <1>4
  <2> DEFINE h == H[c]
  <2>6. /\ h \in Nat /\ x \in Nat /\ y \in Nat /\ z \in Nat /\ l \in Nat /\ ds \in Nat
        /\ n \in Nat /\ CHUNKHDR \in Nat /\ x + ds = y + l /\ n + ds = h + (CHUNKHDR + l)
    BY <1>1, <1>2, <1>3, <1>12, <2>4, <2>5
  <2> HIDE DEF x, y, z, h, ds, l
  <2>7. n + (z - x) = h + CHUNKHDR + (z - y)
    BY <2>6
  <2> QED
    BY <2>3, <2>4, <2>7 DEF h
<1>16. ASSUME NEW content, NEW s \in off..(off + b - 1)
       PROVE  /\ s \in DOMAIN Store(content, off, b, Slice(image, n, m))
              /\ s \in DOMAIN Expected(image)
              /\ Store(content, off, b, Slice(image, n, m))[s] = Expected(image)[s]
  <2>1. /\ s \in DOMAIN Store(content, off, b, Slice(image, n, b * BLK))
        /\ Store(content, off, b, Slice(image, n, b * BLK))[s] = Slice(image, n + (s - off) * BLK, BLK)
    <3>1. SectorIsSlice(image, content, off, n, b, s)
      BY <1>1, <1>8, StoreSlices
    <3> QED
      BY <3>1 DEF SectorIsSlice
  <2>2. /\ s \in DOMAIN Expected(image)
        /\ Expected(image)[s] = Slice(image, H[c] + CHUNKHDR + (s - O[c]) * BLK, BLK)
    BY <1>1, <1>15, ExpectedSector
  <2> QED
    BY <1>6, <1>7, <1>15, <2>1, <2>2
<1>17. StoredInPlace(n, m, b)
    BY <1>16 DEF StoredInPlace
<1> QED
    BY <1>5, <1>6, <1>7, <1>8, <1>10, <1>11, <1>17, Zenon











(* Every step of the download path keeps the invariant.                    *)
LEMMA FullStep ==
    ASSUME FullInv, [DNext]_dlVars
    PROVE  FullInv'
<1>SliceCat.
      ASSUME NEW img \in Images, NEW n \in Nat, NEW a \in Nat, NEW b \in Nat
      PROVE  Slice(img, n, a) \o Slice(img, n + a, b) = Slice(img, n, a + b)
  <2> USE <1>SliceCat
  <2> DEFINE v == Slice(img, n, a)
             w == Slice(img, n + a, b)
             u == Slice(img, n, a + b)
  <2>1. v \in Seq(ByteType) /\ Len(v) = a /\ \A i \in 1..a : v[i] = Byte(img, n + i)
      BY SliceProps
  <2>2. w \in Seq(ByteType) /\ Len(w) = b /\ \A i \in 1..b : w[i] = Byte(img, n + a + i)
    <3>1. n + a \in Nat
      OBVIOUS
    <3> QED
      BY <3>1, SliceProps
  <2>3. u \in Seq(ByteType) /\ Len(u) = a + b /\ \A i \in 1..(a + b) : u[i] = Byte(img, n + i)
      BY SliceProps
  <2> HIDE DEF u, v, w
  <2>4. v \o w \in Seq(ByteType) /\ Len(v \o w) = a + b
      BY <2>1, <2>2
  <2>5. ASSUME NEW i \in 1..(a + b) PROVE (v \o w)[i] = u[i]
    <3>1. CASE i <= a
      BY <2>1, <2>2, <2>3, <3>1
    <3>2. CASE ~ (i <= a)
      <4>1. i - a \in 1..b /\ n + a + (i - a) = n + i
        BY <3>2
      <4>2. (v \o w)[i] = w[i - a]
        BY <2>1, <2>2, <3>2
      <4> QED
        BY <2>2, <2>3, <4>1, <4>2
    <3> QED
      BY <3>1, <3>2, Zenon
  <2>6. v \o w = u
      BY <2>3, <2>4, <2>5
  <2> QED
      BY <2>6 DEF u, v, w
(* Sectors are numbered from 0.                                            *)
<1>SectorNumbers.
      ASSUME NEW img \in Images, img.sparse, NEW s \in DOMAIN Expected(img)
      PROVE  s \in Nat
  <2> USE <1>SectorNumbers
  <2>1. PICK k \in 1..Len(img.chunks) : s \in Extent(img, k)
      BY ExpectedOnly
  <2>2. s \in OutAt(img)[k]..(OutAt(img)[k + 1] - 1)
      BY <2>1, ExtentProps, Zenon
  <2>3. OutAt(img)[k] \in Nat /\ OutAt(img)[k + 1] \in Nat
    <3>1. k \in 1..Len(img.chunks) + 1 /\ k + 1 \in 1..Len(img.chunks) + 1
      BY ChunkSteps
    <3> QED
      BY <3>1, ChunkOrder
  <2> QED
      BY <2>2, <2>3
(* What is sent of a sparse image, and where its parts lie in it.          *)
<1>SparseBounds.
      ASSUME DInv, image.sparse, d_size # 0, sparse_cur_chunk <= Len(image.chunks)
      PROVE  /\ HeaderAt(image)[sparse_cur_chunk + 1] \in Nat
             /\ OutAt(image)[sparse_cur_chunk + 1] \in Nat
             /\ HeaderAt(image)[sparse_cur_chunk + 1] <= d_size
             /\ sparse_cur_chunk < Len(image.chunks) =>
                  /\ HeaderAt(image)[sparse_cur_chunk + 2] <= d_size
                  /\ HeaderAt(image)[sparse_cur_chunk + 1] + CHUNKHDR <= d_size
  <2> USE <1>SparseBounds
  <2> DEFINE H == HeaderAt(image)
             N == Len(image.chunks)
             c == sparse_cur_chunk
  <2>1. /\ image \in Images /\ c \in Nat /\ d_size = image.len /\ N \in Nat /\ CHUNKHDR \in Nat
      BY ChunkSteps, ImageDownloadAssumption DEF DInv, DTypeOK
  <2>2. d_size = H[N + 1]
      BY <2>1, ChunkSteps
  <2>3. c + 1 \in 1..N + 1 /\ N + 1 \in 1..N + 1
      BY <2>1
  <2>4. H[c + 1] \in Nat /\ OutAt(image)[c + 1] \in Nat /\ H[N + 1] \in Nat
      BY <2>1, <2>3, ChunkOrder
  <2>5. CASE c = N
      BY <2>1, <2>2, <2>4, <2>5
  <2>6. CASE c < N
    <3>1. c + 1 < N + 1 /\ (c + 1) + 1 = c + 2 /\ c + 1 \in 1..N
      BY <2>1, <2>6
    <3>2. H[(c + 1) + 1] <= H[N + 1]
      BY <2>1, <2>3, <3>1, ChunkOrder
    <3>3. /\ H[(c + 1) + 1] = H[c + 1] + (CHUNKHDR + RawLen(image.chunks[c + 1]))
          /\ image.chunks[c + 1].len \in Nat
          /\ RawLen(image.chunks[c + 1]) \in {0, image.chunks[c + 1].len}
      BY <2>1, <3>1, ChunkSteps
    <3>4. RawLen(image.chunks[c + 1]) \in Nat
      BY <3>3
    <3> HIDE DEF H, N, c
    <3>5. H[c + 2] <= d_size /\ H[c + 1] + CHUNKHDR <= H[c + 2] /\ H[c + 2] \in Nat
      BY <2>1, <2>2, <2>4, <3>1, <3>2, <3>3, <3>4
    <3> QED
      BY <2>1, <2>2, <2>4, <3>5 DEF H, N, c
  <2> QED
      BY <2>1, <2>5, <2>6
(* Writing into an extent keeps the invariant.                             *)
<1>DirectFull.
      ASSUME FullInv, NEW ok \in BOOLEAN, handleDirectDownload(ok), flag_sparse
      PROVE  SparseInv' /\ EndInv'
  <2> USE <1>DirectFull
  <2> DEFINE n == d_bytes + length - Len(work)
             p == pending_ptn
  <2>1. /\ DInv /\ step = "direct" /\ d_status = 0 /\ ~d_legacy /\ d_size # 0 /\ p \in Partitions
        /\ d_cache = <<>> /\ Tracks(n, work) /\ InExtent /\ length = Len(NextPiece)
      BY DEF FullInv, DInv, SparseInv, handleDirectDownload
  <2>2. /\ UNCHANGED <<image, pending_ptn, d_size, d_bytes, d_legacy, length, flag_sparse, sparse_cur_chunk>>
      BY Zenon DEF handleDirectDownload, Failed
  <2>3. PICK m, b, rest : m = writeLen /\ b = DIV_ROUND_UP(m, BLK) /\ rest = CONSUMED(work, m)
      OBVIOUS
  <2>4. CASE ~ok /\ b # 0
    <3>1. step' = "done" /\ d_status' = -1
      BY <2>3, <2>4 DEF handleDirectDownload, Failed
    <3> QED
      BY <3>1 DEF SparseInv, EndInv
  <2>5. CASE ok \/ b = 0
    <3>1. /\ disk' = [disk EXCEPT ![p] = Store(@, d_direct_offset, b, SubSeq(work, 1, m))]
          /\ d_direct_offset' = d_direct_offset + b
          /\ d_direct_size' = d_direct_size - m
          /\ IF d_direct_size' # 0
             THEN d_cache' = rest /\ work' = <<>> /\ step' = "done" /\ UNCHANGED d_status
             ELSE work' = rest /\ step' = "chunk" /\ UNCHANGED <<d_cache, d_status>>
      BY <2>3, <2>5, Zenon DEF handleDirectDownload
    <3>2. /\ m \in Nat /\ b \in Nat /\ m <= d_direct_size /\ m <= Len(work)
          /\ (d_direct_offset + b) * BLK = d_direct_offset * BLK + m
          /\ SubSeq(work, 1, m) = Slice(image, n, m)
          /\ rest = Slice(image, n + m, Len(work) - m) /\ Len(rest) = Len(work) - m
      BY <2>1, <2>3, SparseWrite
    <3>3. StoredInPlace(n, m, b)
      BY <2>1, <2>3, SparseWrite
    <3>4. /\ d_bytes \in Nat /\ length \in Nat /\ d_direct_size \in Nat /\ d_direct_offset \in Nat
          /\ DOMAIN disk = Partitions /\ Len(work) \in Nat /\ BLK \in Nat /\ n \in Nat
          /\ n + d_direct_size = HeaderAt(image)[sparse_cur_chunk + 1]
          /\ d_direct_offset * BLK + d_direct_size = OutAt(image)[sparse_cur_chunk + 1] * BLK
      BY <2>1, ImageDownloadAssumption DEF DInv, DTypeOK, Tracks
    <3>5. disk'[p] = Store(disk[p], d_direct_offset, b, Slice(image, n, m))
      BY <2>1, <3>1, <3>2, <3>4, Zenon
    <3>6. InPlace(d_direct_offset)' 
      <4> SUFFICES ASSUME NEW s \in DOMAIN Expected(image), s < d_direct_offset + b
                   PROVE  s \in DOMAIN disk'[p] /\ disk'[p][s] = Expected(image)[s]
        BY <2>2, <3>1 DEF InPlace
      <4>1. CASE s \in d_direct_offset..(d_direct_offset + b - 1)
        BY <3>3, <3>5, <4>1 DEF StoredInPlace
      <4>2. CASE s \notin d_direct_offset..(d_direct_offset + b - 1)
        <5>1. s \in Nat
          BY <2>1, <1>SectorNumbers DEF Tracks, DInv, DTypeOK
        <5>2. s < d_direct_offset
          BY <3>2, <3>4, <4>2, <5>1
        <5>3. s \in DOMAIN disk[p] /\ disk[p][s] = Expected(image)[s]
          BY <2>1, <5>2 DEF Tracks, InPlace
        <5>4. s \in DOMAIN disk'[p] /\ disk'[p][s] = disk[p][s]
          BY <3>5, <4>2, <5>3 DEF Store
        <5> QED
          BY <5>3, <5>4
      <4> QED
        BY <4>1, <4>2
    <3>7. /\ d_direct_size' \in Nat /\ n + m \in Nat
          /\ (n + m) + d_direct_size' = HeaderAt(image)[sparse_cur_chunk + 1]
          /\ d_direct_offset' * BLK + d_direct_size' = OutAt(image)[sparse_cur_chunk + 1] * BLK
      <4> DEFINE x == d_direct_offset * BLK
                 y == d_direct_offset' * BLK
                 z == OutAt(image)[sparse_cur_chunk + 1] * BLK
                 h == HeaderAt(image)[sparse_cur_chunk + 1]
      <4>1. y = x + m /\ x \in Nat /\ x + d_direct_size = z /\ n + d_direct_size = h
        BY <3>1, <3>2, <3>4
      <4> HIDE DEF x, y, z, h, n
      <4>2. /\ d_direct_size' \in Nat /\ n + m \in Nat
            /\ (n + m) + d_direct_size' = h /\ y + d_direct_size' = z
        BY <3>1, <3>2, <3>4, <4>1
      <4> QED
        BY <4>2 DEF x, y, z, h
    <3>8. /\ rest = Slice(image, n + m, Len(rest)) /\ d_bytes + length - Len(rest) = n + m
      <4>1. /\ Len(rest) = Len(work) - m /\ m \in Nat /\ Len(work) \in Nat
            /\ d_bytes \in Nat /\ length \in Nat
        BY <3>2, <3>4
      <4>2. d_bytes + length - Len(rest) = n + m
        BY <4>1
      <4> QED
        BY <3>2, <4>1, <4>2
    <3>9. \A w : w = rest => Tracks(d_bytes + length - Len(w), w)'
      BY <2>1, <2>2, <3>6, <3>7, <3>8 DEF Tracks
    <3>10. CASE d_direct_size' = 0
      <4>1. work' = rest /\ step' = "chunk" /\ d_status' = d_status
        BY <3>1, <3>10
      <4>2. Tracks(d_bytes + length - Len(work), work)'
        BY <3>9, <4>1 DEF Tracks
      <4>3. length' = Len(NextPiece')
        BY <2>1, <2>2 DEF NextPiece
      <4> QED
        BY <2>1, <3>10, <4>1, <4>2, <4>3 DEF SparseInv, EndInv
    <3>11. CASE d_direct_size' # 0
      <4>1. d_cache' = rest /\ step' = "done" /\ d_status' = d_status
        BY <3>1, <3>11
      <4>2. Tracks(d_bytes + length - Len(d_cache), d_cache)'
        BY <3>9, <4>1 DEF Tracks
      <4>3. Len(work) < d_direct_size
        BY <2>3, <3>1, <3>4, <3>11 DEF writeLen
      <4>4. d_bytes + length < d_size
        <5>1. HeaderAt(image)[sparse_cur_chunk + 1] <= d_size /\ d_size \in Nat
          BY <2>1, <1>SparseBounds DEF Tracks, DInv, DTypeOK
        <5>2. /\ n + d_direct_size <= d_size /\ d_direct_size \in Nat /\ Len(work) \in Nat
              /\ d_bytes \in Nat /\ length \in Nat
          BY <3>4, <5>1
        <5>3. d_bytes + length = n + Len(work)
          BY <5>2
        <5> QED
          BY <3>4, <4>3, <5>1, <5>2, <5>3
      <4>5. InExtent'
        <5>1. image.chunks[sparse_cur_chunk].len \in Nat
          <6>1. /\ image \in Images /\ image.sparse /\ sparse_cur_chunk \in Nat
                /\ sparse_cur_chunk > 0 /\ sparse_cur_chunk <= Len(image.chunks)
            BY <2>1 DEF InExtent, Tracks, DInv, DTypeOK
          <6>2. Len(image.chunks) \in Nat
            BY <6>1, ChunkSteps
          <6>3. sparse_cur_chunk \in 1..Len(image.chunks)
            BY <6>1, <6>2
          <6> QED
            BY <6>1, <6>3, ChunkStep, Zenon
        <5>2. d_direct_size' <= d_direct_size /\ d_direct_size' \in Nat /\ d_direct_size \in Nat
          BY <3>1, <3>2, <3>4, <3>7
        <5> QED
          BY <2>1, <2>2, <5>1, <5>2 DEF InExtent
      <4>6. (d_bytes + length < d_size)' /\ (d_bytes + length # d_size)'
        BY <2>1, <2>2, <3>4, <4>4 DEF DInv, DTypeOK
      <4> QED
        BY <2>1, <4>1, <4>2, <4>5, <4>6 DEF SparseInv, EndInv
    <3> QED
      BY <3>10, <3>11
  <2> QED
      BY <2>4, <2>5
(* Writing a raw image ends with its last byte.                            *)
<1>DirectRawFull.
      ASSUME FullInv, NEW ok \in BOOLEAN, handleDirectDownload(ok), ~flag_sparse
      PROVE  SparseInv' /\ EndInv'
  <2> USE <1>DirectRawFull
  <2>1. /\ DTypeOK /\ step = "direct" /\ d_status = 0 /\ ~d_legacy /\ d_size # 0
        /\ d_bytes < d_size /\ d_direct_size = d_size - d_bytes
        /\ work = NextPiece /\ length = Len(NextPiece)
      BY DEF FullInv, DInv, RawInv, At, handleDirectDownload
  <2>2. Len(NextPiece) = Min2(TRANS, d_size - d_bytes) /\ TRANS \in Nat
      BY <2>1, NextPieceProps, ImageDownloadAssumption DEF FullInv
  <2>3. ~flag_sparse' /\ d_status' \in {-1, 0, 1}
        /\ UNCHANGED <<d_size, d_bytes, length>> /\ step' = "done"
      BY <2>1 DEF handleDirectDownload, Failed
  <2>4. d_size \in Nat /\ d_bytes \in Nat /\ length \in Nat /\ d_direct_size \in Nat
      BY <2>1 DEF DTypeOK
  <2>5. d_status' # -1 => d_direct_size' = d_direct_size - writeLen
                          /\ (d_status' = 1 <=> d_direct_size' = 0)
      BY <2>1 DEF handleDirectDownload, Failed
  <2>6. /\ writeLen \in Nat /\ writeLen <= Len(work) /\ writeLen <= d_direct_size
        /\ Len(work) >= d_direct_size => writeLen = d_direct_size
      BY <2>1, WriteLenProps DEF writeLen
  <2>7. d_direct_size - writeLen = 0 <=> d_bytes + length = d_size
      BY <2>1, <2>2, <2>4, <2>6 DEF Min2
  <2> QED
      BY <2>3, <2>4, <2>5, <2>7 DEF SparseInv, EndInv
(* A turn of the chunk loop keeps the invariant.                           *)
<1>ChunkFull.
      ASSUME FullInv, handleSparseDownload
      PROVE  SparseInv' /\ EndInv'
  <2> USE <1>ChunkFull
  <2> DEFINE n == d_bytes + length - Len(work)
             c == sparse_cur_chunk
             N == Len(image.chunks)
             H == HeaderAt(image)
             O == OutAt(image)
  <2>1. /\ DInv /\ step = "chunk" /\ d_status = 0 /\ ~d_legacy /\ d_size # 0
        /\ d_cache = <<>> /\ flag_sparse
      BY DEF FullInv, DInv, RawInv, handleSparseDownload
  <2>2. Tracks(n, work) /\ d_direct_size = 0 /\ length = Len(NextPiece)
      BY <2>1 DEF FullInv, SparseInv
  <2>3. /\ UNCHANGED <<image, pending_ptn, d_size, d_bytes, d_legacy, length, disk, flag_sparse>>
      BY DEF handleSparseDownload, progress
  <2>4. /\ image \in Images /\ image.sparse /\ c \in Nat /\ c <= N /\ N \in Nat
        /\ d_bytes \in Nat /\ length \in Nat /\ d_size \in Nat /\ d_direct_offset \in Nat
        /\ work \in Seq(ByteType) /\ Len(work) \in Nat /\ n \in Nat
        /\ BLK \in Nat \ {0} /\ CHUNKHDR \in Nat \ {0}
    <3>1. /\ image \in Images /\ image.sparse /\ c \in Nat /\ c <= N
          /\ d_bytes \in Nat /\ length \in Nat /\ d_size \in Nat /\ d_direct_offset \in Nat
          /\ work \in Seq(ByteType) /\ n \in Nat
      BY <2>1, <2>2 DEF DInv, DTypeOK, Tracks
    <3>2. N \in Nat
      BY <3>1, ChunkSteps
    <3> QED
      BY <3>1, <3>2, ImageDownloadAssumption
  <2>5. n = H[c + 1] /\ d_direct_offset * BLK = O[c + 1] * BLK
        /\ H[c + 1] \in Nat /\ O[c + 1] \in Nat
      BY <2>1, <2>2, <2>4, <1>SparseBounds DEF Tracks
  <2>6. d_direct_offset = O[c + 1]
    <3> HIDE DEF O, c
    <3> QED
      BY <2>4, <2>5, ExactSectors, Zenon
  <2>7. d_bytes + length <= d_size /\ d_bytes + length = n + Len(work)
      <3>1. Len(NextPiece) = Min2(TRANS, d_size - d_bytes) /\ TRANS \in Nat
        BY <2>1, NextPieceProps, ImageDownloadAssumption
      <3> QED
        BY <2>2, <2>4, <3>1 DEF Min2
  <2>8. CASE c >= N
    <3>1. step' = "done" /\ d_status' = 1
      BY <2>8 DEF handleSparseDownload
    <3>2. c = N /\ d_size = H[c + 1]
      BY <2>1, <2>4, <2>8, ChunkSteps DEF DInv
    <3>3. d_bytes + length = d_size
      BY <2>4, <2>5, <2>7, <3>2
    <3>4. Holds(disk[pending_ptn], image)
      <4> SUFFICES ASSUME NEW s \in DOMAIN Expected(image)
                   PROVE  s \in DOMAIN disk[pending_ptn] /\ disk[pending_ptn][s] = Expected(image)[s]
        BY DEF Holds
      <4>1. PICK k \in 1..N : s \in Extent(image, k)
        BY <2>4, ExpectedOnly
      <4>2. s \in O[k]..(O[k + 1] - 1)
        BY <2>4, <4>1, ExtentProps, Zenon
      <4>3. k \in 1..N + 1 /\ k + 1 \in 1..N + 1 /\ N + 1 \in 1..N + 1 /\ k < N + 1
        BY <2>4
      <4>4. O[k] \in Nat /\ O[k + 1] \in Nat /\ O[k + 1] <= O[N + 1]
        BY <2>4, <4>3, ChunkOrder
      <4>5. s < d_direct_offset
        <5> HIDE DEF O
        <5> QED
          BY <2>5, <2>6, <3>2, <4>2, <4>4
      <4> QED
        BY <2>2, <4>5 DEF Tracks, InPlace
    <3> QED
      BY <2>3, <3>1, <3>3, <3>4 DEF SparseInv, EndInv
  <2>9. CASE c < N /\ Len(work) < CHUNKHDR
    <3>1. /\ step' = "done" /\ d_status' = d_status /\ d_cache' = work
          /\ UNCHANGED <<sparse_cur_chunk, d_direct_size, d_direct_offset>>
      BY <2>4, <2>9 DEF handleSparseDownload, progress
    <3>2. H[c + 1] + CHUNKHDR <= d_size
      BY <2>1, <2>4, <2>9, <1>SparseBounds
    <3>3. d_bytes + length < d_size
      BY <2>4, <2>5, <2>7, <2>9, <3>2
    <3>4. Tracks(d_bytes + length - Len(d_cache), d_cache)'
      BY <2>2, <2>3, <3>1 DEF Tracks, InPlace
    <3>5. (d_bytes + length < d_size)' /\ (d_bytes + length # d_size)' /\ d_direct_size' = 0
      BY <2>2, <2>3, <2>4, <3>1, <3>3
    <3> QED
      BY <2>1, <3>1, <3>4, <3>5 DEF SparseInv, EndInv
  <2>10. CASE c < N /\ ~ (Len(work) < CHUNKHDR)
    <3> DEFINE ch == image.chunks[c + 1]
               rest == CONSUMED(work, CHUNKHDR)
    <3>1. c + 1 \in 1..N
      BY <2>4, <2>10
    <3>2. work[1] = Byte(image, H[c + 1] + 1)
      <4>1. work = Slice(image, n, Len(work)) /\ 1 \in 1..Len(work)
        BY <2>2, <2>4, <2>10 DEF Tracks
      <4>2. work[1] = Byte(image, n + 1)
        <5> HIDE DEF n
        <5> QED
          BY <4>1 DEF Slice
      <4> QED
        BY <2>5, <4>2
    <3>3. ChunkAt(work[1]) = ch
      BY <2>4, <3>1, <3>2, ChunkFound
    <3>4. /\ ch.len \in Nat /\ ch.len = (ch.len \div BLK) * BLK
          /\ H[(c + 1) + 1] = H[c + 1] + (CHUNKHDR + RawLen(ch))
          /\ O[(c + 1) + 1] = O[c + 1] + ch.len \div BLK
      BY <2>4, <3>1, ChunkStep, Zenon
    <3>5. rest = Slice(image, n + CHUNKHDR, Len(rest)) /\ Len(rest) = Len(work) - CHUNKHDR
      <4>1. PartIsSlice(image, n, Len(work), CHUNKHDR, Len(work))
        BY <2>4, <2>10, SliceSub
      <4>2. work = Slice(image, n, Len(work))
        BY <2>2 DEF Tracks
      <4>3. Len(rest) = Len(work) - CHUNKHDR
        <5>1. CHUNKHDR \in Nat /\ CHUNKHDR <= Len(work)
          BY <2>4, <2>10
        <5> QED
          BY <2>4, <5>1, ConsumedProps
      <4> QED
        BY <4>1, <4>2, <4>3, Zenon DEF PartIsSlice, CONSUMED
    <3>6. d_bytes + length - Len(rest) = n + CHUNKHDR
      BY <2>4, <3>5
    <3> HIDE DEF rest
    <3>7. /\ sparse_cur_chunk' = c + 1
          /\ IF ch.ok /\ ch.type = "raw"
             THEN /\ d_direct_size' = ch.len /\ step' = "direct" /\ work' = rest
                  /\ UNCHANGED <<d_status, d_direct_offset>>
             ELSE IF ch.ok /\ ch.type = "dont_care"
             THEN /\ d_direct_offset' = d_direct_offset + ch.len \div BLK /\ work' = rest
                  /\ UNCHANGED <<d_status, d_direct_size, step>>
             ELSE d_status' = -1 /\ step' = "done"
      <4>1. ~ (c >= N) /\ ~ (Len(work) < CHUNKHDR)
        BY <2>4, <2>10
      <4> QED
        BY <3>3, <4>1, Zenon DEF handleSparseDownload, rest
    <3>8. length' = Len(NextPiece') 
      BY <2>2, <2>3 DEF NextPiece
    <3>9. CASE ch.ok /\ ch.type = "raw"
      <4>1. /\ (n + CHUNKHDR) + ch.len = H[(c + 1) + 1]
            /\ d_direct_offset * BLK + ch.len = O[(c + 1) + 1] * BLK
        <5>1. RawLen(ch) = ch.len
          BY <3>9 DEF RawLen
        <5> DEFINE d == ch.len \div BLK
        <5>2. d \in Nat /\ ch.len = d * BLK
          BY <2>4, <3>4, SMTT(30)
        <5>3. O[(c + 1) + 1] * BLK = O[c + 1] * BLK + d * BLK
          <6> HIDE DEF d, O
          <6> QED
            BY <2>4, <2>5, <3>4, <5>2, Distributes DEF d
        <5>4. (n + CHUNKHDR) + ch.len = H[(c + 1) + 1]
          <6> DEFINE h == H[c + 1]
                     g == H[(c + 1) + 1]
                     l == ch.len
          <6>1. /\ g = h + (CHUNKHDR + l) /\ l \in Nat /\ n = h /\ h \in Nat
                /\ CHUNKHDR \in Nat
            BY <2>4, <2>5, <3>4, <5>1
          <6> HIDE DEF n, g, h, l
          <6>2. (n + CHUNKHDR) + l = g
            BY <6>1
          <6> QED
            BY <6>2 DEF g, l
        <5>5. d_direct_offset * BLK + ch.len = O[(c + 1) + 1] * BLK
          BY <2>5, <5>2, <5>3
        <5> QED
          BY <5>4, <5>5
      <4>2. Tracks(d_bytes + length - Len(work), work)'
        <5>1. n + CHUNKHDR \in Nat /\ c + 1 <= N
          BY <2>4, <3>1
        <5>2. \A w : w = rest => Tracks(d_bytes + length - Len(w), w)'
          BY <2>2, <2>3, <3>5, <3>6, <3>7, <3>9, <4>1, <5>1, Zenon DEF Tracks, InPlace
        <5> QED
          BY <3>7, <3>9, <5>2 DEF Tracks
      <4>3. InExtent'
        <5>1. sparse_cur_chunk' = c + 1 /\ c + 1 > 0 /\ image' = image /\ d_direct_size' = ch.len
          BY <2>3, <2>4, <3>7, <3>9
        <5>2. ch.len \in Nat /\ ch.len <= ch.len
          <6> HIDE DEF ch
          <6> QED
            BY <3>4
        <5> HIDE DEF c
        <5> QED
          BY <3>9, <5>1, <5>2 DEF InExtent
      <4> QED
        BY <2>1, <3>7, <3>8, <3>9, <4>2, <4>3 DEF SparseInv, EndInv
    <3>10. CASE ch.ok /\ ch.type = "dont_care"
      <4>1. n + CHUNKHDR = H[(c + 1) + 1] /\ d_direct_offset' = O[(c + 1) + 1]
        <5>1. RawLen(ch) = 0
          BY <3>10 DEF RawLen
        <5>2. d_direct_offset' = d_direct_offset + ch.len \div BLK
          BY <3>7, <3>10
        <5>3. n + CHUNKHDR = H[(c + 1) + 1]
          <6> DEFINE h == H[c + 1]
                     g == H[(c + 1) + 1]
          <6>1. g = h + (CHUNKHDR + 0) /\ n = h /\ h \in Nat /\ CHUNKHDR \in Nat
            BY <2>4, <2>5, <3>4, <5>1
          <6> HIDE DEF n, g, h
          <6>2. n + CHUNKHDR = g
            BY <6>1
          <6> QED
            BY <6>2 DEF g
        <5> QED
          BY <2>6, <3>4, <5>2, <5>3
      <4>2. InPlace(d_direct_offset)'
        <5> SUFFICES ASSUME NEW s \in DOMAIN Expected(image), s < O[(c + 1) + 1]
                     PROVE  s \in DOMAIN disk[pending_ptn] /\ disk[pending_ptn][s] = Expected(image)[s]
          BY <2>3, <4>1 DEF InPlace
        <5>1. PICK k \in 1..N : s \in Extent(image, k)
          BY <2>4, ExpectedOnly
        <5>2. image.chunks[k].type = "raw" /\ s \in O[k]..(O[k + 1] - 1)
          BY <2>4, <5>1, ExtentProps, Zenon
        <5>3. k # c + 1
          BY <3>10, <5>2
        <5>4. k \in 1..N + 1 /\ c + 1 \in 1..N + 1 /\ (c + 1) + 1 \in 1..N + 1 /\ k + 1 \in 1..N + 1
          BY <2>4, <3>1
        <5>5. /\ O[k] \in Nat /\ O[k + 1] \in Nat /\ O[(c + 1) + 1] \in Nat
              /\ k < c + 1 => O[k + 1] <= O[c + 1]
              /\ c + 1 < k => O[(c + 1) + 1] <= O[k]
          BY <2>4, <5>4, ChunkOrder
        <5>6. s < O[c + 1]
          <6>1. CASE k < c + 1
            <7> HIDE DEF O
            <7> QED
              BY <2>5, <5>2, <5>5, <6>1
          <6>2. CASE c + 1 < k
            <7> HIDE DEF O
            <7> QED
              BY <5>2, <5>5, <6>2
          <6> QED
            BY <2>4, <5>3, <6>1, <6>2
        <5> QED
          BY <2>2, <2>6, <5>6 DEF Tracks, InPlace
      <4>3. Tracks(d_bytes + length - Len(work), work)'
        <5>1. (n + CHUNKHDR) + 0 = H[(c + 1) + 1] /\ n + CHUNKHDR \in Nat
          BY <2>4, <2>5, <4>1
        <5>2. d_direct_offset' * BLK + 0 = O[(c + 1) + 1] * BLK
          <6> DEFINE o == d_direct_offset'
          <6>1. o \in Nat /\ BLK \in Nat
            <7> DEFINE d == ch.len \div BLK
            <7>1. o = d_direct_offset + d
              BY <3>7, <3>10
            <7>2. d \in Nat
              <8> HIDE DEF ch
              <8> QED
                BY <2>4, <3>4
            <7> HIDE DEF d, o
            <7> QED
              BY <2>4, <7>1, <7>2
          <6>2. o * BLK + 0 = o * BLK
            <7> HIDE DEF o
            <7> QED
              BY <6>1
          <6> QED
            BY <4>1, <6>2, Zenon
        <5>3. c + 1 <= N
          BY <2>4, <3>1
        <5>4. work' = rest /\ d_direct_size' = 0 /\ sparse_cur_chunk' = c + 1
          BY <2>2, <3>7, <3>10
        <5>5. \A w : w = rest => Tracks(d_bytes + length - Len(w), w)'
          BY <2>2, <2>3, <3>5, <3>6, <4>2, <5>1, <5>2, <5>3, <5>4 DEF Tracks
        <5> QED
          BY <5>4, <5>5 DEF Tracks
      <4> QED
        BY <2>1, <2>2, <3>7, <3>8, <3>10, <4>3 DEF SparseInv, EndInv
    <3>11. CASE ~ (ch.ok /\ ch.type = "raw") /\ ~ (ch.ok /\ ch.type = "dont_care")
      BY <3>7, <3>11 DEF SparseInv, EndInv
    <3> QED
      BY <3>9, <3>10, <3>11
  <2> QED
      BY <2>4, <2>8, <2>9, <2>10
(* The next piece of a sparse image is put behind what is left of the last *)
(* one, and the two are again a part of the image.                         *)
<1>ReceiveFull.
      ASSUME FullInv, d_status = 0, Receive(NextPiece)
      PROVE  SparseInv' /\ EndInv'
  <2> USE <1>ReceiveFull
  <2> DEFINE buf == NextPiece
  <2>1. /\ DInv /\ step = "idle" /\ d_size # 0 /\ length' = Len(buf)
        /\ UNCHANGED <<image, pending_ptn, d_size, d_bytes, d_legacy, disk>>
        /\ NextPiece' = NextPiece
      BY DEF FullInv, Receive, NextPiece
  <2>2. /\ buf \in Seq(ByteType) /\ Len(buf) = Min2(TRANS, d_size - d_bytes)
        /\ Len(buf) \in Nat \ {0} /\ Len(buf) <= TRANS
      BY <2>1, NextPieceProps
  <2>3. /\ image \in Images /\ d_size \in Nat /\ d_bytes \in Nat /\ d_size = image.len
        /\ d_bytes < d_size /\ d_cache \in Seq(ByteType) /\ Len(d_cache) \in Nat
        /\ TRANS \in Nat /\ BLK \in Nat \ {0} /\ FILEHDR \in Nat /\ FILEHDR <= TRANS
      BY <2>1, ImageDownloadAssumption DEF DInv, DTypeOK
  <2>4. CASE d_legacy
      BY <2>1, <2>4 DEF SparseInv, EndInv
  <2>5. CASE ~d_legacy /\ pending_ptn = NoPtn
    <3>1. step' = "done" /\ d_status' = -1
      BY <2>5 DEF Receive, handleDownload, Failed
    <3> QED
      BY <3>1 DEF SparseInv, EndInv
  <2>6. CASE ~d_legacy /\ pending_ptn # NoPtn
    <3>1. ~ ((Len(buf) + d_bytes < d_size /\ Len(buf) < TRANS) \/ d_status # 0)
      BY <2>2, <2>3 DEF Min2
    <3>2. pending_ptn \in Partitions
      BY <2>1, <2>6 DEF DInv, DTypeOK
    <3>3. CASE d_bytes = 0
      <4>1. startDownload(buf)
        BY <2>6, <3>1, <3>3 DEF Receive, handleDownload
      <4>2. CASE ~ (image.sparse /\ buf[1] = Byte(image, 1))
        BY <4>1, <4>2 DEF startDownload, SparseInv, EndInv
      <4>3. CASE image.sparse /\ buf[1] = Byte(image, 1)
        <5>1. /\ d_status' = 0 /\ sparse_cur_chunk' = 0 /\ d_direct_offset' = 0
              /\ d_direct_size' = 0 /\ work' = CONSUMED(buf, FILEHDR) /\ step' = "chunk"
          BY <4>1, <4>3 DEF startDownload
        <5>2. /\ HeaderAt(image)[1] = FILEHDR /\ OutAt(image)[1] = 0 /\ FILEHDR <= d_size
              /\ Len(image.chunks) \in Nat
          <6>1. HeaderAt(image)[1] = FILEHDR /\ OutAt(image)[1] = 0
            BY <2>3, <4>3, ChunkSteps
          <6>2. d_size = HeaderAt(image)[Len(image.chunks) + 1] /\ Len(image.chunks) \in Nat \ {0}
            BY <2>3, <4>3, ChunkSteps
          <6>3. 1 \in 1..Len(image.chunks) + 1 /\ Len(image.chunks) + 1 \in 1..Len(image.chunks) + 1
                /\ 1 < Len(image.chunks) + 1 /\ 1 + 1 \in 1..Len(image.chunks) + 1
            BY <6>2
          <6>4. HeaderAt(image)[1 + 1] <= d_size /\ HeaderAt(image)[1 + 1] \in Nat
            BY <2>3, <4>3, <6>2, <6>3, ChunkOrder
          <6>5. /\ HeaderAt(image)[1 + 1] = HeaderAt(image)[1] + (CHUNKHDR + RawLen(image.chunks[1]))
                /\ RawLen(image.chunks[1]) \in {0, image.chunks[1].len} /\ image.chunks[1].len \in Nat
            <7>1. image \in Images /\ 1 \in 1..Len(image.chunks)
              BY <2>3, <6>2
            <7> QED
              BY <4>3, <7>1, ChunkStep, Zenon
          <6>6. RawLen(image.chunks[1]) \in Nat /\ CHUNKHDR \in Nat
            BY <6>5, ImageDownloadAssumption
          <6> QED
            BY <2>3, <6>1, <6>2, <6>4, <6>5, <6>6
        <5>3. FILEHDR <= Len(buf)
          BY <2>2, <2>3, <3>3, <5>2 DEF Min2
        <5>4. buf = Slice(image, 0, Len(buf))
          BY <2>2, <3>3 DEF NextPiece
        <5>5. PartIsSlice(image, 0, Len(buf), FILEHDR, Len(buf))
          BY <2>2, <2>3, <5>3, SliceSub
        <5>6. Len(work') = Len(buf) - FILEHDR
          BY <2>2, <2>3, <5>1, <5>3, ConsumedProps, Zenon
        <5>7. work' = Slice(image, FILEHDR, Len(work'))
          <6>1. 0 + FILEHDR = FILEHDR
            BY <2>3
          <6> QED
            BY <5>1, <5>4, <5>5, <5>6, <6>1, Zenon DEF PartIsSlice, CONSUMED
        <5>8. d_bytes' + length' - Len(work') = FILEHDR
          BY <2>1, <2>2, <2>3, <3>3, <5>6
        <5>9. InPlace(d_direct_offset)'
          <6> SUFFICES ASSUME NEW s \in DOMAIN Expected(image), s < 0 PROVE FALSE
            BY <2>1, <5>1 DEF InPlace
          <6>1. s \in Nat
            BY <2>3, <4>3, <1>SectorNumbers
          <6> QED
            BY <6>1
        <5>10. /\ FILEHDR + 0 = HeaderAt(image)[0 + 1] /\ 0 * BLK + 0 = OutAt(image)[0 + 1] * BLK
               /\ 0 <= Len(image.chunks)
          BY <2>3, <5>2
        <5>11. Tracks(d_bytes + length - Len(work), work)'
          BY <2>1, <2>3, <3>2, <4>3, <5>1, <5>7, <5>8, <5>9, <5>10 DEF Tracks
        <5> QED
          BY <2>1, <5>1, <5>11 DEF SparseInv, EndInv
      <4> QED
        BY <4>2, <4>3
    <3>4. CASE d_bytes # 0
      <4>1. CASE Len(buf) + Len(d_cache) > TRANS + BLK
        <5>1. step' = "done" /\ d_status' = -1
          BY <2>6, <3>1, <3>4, <4>1 DEF Receive, handleDownload, Failed
        <5> QED
          BY <5>1 DEF SparseInv, EndInv
      <4>2. CASE ~ (Len(buf) + Len(d_cache) > TRANS + BLK)
        <5>1. /\ work' = d_cache \o buf
              /\ step' = IF flag_sparse /\ d_direct_size = 0 THEN "chunk" ELSE "direct"
              /\ UNCHANGED <<d_status, flag_sparse, sparse_cur_chunk, d_direct_size, d_direct_offset>>
          BY <2>6, <3>1, <3>4, <4>2 DEF Receive, handleDownload, progress
        <5>2. CASE ~flag_sparse
          BY <5>1, <5>2 DEF SparseInv, EndInv
        <5>3. CASE flag_sparse
          <6> DEFINE n == d_bytes - Len(d_cache)
                     a == Len(d_cache)
          <6>1. Tracks(n, d_cache) /\ (d_direct_size # 0 => InExtent)
            BY <2>1, <2>3, <2>6, <3>4, <5>3 DEF FullInv, SparseInv
          <6>2. /\ n \in Nat /\ d_cache = Slice(image, n, a)
            BY <6>1 DEF Tracks
          <6>3. buf = Slice(image, n + a, Len(buf))
            <7>1. n + a = d_bytes
              BY <2>3
            <7> QED
              BY <2>2, <7>1 DEF NextPiece
          <6>4. work' = Slice(image, n, a + Len(buf))
            <7> DEFINE b == Len(buf)
            <7>1. a \in Nat /\ b \in Nat /\ buf = Slice(image, n + a, b)
              BY <2>2, <2>3, <6>3
            <7> HIDE DEF n, a, b, buf
            <7>2. Slice(image, n, a) \o Slice(image, n + a, b) = Slice(image, n, a + b)
              <8>1. image \in Images /\ n \in Nat /\ a \in Nat /\ b \in Nat
                BY <2>3, <6>2, <7>1
              <8> QED
                BY <8>1, <1>SliceCat, Zenon
            <7> QED
              BY <5>1, <6>2, <7>1, <7>2 DEF b
          <6>5. Len(work') = a + Len(buf)
            <7> HIDE DEF buf
            <7>1. Len(d_cache \o buf) = Len(d_cache) + Len(buf)
              BY <2>2, <2>3, ConcatProperties, Zenon
            <7> QED
              BY <5>1, <7>1
          <6>6. d_bytes' + length' - Len(work') = n
            BY <2>1, <2>2, <2>3, <6>5
          <6>7. Tracks(d_bytes + length - Len(work), work)'
            BY <2>1, <5>1, <6>1, <6>2, <6>4, <6>5, <6>6 DEF Tracks, InPlace
          <6>8. step' = "direct" => InExtent'
            BY <2>1, <5>1, <5>3, <6>1 DEF InExtent
          <6> QED
            BY <2>1, <5>1, <5>3, <6>7, <6>8 DEF SparseInv, EndInv
        <5> QED
          BY <5>2, <5>3
      <4> QED
        BY <4>1, <4>2
    <3> QED
      BY <3>3, <3>4
  <2> QED
      BY <2>4, <2>5, <2>6
(* What arrives after a failure is ignored.                                *)
<1>IgnoredFull.
      ASSUME FullInv, NEW buf, d_status # 0, Receive(buf)
      PROVE  SparseInv' /\ EndInv'
  <2> USE <1>IgnoredFull
  <2>1. d_status = -1
      BY DEF FullInv, DInv, DTypeOK, Receive
  <2>2. d_legacy' \/ (step' = "done" /\ d_status' = -1)
      BY <2>1 DEF Receive, handleDownload, Failed, progress
  <2> QED
      BY <2>2 DEF SparseInv, EndInv
(* The end of a piece.                                                     *)
<1>FinishFull.
      ASSUME FullInv, Finish
      PROVE  SparseInv' /\ EndInv'
  <2> USE <1>FinishFull
  <2>1. /\ DTypeOK /\ step = "done" /\ step' = "idle"
        /\ UNCHANGED <<image, pending_ptn, d_legacy, disk, d_cache, work, length,
                       d_status, flag_sparse, sparse_cur_chunk, d_direct_size, d_direct_offset>>
      BY DEF FullInv, DInv, Finish, progress
  <2>2. EndInv'
      BY <2>1 DEF EndInv
  <2>3. ASSUME flag_sparse, ~d_legacy, d_size' # 0, d_status' = 0
        PROVE  /\ Tracks(d_bytes - Len(d_cache), d_cache)'
               /\ d_direct_size' # 0 => InExtent'
    <3>1. d_size # 0 /\ d_status = 0
      BY <2>1, <2>3 DEF Finish, FullInv, DInv
    <3>2. d_bytes' = d_bytes + length
      BY <2>1, <3>1 DEF Finish, DTypeOK
    <3>3. Tracks(d_bytes + length - Len(d_cache), d_cache) /\ (d_direct_size # 0 => InExtent)
      BY <2>1, <2>3, <3>1 DEF FullInv, SparseInv
    <3>4. d_bytes + length - Len(d_cache) = (d_bytes + length) - Len(d_cache)
      BY <2>1 DEF DTypeOK
    <3>5. Tracks((d_bytes + length) - Len(d_cache), d_cache)
      BY <3>3, <3>4
    <3> QED
      BY <2>1, <3>2, <3>3, <3>5 DEF Tracks, InPlace, InExtent
  <2> QED
      BY <2>1, <2>2, <2>3 DEF SparseInv
<1>1. DInv'
    BY StepInv DEF FullInv
<1>2. SparseInv' /\ EndInv'
  <2>1. CASE Command \/ (\E img \in Images, legacy \in BOOLEAN : Download(img, legacy))
    BY <2>1, ImageDownloadAssumption DEF Command, Download, SparseInv, EndInv
  <2>2. CASE (\E legacy \in BOOLEAN : DownloadRefused(legacy)) \/ Restart
    BY <2>2 DEF DownloadRefused, Restart, SparseInv, EndInv
  <2>3. CASE d_status = 0 /\ Receive(NextPiece)
    BY <2>3, <1>ReceiveFull
  <2>4. CASE d_status # 0 /\ \E n \in 1..TRANS : Receive(Slice(image, 0, n))
    BY <2>4, <1>IgnoredFull
  <2>5. CASE \E ok \in BOOLEAN : handleDirectDownload(ok)
    BY <2>5, <1>DirectFull, <1>DirectRawFull
  <2>6. CASE handleSparseDownload
    BY <2>6, <1>ChunkFull
  <2>7. CASE Finish
    BY <2>7, <1>FinishFull
  <2>8. CASE UNCHANGED dlVars
    BY <2>8, Zenon DEF FullInv, dlVars, progress, SparseInv, EndInv, Tracks, InPlace, InExtent, NextPiece, Holds
  <2> QED
    BY <2>1, <2>2, <2>3, <2>4, <2>5, <2>6, <2>7, <2>8 DEF DNext
<1> QED
    BY <1>1, <1>2 DEF FullInv

(* The download path keeps its place in a sparse image and on the medium,  *)
(* whatever the chunks and wherever the transfers split them.              *)
THEOREM DownloadTracked == DSpec => []FullInv
<1>1. DInit => FullInv
    BY InitInv DEF FullInv, DInit, SparseInv, EndInv
<1>2. FullInv /\ [DNext]_dlVars => FullInv'
    BY FullStep
<1> QED
    BY <1>1, <1>2, PTL DEF DSpec

(* The invariant says that a download called complete is on the medium.    *)
LEMMA FullComplete ==
    ASSUME FullInv
    PROVE  ImageComplete
<1> SUFFICES ASSUME step = "done", d_status = 1, ~d_legacy
             PROVE  d_bytes + length = d_size /\ Holds(disk[pending_ptn], image)
    BY DEF ImageComplete
<1>1. d_bytes + length = d_size
    BY DEF FullInv, EndInv
<1>2. CASE flag_sparse
    BY <1>1, <1>2 DEF FullInv, SparseInv, DInv
<1>3. CASE ~flag_sparse
    BY <1>1, <1>3, InvRawComplete DEF FullInv, RawComplete
<1> QED
    BY <1>1, <1>2, <1>3

(* rkimage_handleDownload calls a download complete, raw or sparse, when   *)
(* its last byte has arrived and all of it is on the medium, and not       *)
(* before.                                                                 *)
THEOREM ImageIsComplete == DSpec => []ImageComplete
    BY FullComplete, DownloadTracked, PTL

=============================================================================
