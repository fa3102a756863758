-------------------------- MODULE VendorReadFault --------------------------
(***************************************************************************)
(* Vendor storage when vendor_storage_init meets a read error.  The scan   *)
(* reads each copy's first and last sector into g_vendor itself, so an     *)
(* early return leaves g_vendor with pieces of the copies read so far.     *)
(* StorageInit drops the result; bootrk keeps it in vendor_ret, prints a   *)
(* message and goes on to vendor_storage_read.                             *)
(***************************************************************************)
EXTENDS VendorStorage

VARIABLE vendor_ret     \* result of the last vendor_storage_init

faultVars == <<vars, vendor_ret>>

OverFirst(g, f) == [g EXCEPT !.tag = f.tag, !.version = f.version,
                             !.next_index = f.next_index, !.table = f.table]

(* g after n successful sector reads of the scan.                          *)
ScanReads(ps, g, n) ==
    LET firsts == (n + 1) \div 2
        lasts  == n \div 2
        g1 == IF firsts = 0 THEN g ELSE OverFirst(g, ps[firsts - 1].first)
    IN  IF lasts = 0 THEN g1 ELSE [g1 EXCEPT !.version2 = ps[lasts - 1].last]

(* The states an init that returns -1 may leave behind: it fails at read   *)
(* n+1 of the scan, or while loading the newest copy.                      *)
FailedInits(ps, g) ==
    LET scanned == ScanReads(ps, g, 2 * PartNum)
        n == Newest(ps)
    IN  {ScanReads(ps, g, k) : k \in 0 .. 2 * PartNum - 1}
        \cup IF HasValid(ps)
             THEN {scanned, OverFirst(scanned, ps[n].first),
                   [OverFirst(scanned, ps[n].first) EXCEPT !.data = ps[n].body]}
             ELSE {}

InitRet(m) == IF m = "EMMC" THEN 0 ELSE -1

FaultInit == Init /\ vendor_ret = 0

StorageInitFails ==
    /\ media = "OFF"
    /\ media' = "EMMC"
    /\ g_vendor' \in FailedInits(parts, ZeroVendor)
    /\ vendor_ret' = -1
    /\ fails' = 0
    /\ UNCHANGED <<parts, wr>>

ReInitFails ==
    /\ media = "EMMC" /\ ~Busy
    /\ g_vendor' \in FailedInits(parts, g_vendor)
    /\ vendor_ret' = -1
    /\ UNCHANGED <<parts, wr, media, fails>>

FaultNext ==
    \/ \E m \in {"EMMC", "SD0"} : StorageInit(m) /\ vendor_ret' = InitRet(m)
    \/ ReInit /\ vendor_ret' = InitRet(media)
    \/ \E id \in Ids, v \in Vals : \E size \in Sizes[id] :
          vendor_storage_write(id, v, size) /\ UNCHANGED vendor_ret
    \/ (ProgramSectors \/ WriteFails \/ PowerLoss) /\ UNCHANGED vendor_ret
    \/ StorageInitFails
    \/ ReInitFails

FaultSpec == FaultInit /\ [][FaultNext]_faultVars

=============================================================================
