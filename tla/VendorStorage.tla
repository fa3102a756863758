--------------------------- MODULE VendorStorage ---------------------------
(***************************************************************************)
(* Vendor storage of board/rockchip/common/storage/storage.c: a small      *)
(* store of items (serial number, MAC address, keys, the OEM lock) kept in *)
(* RAM as g_vendor and on the medium as PartNum copies written in turn.    *)
(* A copy holds its version in its first sector and again, as version2, in *)
(* its last one, so that a write cut short is told from a complete one.    *)
(*                                                                         *)
(* The medium programs the sectors of one write in ascending order; power  *)
(* may go, or the write may fail, between any two of them.                 *)
(***************************************************************************)
EXTENDS VendorItems

CONSTANTS
    PartNum,     \* VENDOR_PART_NUM (4), NAND_VENDOR_PART_NUM (2)
    MaxVersion,  \* bound on version, a u32 in the code
    MaxFails     \* bound on write failures in a row without a restart

ASSUME PartAssumption ==
    /\ PartNum \in Nat \ {0, 1} /\ MaxVersion \in Nat /\ MaxFails \in Nat
    /\ MaxFails <= PartNum - 2

VARIABLES
    g_vendor,    \* the copy in RAM
    parts,       \* the copies on the medium: first sector, body, last sector
    wr,          \* the multi-sector write under way: where, and sectors done
    media,       \* StorageGetBootMedia(): EMMC, SD0, or OFF before StorageInit
    fails        \* write failures since the last complete write or restart

vars == <<g_vendor, parts, wr, media, fails>>

Parts == 0 .. PartNum - 1

Sectors == 3     \* first, body (the 126 between), last

Idle == [part |-> 0, done |-> Sectors]

Busy == wr.done < Sectors

(* The first sector: tag, version, next_index and the item table (the      *)
(* table's first 62 entries; the rest begins the body).                    *)
First(g) == [tag |-> g.tag, version |-> g.version,
             next_index |-> g.next_index, table |-> g.table]

ZeroVendor == [tag |-> FALSE, version |-> 0, next_index |-> 0,
               table |-> ZeroTable, data |-> ZeroData, version2 |-> 0]

ErasedPart == [first |-> First(ZeroVendor), body |-> ZeroData, last |-> 0]

(* Faulty variant: version2 is not compared.                               *)
ValidAnyTail(ps, p) == ps[p].first.tag /\ ps[p].first.version > 0

Valid(ps, p) == ps[p].first.tag /\ ps[p].last = ps[p].first.version
                /\ ps[p].first.version > 0

(* The scan keeps the first copy of the highest version.                   *)
IsNewest(ps, p) ==
    /\ Valid(ps, p)
    /\ \A q \in Parts : Valid(ps, q) =>
          \/ ps[q].first.version < ps[p].first.version
          \/ ps[q].first.version = ps[p].first.version /\ p <= q

HasValid(ps) == \E p \in Parts : Valid(ps, p)

Newest(ps) == CHOOSE p \in Parts : IsNewest(ps, p)

FreshVendor == [tag |-> TRUE, version |-> 1, next_index |-> 0,
                table |-> EmptyTable, data |-> ZeroData, version2 |-> 1]

LoadPart(c) == [tag |-> c.first.tag, version |-> c.first.version,
                next_index |-> c.first.next_index, table |-> c.first.table,
                data |-> c.body, version2 |-> c.last]

(* vendor_storage_init when every read succeeds.                           *)
Recovered(ps) == IF HasValid(ps) THEN LoadPart(ps[Newest(ps)]) ELSE FreshVendor

(* vendor_ops knows no medium but eMMC in this build: on an SD card it     *)
(* returns -1 at the first read and g_vendor stays as it was.              *)
vendor_storage_init(m, ps, ram) == IF m = "EMMC" THEN Recovered(ps) ELSE ram

vendor_info == [tag : BOOLEAN, version : Nat, next_index : Parts, table : Table,
                data : [Cells -> Vals \cup {0}], version2 : Nat]

Part == [first : [tag : BOOLEAN, version : Nat, next_index : Parts, table : Table],
         body : [Cells -> Vals \cup {0}], last : Nat]

TypeOK ==
    /\ g_vendor \in vendor_info
    /\ parts \in [Parts -> Part]
    /\ wr \in [part : Parts, done : 0 .. Sectors]
    /\ media \in {"OFF", "EMMC", "SD0"}
    /\ fails \in 0 .. MaxFails

Init ==
    /\ g_vendor = ZeroVendor
    /\ parts = [p \in Parts |-> ErasedPart]
    /\ wr = Idle
    /\ media = "OFF"
    /\ fails = 0

(* Power on: StorageInit picks the medium and loads vendor storage; the    *)
(* RAM copy was zeroed with the rest of .bss.                              *)
StorageInit(m) ==
    /\ media = "OFF"
    /\ media' = m
    /\ g_vendor' = vendor_storage_init(m, parts, ZeroVendor)
    /\ fails' = 0
    /\ UNCHANGED <<parts, wr>>

(* bootrk and the HDMI driver call vendor_storage_init again.              *)
ReInit ==
    /\ media # "OFF" /\ ~Busy
    /\ g_vendor' = vendor_storage_init(media, parts, g_vendor)
    /\ fails' = IF media = "EMMC" THEN 0 ELSE fails
    /\ UNCHANGED <<parts, wr, media>>

(* Faulty variant: the ring does not wrap.                                 *)
NoWrap(i) == i + 1

next_index_of(i) == IF i + 1 >= PartNum THEN 0 ELSE i + 1

(* Faulty variants: next_index is not advanced; version2 is not set.       *)
WriteInPlace(id, v, size) ==
    LET w == WriteItem(g_vendor.table, g_vendor.data, id, v, size)
    IN  /\ media = "EMMC" /\ ~Busy /\ g_vendor.version < MaxVersion /\ w.ok
        /\ g_vendor' = [g_vendor EXCEPT !.table = w.table, !.data = w.data,
                                        !.version = @ + 1, !.version2 = @ + 1]
        /\ wr' = [part |-> g_vendor.next_index, done |-> 0]
        /\ UNCHANGED <<parts, media, fails>>

WriteOldTail(id, v, size) ==
    LET w == WriteItem(g_vendor.table, g_vendor.data, id, v, size)
    IN  /\ media = "EMMC" /\ ~Busy /\ g_vendor.version < MaxVersion /\ w.ok
        /\ g_vendor' = [g_vendor EXCEPT !.table = w.table, !.data = w.data,
                                        !.version = @ + 1,
                                        !.next_index = next_index_of(@)]
        /\ wr' = [part |-> g_vendor.next_index, done |-> 0]
        /\ UNCHANGED <<parts, media, fails>>

(* vendor_storage_write up to its call of vendor_ops: the RAM copy takes   *)
(* the item and the next version, and its write to the copy at the old     *)
(* next_index begins.  On an SD card vendor_ops fails at once, and the     *)
(* result is ignored.                                                      *)
vendor_storage_write(id, v, size) ==
    LET w == WriteItem(g_vendor.table, g_vendor.data, id, v, size)
    IN  /\ media # "OFF" /\ ~Busy
        /\ g_vendor.version < MaxVersion
        /\ w.ok
        /\ g_vendor' = [g_vendor EXCEPT !.table = w.table, !.data = w.data,
                                        !.version = g_vendor.version + 1,
                                        !.version2 = g_vendor.version + 1,
                                        !.next_index = next_index_of(@)]
        /\ wr' = IF media = "EMMC"
                 THEN [part |-> g_vendor.next_index, done |-> 0]
                 ELSE Idle
        /\ UNCHANGED <<parts, media, fails>>

(* The next sectors of the write reach the medium.                         *)
ProgramSectors ==
    /\ Busy
    /\ parts' = [parts EXCEPT ![wr.part] =
                   CASE wr.done = 0 -> [@ EXCEPT !.first = First(g_vendor)]
                     [] wr.done = 1 -> [@ EXCEPT !.body = g_vendor.data]
                     [] wr.done = 2 -> [@ EXCEPT !.last = g_vendor.version2]]
    /\ wr' = IF wr.done = Sectors - 1 THEN Idle ELSE [wr EXCEPT !.done = @ + 1]
    /\ fails' = IF wr.done = Sectors - 1 THEN 0 ELSE fails
    /\ UNCHANGED <<g_vendor, media>>

(* vendor_ops returns an error after some sectors; the caller drops it.    *)
WriteFails ==
    /\ Busy /\ fails < MaxFails
    /\ wr' = Idle
    /\ fails' = fails + 1
    /\ UNCHANGED <<g_vendor, parts, media>>

PowerLoss ==
    /\ media # "OFF"
    /\ media' = "OFF"
    /\ g_vendor' = ZeroVendor
    /\ wr' = Idle
    /\ fails' = 0
    /\ UNCHANGED parts

Next ==
    \/ \E m \in {"EMMC", "SD0"} : StorageInit(m)
    \/ ReInit
    \/ \E id \in Ids, v \in Vals : \E size \in Sizes[id] : vendor_storage_write(id, v, size)
    \/ ProgramSectors
    \/ WriteFails
    \/ PowerLoss

Spec == Init /\ [][Next]_vars

-----------------------------------------------------------------------------
(* What a restart would load.                                              *)
OnMedium == Recovered(parts)

(* Whenever no write is under way and none has failed since the last       *)
(* complete one, a restart would load exactly the RAM copy: every          *)
(* vendor_storage_write that returned 0 is on the medium.                  *)
Durable == media = "EMMC" /\ ~Busy /\ fails = 0 => OnMedium = g_vendor

(* The copy a write overwrites is never the newest complete one, so power  *)
(* loss at any sector of any write leaves the last complete copy intact.   *)
NewestSpared == Busy /\ HasValid(parts) => wr.part # Newest(parts)

(* What a restart would load changes only when the last sector of a write  *)
(* lands, and then to the whole RAM copy: no step, power loss and failed   *)
(* writes included, leaves a mixture of two copies or an older one.        *)
CrashAtomic ==
    [][OnMedium' # OnMedium => /\ wr.done = Sectors - 1
                               /\ OnMedium' = g_vendor]_vars

(* The items of the copy a restart would load never overlap and are        *)
(* inside data (vendor_storage_write places them).                         *)
ItemsDisjoint == Disjoint(OnMedium.table) /\ Disjoint(g_vendor.table)

-----------------------------------------------------------------------------
(* j places further round the ring of copies.                              *)
Step(i, j) == IF i + j >= PartNum THEN i + j - PartNum ELSE i + j

(* Writes the RAM copy is ahead of the medium by.                          *)
Ahead == IF Busy THEN fails + 1 ELSE fails

(* The ring of copies: the newest copy is unique, points at its successor, *)
(* and carries the highest version of any last sector.                     *)
RingInv ==
    /\ HasValid(parts) =>
         /\ \E p \in Parts : IsNewest(parts, p)
         /\ OnMedium.next_index = next_index_of(Newest(parts))
    /\ \A p \in Parts : parts[p].last <= OnMedium.version

(* The RAM copy is Ahead writes past the medium, in version and in place,  *)
(* and the copy being written holds its sectors up to wr.done.             *)
RamInv ==
    media = "EMMC" =>
      /\ g_vendor.tag
      /\ g_vendor.version = OnMedium.version + Ahead
      /\ g_vendor.version2 = g_vendor.version
      /\ g_vendor.next_index = Step(OnMedium.next_index, Ahead)
      /\ Ahead = 0 => OnMedium = g_vendor
      /\ Busy =>
           /\ wr.part = Step(OnMedium.next_index, fails)
           /\ wr.done >= 1 => parts[wr.part].first = First(g_vendor)
           /\ wr.done >= 2 => parts[wr.part].body = g_vendor.data

(* The inductive invariant behind Durable, NewestSpared and CrashAtomic.   *)
IInv == TypeOK /\ RingInv /\ RamInv /\ (media # "EMMC" => ~Busy)

(* The one behind ItemsDisjoint and Atomic, for sizes that keep their      *)
(* granules: every table in RAM and on the medium is well placed.          *)
PlacedInv == Placed(g_vendor.table) /\ \A p \in Parts : Placed(parts[p].first.table)

-----------------------------------------------------------------------------
(* The store as its callers see it: VendorStore, with mem what             *)
(* vendor_storage_read returns now and dur what it returns after a restart.*)
Contents(g) == [id \in Ids |-> vendor_storage_read(g.table, g.data, id)]

Store == INSTANCE VendorStore WITH
    Keys <- Ids,
    Detached <- [k \in Ids |-> [found |-> FALSE, detached |-> TRUE]],
    Absent <- NotFound,
    mem <- IF media = "EMMC" THEN Contents(g_vendor) ELSE [k \in Ids |-> [found |-> FALSE, detached |-> TRUE]],
    dur <- Contents(OnMedium)

(* Vendor storage is a crash-atomic key-value store: a write changes the   *)
(* item it names and no other, and a restart brings back the contents at   *)
(* some complete write.                                                    *)
Atomic == Store!Spec
=============================================================================
