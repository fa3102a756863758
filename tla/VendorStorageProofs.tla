------------------------ MODULE VendorStorageProofs ------------------------
(***************************************************************************)
(* Proofs that vendor storage survives power loss and failed writes, for   *)
(* any number of copies, items, sizes and versions; and, when every item   *)
(* keeps the granules it was first given, that items lie apart and that    *)
(* vendor storage implements the crash-atomic key-value store of           *)
(* VendorStore.                                                            *)
(***************************************************************************)
EXTENDS VendorStorage, WellFoundedInduction, SequenceTheorems, TLAPS

-----------------------------------------------------------------------------
(* Every nonempty set of natural numbers has a least element; the table    *)
(* scans of vendor_storage_read and vendor_storage_write return it.        *)
LEMMA LeastElement ==
    ASSUME NEW S \in SUBSET Nat, S # {}
    PROVE  \E n \in S : \A m \in S : n <= m
<1> DEFINE R == OpToRel(<, Nat)
<1>1. IsWellFoundedOn(R, Nat)
    BY NatLessThanWellFounded, Zenon
<1>2. \A m, n \in Nat : m < n => <<m, n>> \in R
    BY DEF OpToRel
<1> HIDE DEF R
<1>3. PICK n \in S : \A m \in S : ~ (<<m, n>> \in R)
    BY <1>1, WFMin, Zenon
<1>4. ASSUME NEW m \in S PROVE n <= m
  <2>1. m \in Nat /\ n \in Nat
    OBVIOUS
  <2>2. ~ (m < n)
    BY <1>2, <1>3, <2>1, Zenon
  <2> QED
    BY <2>1, <2>2
<1> QED
    BY <1>4

-----------------------------------------------------------------------------
(* Types of the operators.                                                 *)

(* Rounding a size up to the granule yields a natural number.              *)
LEMMA AlginType ==
    ASSUME NEW size \in Nat
    PROVE  algin_size(size) \in Nat
<1> DEFINE q == (size + ALIGN - 1) \div ALIGN
<1>1. ALIGN \in Nat /\ ALIGN > 0
    BY ItemsAssumption
<1>2. size + ALIGN - 1 \in Nat
    BY <1>1
<1>3. q \in Nat
    BY <1>1, <1>2
<1> HIDE DEF q
<1>4. q * ALIGN \in Nat
    BY <1>1, <1>3
<1> QED
    BY <1>4 DEF algin_size, q

(* A successful vendor_storage_write leaves a well-typed item area.        *)
LEMMA WriteItemType ==
    ASSUME NEW t \in Table, NEW data \in [Cells -> Vals \cup {0}],
           NEW id \in Ids, NEW v \in Vals, NEW size \in Sizes[id],
           WriteItem(t, data, id, v, size).ok
    PROVE  /\ WriteItem(t, data, id, v, size).table \in Table
           /\ WriteItem(t, data, id, v, size).data \in [Cells -> Vals \cup {0}]
<1>1. size \in Nat
    BY ItemsAssumption
<1>2. \A off \in Nat : memcpy(data, off, v, size) \in [Cells -> Vals \cup {0}]
    BY DEF memcpy
<1>3. CASE Slots(t, id) # {}
  <2> DEFINE i == SlotOf(t, id)
             item == [t.item EXCEPT ![i].size = size]
  <2>1. i \in DOMAIN t.item
    <3>1. Slots(t, id) \in SUBSET Nat
      BY DEF Slots, Table
    <3> QED
      BY <1>3, <3>1, LeastElement, Zenon DEF SlotOf, Slots
  <2>2. t.item \in Seq(Item) /\ t.item[i] \in Item
    BY <2>1 DEF Table
  <2>3. [t.item[i] EXCEPT !.size = size] \in Item
    BY <1>1, <2>2, Zenon DEF Item
  <2>4. item \in Seq(Item)
    BY <2>1, <2>2, <2>3, ExceptSeq
  <2>5. [t EXCEPT !.item = item] \in Table
    BY <2>4 DEF Table
  <2>6. t.item[i].offset \in Nat
    BY <2>2 DEF Item
  <2> QED
    BY <1>2, <1>3, <2>5, <2>6 DEF WriteItem, Rewrite
<1>4. CASE Slots(t, id) = {}
  <2>1. algin_size(size) \in Nat
    BY <1>1, AlginType
  <2>2. t.free_size >= algin_size(size)
    BY <1>4, Zenon DEF WriteItem, Append_
  <2> QED
    BY <1>1, <1>2, <1>4, <2>1, <2>2 DEF WriteItem, Append_, Table, Item
<1> QED
    BY <1>3, <1>4

-----------------------------------------------------------------------------
(* The ring of copies.                                                     *)

(* At most one copy is the newest.                                         *)
LEMMA NewestUnique ==
    ASSUME NEW ps,
           \A p \in Parts : ps[p].first.version \in Nat,
           NEW p \in Parts, IsNewest(ps, p)
    PROVE  HasValid(ps) /\ Newest(ps) = p
<1>1. \A q \in Parts : IsNewest(ps, q) => q = p
    BY DEF IsNewest, Parts
<1>2. IsNewest(ps, Newest(ps)) /\ Newest(ps) \in Parts
    BY DEF Newest
<1> QED
    BY <1>1, <1>2 DEF IsNewest, HasValid

(* Overwriting a copy that is not the newest, with one that is not         *)
(* complete, does not change what a restart would load.                    *)
LEMMA SparedUnchanged ==
    ASSUME NEW ps, NEW qs, NEW w \in Parts,
           \A p \in Parts : ps[p].first.version \in Nat /\ qs[p].first.version \in Nat,
           \A p \in Parts \ {w} : qs[p] = ps[p],
           HasValid(ps) => (\E p \in Parts : IsNewest(ps, p)) /\ w # Newest(ps),
           ~ Valid(qs, w)
    PROVE  /\ Recovered(qs) = Recovered(ps)
           /\ HasValid(qs) <=> HasValid(ps)
           /\ HasValid(qs) => IsNewest(qs, Newest(qs)) /\ Newest(qs) = Newest(ps)
<1>1. CASE HasValid(ps)
  <2> DEFINE n == Newest(ps)
  <2>1. n \in Parts /\ IsNewest(ps, n) /\ n # w
    BY <1>1 DEF Newest
  <2> HIDE DEF n
  <2>2. \A q \in Parts : Valid(qs, q) => q # w /\ Valid(ps, q)
    BY DEF Valid
  <2>3. qs[n] = ps[n]
    BY <2>1
  <2>4. IsNewest(qs, n)
    BY <2>1, <2>2, <2>3 DEF IsNewest, Valid
  <2>5. HasValid(qs) /\ Newest(qs) = n
    BY <2>1, <2>4, NewestUnique
  <2> QED
    BY <1>1, <2>3, <2>4, <2>5 DEF Recovered, n
<1>2. CASE ~ HasValid(ps)
  <2>1. ~ HasValid(qs)
    BY <1>2 DEF HasValid, Valid
  <2> QED
    BY <1>2, <2>1 DEF Recovered
<1> QED
    BY <1>1, <1>2

(* What a restart loads is a well-typed copy.                              *)
LEMMA RecoveredType ==
    ASSUME TypeOK, RingInv
    PROVE  OnMedium \in vendor_info /\ OnMedium.version >= 1 /\ OnMedium.tag
           /\ OnMedium.version2 = OnMedium.version
<1>1. CASE HasValid(parts)
  <2> DEFINE n == Newest(parts)
  <2>1. n \in Parts /\ Valid(parts, n)
    BY <1>1 DEF RingInv, Newest, IsNewest
  <2> HIDE DEF n
  <2>2. parts[n] \in Part
    BY <2>1 DEF TypeOK
  <2>3. OnMedium = LoadPart(parts[n])
    BY <1>1 DEF OnMedium, Recovered, n
  <2> QED
    BY <2>1, <2>2, <2>3 DEF LoadPart, Part, vendor_info, Valid
<1>2. CASE ~ HasValid(parts)
  <2>1. FreshVendor \in vendor_info
    <3>1. 0 \in Parts
      BY PartAssumption DEF Parts
    <3>2. EmptyTable \in Table
      BY ItemsAssumption, EmptySeq DEF EmptyTable, Table
    <3>3. ZeroData \in [Cells -> Vals \cup {0}]
      BY DEF ZeroData
    <3> QED
      BY <3>1, <3>2, <3>3 DEF FreshVendor, vendor_info
  <2> QED
    BY <1>2, <2>1 DEF OnMedium, Recovered, FreshVendor
<1> QED
    BY <1>1, <1>2

(* The invariant holds on an erased medium.                                *)
LEMMA InitIInv == Init => IInv
<1> SUFFICES ASSUME Init PROVE IInv
    OBVIOUS
<1>1. ZeroVendor \in vendor_info /\ ErasedPart \in Part
  <2>1. 0 \in Parts
    BY PartAssumption DEF Parts
  <2>2. ZeroTable \in Table
    BY EmptySeq DEF ZeroTable, Table
  <2>3. ZeroData \in [Cells -> Vals \cup {0}]
    BY DEF ZeroData
  <2> QED
    BY <2>1, <2>2, <2>3 DEF ZeroVendor, ErasedPart, vendor_info, Part, First
<1>2. TypeOK
    BY <1>1, PartAssumption DEF Init, TypeOK, Idle, Parts, Sectors
<1>3. ~ HasValid(parts)
    BY DEF Init, HasValid, Valid, ErasedPart, First, ZeroVendor
<1>4. RingInv
  <2>1. OnMedium.version = 1
    BY <1>3 DEF OnMedium, Recovered, FreshVendor
  <2> QED
    BY <1>3, <2>1 DEF RingInv, Init, ErasedPart
<1> QED
    BY <1>2, <1>4 DEF IInv, Init, RamInv, Idle, Busy, Sectors

(* A write is never aimed at the newest complete copy.                     *)
LEMMA IInvSpares == IInv => NewestSpared
<1> SUFFICES ASSUME IInv, Busy, HasValid(parts) PROVE wr.part # Newest(parts)
    BY DEF NewestSpared
<1> DEFINE n == Newest(parts)
<1>1. n \in Parts
    BY DEF IInv, RingInv, Newest
<1>2. wr.part = Step(next_index_of(n), fails)
    BY DEF IInv, RingInv, RamInv
<1>3. fails \in 0 .. MaxFails
    BY DEF IInv, TypeOK
<1> HIDE DEF n
<1>4. wr.part # n
    BY <1>1, <1>2, <1>3, PartAssumption DEF Step, next_index_of, Parts
<1> QED
    BY <1>4 DEF n

(* Advancing next_index by one advances the place in the ring by one.      *)
LEMMA StepNext ==
    ASSUME NEW i \in Parts, NEW f \in 0 .. MaxFails
    PROVE  /\ Step(i, f) \in Parts
           /\ next_index_of(Step(i, f)) = Step(i, f + 1)
           /\ Step(i, f + 1) \in Parts
           /\ Step(i, 0) = i
    BY PartAssumption DEF Step, next_index_of, Parts

(* The ring invariant and what a restart loads depend on parts only.       *)
LEMMA RingStutter ==
    ASSUME RingInv, UNCHANGED parts
    PROVE  RingInv' /\ OnMedium' = OnMedium
    BY DEF RingInv, OnMedium

(* Programming the first sector or the body keeps the invariant and leaves *)
(* what a restart loads alone.                                             *)
LEMMA ProgramEarly ==
    ASSUME IInv, ProgramSectors, wr.done # 2
    PROVE  IInv' /\ OnMedium' = OnMedium
<1> DEFINE w == wr.part
<1>1. /\ wr \in [part : Parts, done : 0 .. 3] /\ Busy /\ wr.done < 3
      /\ media = "EMMC"
    BY DEF IInv, TypeOK, ProgramSectors, Sectors, Busy
<1>2. /\ w \in Parts /\ parts \in [Parts -> Part] /\ g_vendor \in vendor_info
      /\ fails \in 0 .. MaxFails
    BY <1>1 DEF IInv, TypeOK
<1>3. wr.done = 0 \/ wr.done = 1
    BY <1>1
<1>4. /\ parts'[w].first = First(g_vendor)
      /\ parts'[w].last = parts[w].last
      /\ parts'[w] \in Part
      /\ \A p \in Parts \ {w} : parts'[p] = parts[p]
      /\ parts' \in [Parts -> Part]
      /\ wr.done = 1 => parts'[w].body = g_vendor.data
  <2>1. CASE wr.done = 0
    <3>1. First(g_vendor) \in [tag : BOOLEAN, version : Nat, next_index : Parts, table : Table]
      BY <1>2 DEF First, vendor_info
    <3>2. parts' = [parts EXCEPT ![w] = [parts[w] EXCEPT !.first = First(g_vendor)]]
      BY <2>1 DEF ProgramSectors
    <3> QED
      BY <1>2, <2>1, <3>1, <3>2 DEF Part
  <2>2. CASE wr.done = 1
    <3>1. parts' = [parts EXCEPT ![w] = [parts[w] EXCEPT !.body = g_vendor.data]]
      BY <2>2 DEF ProgramSectors
    <3>2. parts[w].first = First(g_vendor)
      BY <1>1, <2>2 DEF IInv, RamInv
    <3>3. g_vendor.data \in [Cells -> Vals \cup {0}]
      BY <1>2 DEF vendor_info
    <3> QED
      BY <1>2, <2>2, <3>1, <3>2, <3>3 DEF Part
  <2> QED
    BY <1>3, <2>1, <2>2
<1>5. OnMedium \in vendor_info
    BY RecoveredType DEF IInv
<1>6. g_vendor.version > parts[w].last
  <2>1. g_vendor.version = OnMedium.version + (fails + 1)
    BY <1>1 DEF IInv, RamInv, Ahead
  <2>2. parts[w].last <= OnMedium.version /\ parts[w].last \in Nat
    BY <1>2 DEF IInv, RingInv, Part
  <2> QED
    BY <1>2, <1>5, <2>1, <2>2 DEF vendor_info
<1>7. ~ Valid(parts', w)
    BY <1>2, <1>4, <1>6 DEF Valid, First, vendor_info, Part
<1>8. HasValid(parts) => (\E p \in Parts : IsNewest(parts, p)) /\ w # Newest(parts)
    BY <1>1, IInvSpares DEF IInv, RingInv, NewestSpared
<1>9. \A p \in Parts : parts[p].first.version \in Nat /\ parts'[p].first.version \in Nat
    BY <1>2, <1>4 DEF Part
<1>10. /\ Recovered(parts') = Recovered(parts)
       /\ HasValid(parts') <=> HasValid(parts)
       /\ HasValid(parts') => IsNewest(parts', Newest(parts')) /\ Newest(parts') = Newest(parts)
  <2> HIDE DEF w
  <2> QED
    BY <1>2, <1>4, <1>7, <1>8, <1>9, SparedUnchanged
<1>11. OnMedium' = OnMedium
    BY <1>10 DEF OnMedium
<1>12. RingInv'
  <2>1. HasValid(parts') => /\ \E p \in Parts : IsNewest(parts', p)
                            /\ OnMedium'.next_index = next_index_of(Newest(parts'))
    BY <1>8, <1>10, <1>11, Zenon DEF IInv, RingInv, Newest
  <2>2. \A p \in Parts : parts'[p].last = parts[p].last
    BY <1>4
  <2> QED
    BY <1>11, <2>1, <2>2 DEF IInv, RingInv
<1>13. /\ wr' = [wr EXCEPT !.done = wr.done + 1] /\ fails' = fails
       /\ media' = media /\ g_vendor' = g_vendor
    BY <1>3 DEF ProgramSectors, Sectors
<1>14. wr' \in [part : Parts, done : 0 .. 3] /\ wr'.part = w
       /\ wr'.done = wr.done + 1 /\ Busy'
    BY <1>1, <1>3, <1>13 DEF Busy, Sectors
<1>15. TypeOK'
    BY <1>4, <1>13, <1>14 DEF IInv, TypeOK, Sectors
<1>16. RamInv'
    BY <1>1, <1>3, <1>4, <1>11, <1>13, <1>14 DEF IInv, RamInv, Ahead
<1> QED
    BY <1>1, <1>11, <1>12, <1>13, <1>15, <1>16 DEF IInv

(* The last sector completes the copy: a restart now loads the RAM copy.   *)
LEMMA ProgramLast ==
    ASSUME IInv, ProgramSectors, wr.done = 2
    PROVE  IInv' /\ OnMedium' = g_vendor
<1> DEFINE w == wr.part
<1>1. /\ w \in Parts /\ Busy /\ media = "EMMC"
      /\ parts \in [Parts -> Part] /\ g_vendor \in vendor_info
      /\ fails \in 0 .. MaxFails
    BY DEF IInv, TypeOK, ProgramSectors
<1>2. /\ parts[w].first = First(g_vendor) /\ parts[w].body = g_vendor.data
      /\ w = Step(OnMedium.next_index, fails)
      /\ g_vendor.version = OnMedium.version + (fails + 1)
      /\ g_vendor.version2 = g_vendor.version
      /\ g_vendor.next_index = Step(OnMedium.next_index, fails + 1)
      /\ g_vendor.tag
    BY <1>1 DEF IInv, RamInv, Ahead
<1>3. /\ OnMedium \in vendor_info /\ OnMedium.version >= 1
      /\ OnMedium.version \in Nat /\ g_vendor.version \in Nat
    BY <1>1, RecoveredType DEF IInv, vendor_info
<1>4. /\ parts' = [parts EXCEPT ![w] = [parts[w] EXCEPT !.last = g_vendor.version2]]
      /\ wr' = Idle /\ fails' = 0 /\ media' = media /\ g_vendor' = g_vendor
    BY DEF ProgramSectors, Sectors
<1>5. /\ parts' \in [Parts -> Part]
      /\ parts'[w].first = First(g_vendor) /\ parts'[w].body = g_vendor.data
      /\ parts'[w].last = g_vendor.version
      /\ \A p \in Parts \ {w} : parts'[p] = parts[p]
  <2>1. [parts[w] EXCEPT !.last = g_vendor.version2] \in Part
    BY <1>1, <1>2, <1>3 DEF Part
  <2> QED
    BY <1>1, <1>2, <1>4, <2>1 DEF Part
<1>6. First(g_vendor).version = g_vendor.version /\ First(g_vendor).tag = g_vendor.tag
    BY DEF First
<1>7. Valid(parts', w)
    BY <1>1, <1>2, <1>3, <1>5, <1>6 DEF Valid
<1>8. \A p \in Parts : parts[p].last <= OnMedium.version /\ parts[p].last \in Nat
    BY <1>1 DEF IInv, RingInv, Part
<1>9. \A p \in Parts \ {w} : Valid(parts', p) => parts'[p].first.version < parts'[w].first.version
    BY <1>1, <1>2, <1>3, <1>5, <1>6, <1>8 DEF Valid
<1>10. IsNewest(parts', w)
    BY <1>1, <1>7, <1>9 DEF IsNewest, Parts
<1>11. \A p \in Parts : parts'[p].first.version \in Nat
    BY <1>5 DEF Part
<1>12. HasValid(parts') /\ Newest(parts') = w
  <2> HIDE DEF w
  <2> QED
    BY <1>1, <1>10, <1>11, NewestUnique
<1>13. OnMedium' = g_vendor
  <2>1. OnMedium' = LoadPart(parts'[w])
    BY <1>12 DEF OnMedium, Recovered
  <2>2. LoadPart(parts'[w]) = [tag |-> g_vendor.tag, version |-> g_vendor.version,
            next_index |-> g_vendor.next_index, table |-> g_vendor.table,
            data |-> g_vendor.data, version2 |-> g_vendor.version2]
    BY <1>2, <1>5 DEF LoadPart, First
  <2> QED
    BY <1>1, <2>1, <2>2 DEF vendor_info
<1>14. g_vendor.next_index = next_index_of(w)
  <2>1. OnMedium.next_index \in Parts
    BY <1>3 DEF vendor_info
  <2> QED
    BY <1>1, <1>2, <2>1, StepNext
<1>15. RingInv'
  <2>1. \A p \in Parts : parts'[p].last <= g_vendor.version
    BY <1>1, <1>2, <1>3, <1>5, <1>8
  <2> QED
    BY <1>1, <1>10, <1>12, <1>13, <1>14, <2>1 DEF RingInv
<1>16. TypeOK'
    BY <1>4, <1>5, PartAssumption DEF IInv, TypeOK, Idle, Sectors, Parts
<1>17. ~ Busy' /\ Ahead' = 0
    BY <1>4 DEF Idle, Busy, Ahead, Sectors
<1>18. RamInv'
  <2>1. g_vendor.next_index = Step(g_vendor.next_index, 0)
    BY <1>1, PartAssumption DEF vendor_info, Step, Parts
  <2>2. OnMedium' = g_vendor'
    BY <1>4, <1>13
  <2> QED
    BY <1>2, <1>3, <1>4, <1>17, <2>1, <2>2 DEF RamInv
<1> QED
    BY <1>13, <1>15, <1>16, <1>17, <1>18 DEF IInv

(* Every step keeps the invariant, and changes what a restart loads only   *)
(* by completing a copy.                                                   *)
LEMMA NextIInv ==
    ASSUME IInv, [Next]_vars
    PROVE  /\ IInv'
           /\ OnMedium' # OnMedium => wr.done = Sectors - 1 /\ OnMedium' = g_vendor
<1>1. ZeroVendor \in vendor_info
  <2>1. 0 \in Parts
    BY PartAssumption DEF Parts
  <2>2. ZeroTable \in Table
    BY EmptySeq DEF ZeroTable, Table
  <2>3. ZeroData \in [Cells -> Vals \cup {0}]
    BY DEF ZeroData
  <2> QED
    BY <2>1, <2>2, <2>3 DEF ZeroVendor, vendor_info
<1>2. /\ OnMedium \in vendor_info /\ OnMedium.version \in Nat /\ OnMedium.tag
      /\ OnMedium.version2 = OnMedium.version
      /\ OnMedium.next_index \in Parts
    BY RecoveredType DEF IInv, vendor_info
<1>3. TypeOK /\ RingInv /\ RamInv /\ (media # "EMMC" => ~Busy)
    BY DEF IInv
<1>4. ASSUME NEW m \in {"EMMC", "SD0"}, StorageInit(m)
      PROVE  IInv' /\ OnMedium' = OnMedium
  <2>1. RingInv' /\ OnMedium' = OnMedium
    BY <1>3, <1>4, RingStutter DEF StorageInit
  <2>2. ~ Busy' /\ fails' = 0 /\ Ahead' = 0 /\ media' = m
    BY <1>3, <1>4 DEF StorageInit, Busy, Ahead
  <2>3. g_vendor' = IF m = "EMMC" THEN OnMedium ELSE ZeroVendor
    BY <1>4 DEF StorageInit, vendor_storage_init, OnMedium
  <2>4. TypeOK'
    BY <1>1, <1>2, <1>3, <1>4, <2>2, <2>3, PartAssumption DEF TypeOK, StorageInit
  <2>5. RamInv'
    BY <1>2, <2>1, <2>2, <2>3, StepNext, PartAssumption DEF RamInv
  <2> QED
    BY <2>1, <2>2, <2>4, <2>5 DEF IInv
<1>5. ASSUME ReInit PROVE IInv' /\ OnMedium' = OnMedium
  <2>1. RingInv' /\ OnMedium' = OnMedium
    BY <1>3, <1>5, RingStutter DEF ReInit
  <2>2. ~ Busy' /\ media' = media /\ (media = "EMMC" => Ahead' = 0)
    BY <1>3, <1>5 DEF ReInit, Busy, Ahead
  <2>3. g_vendor' = IF media = "EMMC" THEN OnMedium ELSE g_vendor
    BY <1>5 DEF ReInit, vendor_storage_init, OnMedium
  <2>4. TypeOK'
    BY <1>2, <1>3, <1>5, <2>2, <2>3, PartAssumption DEF TypeOK, ReInit
  <2>5. RamInv'
    BY <1>2, <2>1, <2>2, <2>3, StepNext, PartAssumption DEF RamInv
  <2> QED
    BY <2>1, <2>2, <2>4, <2>5 DEF IInv
<1>6. ASSUME NEW id \in Ids, NEW v \in Vals, NEW size \in Sizes[id],
             vendor_storage_write(id, v, size)
      PROVE  IInv' /\ OnMedium' = OnMedium
  <2> DEFINE r == WriteItem(g_vendor.table, g_vendor.data, id, v, size)
  <2>1. RingInv' /\ OnMedium' = OnMedium
    BY <1>3, <1>6, RingStutter DEF vendor_storage_write
  <2>2. /\ g_vendor \in vendor_info /\ fails \in 0 .. MaxFails
        /\ g_vendor.table \in Table /\ g_vendor.data \in [Cells -> Vals \cup {0}]
        /\ g_vendor.next_index \in Parts /\ g_vendor.version \in Nat
    BY <1>3 DEF TypeOK, vendor_info
  <2>3. r.ok /\ ~Busy /\ fails' = fails /\ media' = media /\ parts' = parts
    BY <1>6 DEF vendor_storage_write
  <2>4. r.table \in Table /\ r.data \in [Cells -> Vals \cup {0}]
    BY <2>2, <2>3, WriteItemType
  <2>5. /\ g_vendor' = [g_vendor EXCEPT !.table = r.table, !.data = r.data,
                           !.version = g_vendor.version + 1,
                           !.version2 = g_vendor.version + 1,
                           !.next_index = next_index_of(g_vendor.next_index)]
        /\ wr' = IF media = "EMMC" THEN [part |-> g_vendor.next_index, done |-> 0]
                                   ELSE Idle
    BY <1>6 DEF vendor_storage_write
  <2> HIDE DEF r
  <2>6. next_index_of(g_vendor.next_index) \in Parts
    BY <2>2, PartAssumption DEF next_index_of, Parts
  <2>7. /\ g_vendor'.version = g_vendor.version + 1
        /\ g_vendor'.version2 = g_vendor.version + 1
        /\ g_vendor'.next_index = next_index_of(g_vendor.next_index)
        /\ g_vendor'.tag = g_vendor.tag
        /\ g_vendor' \in vendor_info
    <3>1. /\ g_vendor'.version = g_vendor.version + 1
          /\ g_vendor'.version2 = g_vendor.version + 1
          /\ g_vendor'.next_index = next_index_of(g_vendor.next_index)
      BY <2>2, <2>5 DEF vendor_info
    <3>2. g_vendor'.tag = g_vendor.tag
      BY <2>2, <2>5 DEF vendor_info
    <3>3. g_vendor' \in vendor_info
      <4> DEFINE ver == g_vendor.version + 1
                 nxt == next_index_of(g_vendor.next_index)
      <4>1. ver \in Nat /\ nxt \in Parts
        BY <2>2, <2>6
      <4>2. g_vendor' = [g_vendor EXCEPT !.table = r.table, !.data = r.data, !.version = ver,
                                         !.version2 = ver, !.next_index = nxt]
        BY <2>5
      <4> HIDE DEF ver, nxt
      <4> QED
        BY <2>2, <2>4, <4>1, <4>2, Zenon DEF vendor_info
    <3> QED
      BY <3>1, <3>2, <3>3
  <2>8. wr' \in [part : Parts, done : 0 .. Sectors] /\ (media # "EMMC" => ~Busy')
    BY <2>2, <2>5, PartAssumption DEF Idle, Busy, Sectors, Parts
  <2>9. TypeOK'
    BY <1>3, <2>3, <2>7, <2>8 DEF TypeOK
  <2>10. ASSUME media = "EMMC" PROVE RamInv'
    <3>1. /\ wr'.part = g_vendor.next_index /\ wr'.done = 0
          /\ Busy' /\ Ahead = fails /\ Ahead' = fails + 1
      BY <2>3, <2>5, <2>10 DEF Busy, Ahead, Sectors
    <3>2. /\ g_vendor.tag /\ g_vendor.version = OnMedium.version + fails
          /\ g_vendor.next_index = Step(OnMedium.next_index, fails)
      BY <1>3, <2>10, <3>1 DEF RamInv
    <3>3. g_vendor'.next_index = Step(OnMedium.next_index, fails + 1)
      BY <1>2, <2>2, <2>7, <3>2, StepNext
    <3>4. g_vendor'.version = OnMedium.version + (fails + 1)
      BY <1>2, <2>2, <2>7, <3>2
    <3> QED
      BY <2>1, <2>2, <2>3, <2>7, <3>1, <3>2, <3>3, <3>4 DEF RamInv
  <2>11. RamInv'
    BY <2>3, <2>10 DEF RamInv
  <2> QED
    BY <2>1, <2>3, <2>8, <2>9, <2>11 DEF IInv
<1>7. ASSUME ProgramSectors
      PROVE  IInv' /\ (OnMedium' # OnMedium => wr.done = Sectors - 1 /\ OnMedium' = g_vendor)
    BY <1>7, ProgramEarly, ProgramLast DEF Sectors
<1>8. ASSUME WriteFails PROVE IInv' /\ OnMedium' = OnMedium
  <2>1. RingInv' /\ OnMedium' = OnMedium
    BY <1>3, <1>8, RingStutter DEF WriteFails
  <2>2. /\ ~ Busy' /\ Busy /\ fails \in 0 .. MaxFails /\ fails < MaxFails
        /\ fails' = fails + 1 /\ media' = media /\ g_vendor' = g_vendor /\ wr' = Idle
        /\ parts' = parts
    BY <1>3, <1>8 DEF WriteFails, Busy, Idle, Sectors, TypeOK
  <2>3. Ahead' = Ahead /\ Ahead' # 0
    BY <2>2 DEF Ahead
  <2>4. TypeOK'
    BY <1>3, <2>2, PartAssumption DEF TypeOK, Idle, Sectors, Parts
  <2>5. RamInv'
    BY <1>3, <2>1, <2>2, <2>3 DEF RamInv
  <2> QED
    BY <2>1, <2>2, <2>4, <2>5 DEF IInv
<1>9. ASSUME PowerLoss PROVE IInv' /\ OnMedium' = OnMedium
  <2>1. RingInv' /\ OnMedium' = OnMedium
    BY <1>3, <1>9, RingStutter DEF PowerLoss
  <2>2. TypeOK'
    BY <1>1, <1>3, <1>9, PartAssumption DEF TypeOK, PowerLoss, Idle, Sectors, Parts
  <2> QED
    BY <1>9, <2>1, <2>2 DEF IInv, RamInv, PowerLoss, Busy, Idle, Sectors
<1>10. ASSUME UNCHANGED vars PROVE IInv' /\ OnMedium' = OnMedium
  <2>1. RingInv' /\ OnMedium' = OnMedium
    BY <1>3, <1>10, RingStutter DEF vars
  <2> QED
    BY <1>3, <1>10, <2>1 DEF vars, IInv, TypeOK, RamInv, Busy, Ahead
<1> QED
    BY <1>4, <1>5, <1>6, <1>7, <1>8, <1>9, <1>10 DEF Next

(* Vendor storage keeps its types and, on eMMC, every complete write: a    *)
(* restart loads the RAM copy whenever no write is under way or has failed,*)
(* and no write is aimed at the newest complete copy.                      *)
THEOREM Safety == Spec => [](TypeOK /\ Durable /\ NewestSpared)
<1>1. IInv => TypeOK /\ Durable /\ NewestSpared
    BY IInvSpares DEF IInv, RamInv, Durable, Ahead
<1>2. IInv /\ [Next]_vars => IInv'
    BY NextIInv
<1> QED
    BY <1>1, <1>2, InitIInv, PTL DEF Spec

(* vendor_storage_write puts the new version over the copy it can lose,    *)
(* never over the newest whole one.                                        *)
THEOREM WritesSpare == Spec => []NewestSpared
    BY Safety, PTL

(* Power loss, restarts and failed writes never change what a restart      *)
(* loads; only the last sector of a write does, and then to the whole RAM  *)
(* copy (vendor_storage_init's comparison of version and version2).        *)
THEOREM Atomicity == Spec => CrashAtomic
<1>1. IInv /\ [Next]_vars => IInv'
    BY NextIInv
<1>2. IInv /\ [Next]_vars =>
        [OnMedium' # OnMedium => wr.done = Sectors - 1 /\ OnMedium' = g_vendor]_vars
    BY NextIInv
<1> QED
    BY <1>1, <1>2, InitIInv, PTL DEF Spec, CrashAtomic

-----------------------------------------------------------------------------
(* Placement of items.                                                     *)

(* Rounding up does not shrink a size.                                     *)
LEMMA AlginCovers ==
    ASSUME NEW size \in Nat
    PROVE  algin_size(size) \in Nat /\ size <= algin_size(size)
<1> DEFINE n == size + ALIGN - 1
           q == n \div ALIGN
<1>1. ALIGN \in Nat /\ ALIGN > 0
    BY ItemsAssumption
<1>2. n \in Nat
    BY <1>1
<1>3. n = ALIGN * q + (n % ALIGN) /\ n % ALIGN < ALIGN /\ n % ALIGN \in Nat /\ q \in Nat
    BY <1>1, <1>2
<1> HIDE DEF q
<1>4. ALIGN * q = q * ALIGN /\ q * ALIGN \in Nat
    BY <1>1, <1>3
<1>5. size <= q * ALIGN
    BY <1>1, <1>3, <1>4
<1> QED
    BY <1>4, <1>5 DEF algin_size, q

(* Where an item lies.                                                     *)
LEMMA ItemBounds ==
    ASSUME NEW t \in Table, NEW j \in DOMAIN t.item
    PROVE  /\ t.item[j].offset \in Nat /\ t.item[j].size \in Nat
           /\ Ends(t.item[j]) \in Nat
           /\ t.item[j].offset + t.item[j].size <= Ends(t.item[j])
<1>1. t.item[j] \in Item
    BY DEF Table
<1>2. t.item[j].offset \in Nat /\ t.item[j].size \in Nat
    BY <1>1 DEF Item
<1> QED
    BY <1>2, AlginCovers DEF Ends

(* Tables that are well placed have disjoint items.                        *)
LEMMA PlacedDisjoint ==
    ASSUME NEW t \in Table, Placed(t)
    PROVE  Disjoint(t)
<1>1. \A i \in DOMAIN t.item :
        /\ t.item[i].offset \in Nat /\ t.item[i].size \in Nat
        /\ t.item[i].offset + t.item[i].size <= Ends(t.item[i])
        /\ Ends(t.item[i]) \in Nat
    BY ItemBounds
<1>2. t.free_offset \in Nat
    BY DEF Table
<1>3. \A i \in DOMAIN t.item : t.item[i].offset + t.item[i].size <= t.free_offset
    BY <1>1, <1>2 DEF Placed
<1>4. \A i, j \in DOMAIN t.item : i # j => Extent(t.item[i]) \cap Extent(t.item[j]) = {}
    BY <1>1 DEF Placed, Extent
<1> QED
    BY <1>3, <1>4 DEF Disjoint, Placed

(* The first slot of an id is one of its slots.                            *)
LEMMA SlotOfProps ==
    ASSUME NEW t \in Table, NEW id, Slots(t, id) # {}
    PROVE  SlotOf(t, id) \in DOMAIN t.item /\ t.item[SlotOf(t, id)].id = id
<1>1. Slots(t, id) \in SUBSET Nat
    BY DEF Slots, Table
<1>2. SlotOf(t, id) \in Slots(t, id)
    BY <1>1, LeastElement DEF SlotOf
<1> QED
    BY <1>2 DEF Slots

(* u is the table t with the size of item i changed.                       *)
Resized(t, u, i, size) ==
    /\ i \in DOMAIN t.item
    /\ DOMAIN u.item = DOMAIN t.item
    /\ u.free_offset = t.free_offset /\ u.free_size = t.free_size
    /\ \A j \in DOMAIN t.item : u.item[j].id = t.item[j].id
    /\ \A j \in DOMAIN t.item : u.item[j].offset = t.item[j].offset
    /\ \A j \in DOMAIN t.item \ {i} : u.item[j] = t.item[j]
    /\ u.item[i].size = size

LEMMA RewriteTable ==
    ASSUME NEW t \in Table, NEW data, NEW id \in Ids, NEW v, NEW size \in Nat,
           Slots(t, id) # {}
    PROVE  Resized(t, Rewrite(t, data, id, v, size).table, SlotOf(t, id), size)
<1> DEFINE i == SlotOf(t, id)
           e == [t.item[i] EXCEPT !.size = size]
           item == [t.item EXCEPT ![i] = e]
           u == Rewrite(t, data, id, v, size).table
<1>1. i \in DOMAIN t.item /\ t.item[i].id = id
    BY SlotOfProps
<1>2. u = [t EXCEPT !.item = item]
    BY DEF Rewrite
<1>3. t.item[i] \in Item /\ t.item \in Seq(Item)
    BY <1>1 DEF Table
<1>4. e.id = t.item[i].id /\ e.offset = t.item[i].offset /\ e.size = size
    BY <1>3 DEF Item
<1> HIDE DEF i, e
<1>5. /\ DOMAIN item = DOMAIN t.item /\ item[i] = e
      /\ \A j \in DOMAIN t.item \ {i} : item[j] = t.item[j]
    BY <1>1, <1>3
<1> HIDE DEF item
<1>6. u.item = item /\ u.free_offset = t.free_offset /\ u.free_size = t.free_size
    BY <1>2 DEF Table
<1> HIDE DEF u
<1>7. /\ DOMAIN u.item = DOMAIN t.item
      /\ \A j \in DOMAIN t.item \ {i} : u.item[j] = t.item[j]
      /\ u.item[i] = e
    BY <1>5, <1>6
<1>8. /\ \A j \in DOMAIN t.item : u.item[j].id = t.item[j].id
      /\ \A j \in DOMAIN t.item : u.item[j].offset = t.item[j].offset
    BY <1>4, <1>7
<1>9. Resized(t, u, i, size)
    BY <1>1, <1>4, <1>6, <1>7, <1>8 DEF Resized
<1> QED
    BY <1>9 DEF i, u

(* u is the table t with an item of that id and size at the end.           *)
Extended(t, u, n, id, size) ==
    /\ n \notin DOMAIN t.item
    /\ DOMAIN u.item = DOMAIN t.item \cup {n}
    /\ u.free_offset = t.free_offset + algin_size(size)
    /\ u.free_size = t.free_size - algin_size(size)
    /\ \A j \in DOMAIN t.item : u.item[j] = t.item[j]
    /\ u.item[n] = [id |-> id, offset |-> t.free_offset, size |-> size]

LEMMA AppendTable ==
    ASSUME NEW t \in Table, NEW data, NEW id \in Ids, NEW v, NEW size \in Nat
    PROVE  Extended(t, Append_(t, data, id, v, size).table, Len(t.item) + 1, id, size)
<1> DEFINE e == [id |-> id, offset |-> t.free_offset, size |-> size]
           n == Len(t.item) + 1
           u == Append_(t, data, id, v, size).table
<1>1. t.item \in Seq(Item) /\ e \in Item
    BY DEF Table, Item
<1>2. u.item = Append(t.item, e)
    BY DEF Append_
<1> HIDE DEF e
<1>3. /\ Len(t.item) \in Nat /\ DOMAIN t.item = 1 .. Len(t.item)
      /\ Append(t.item, e) \in Seq(Item)
      /\ DOMAIN Append(t.item, e) = 1 .. n
      /\ Append(t.item, e)[n] = e
      /\ \A j \in DOMAIN t.item : Append(t.item, e)[j] = t.item[j]
    BY <1>1
<1>4. /\ u.free_offset = t.free_offset + algin_size(size)
      /\ u.free_size = t.free_size - algin_size(size)
    BY DEF Append_
<1>5. n \notin DOMAIN t.item /\ 1 .. n = DOMAIN t.item \cup {n}
    BY <1>3
<1> HIDE DEF n, u
<1>6. Extended(t, u, n, id, size)
    BY <1>2, <1>3, <1>4, <1>5 DEF Extended, e
<1> QED
    BY <1>6 DEF n, u

(* A write keeps a table well placed when ids keep their granules.         *)
LEMMA WritePlaced ==
    ASSUME KeepsGranules, NEW t \in Table, Placed(t), NEW data, NEW id \in Ids,
           NEW v, NEW size \in Sizes[id], WriteItem(t, data, id, v, size).ok
    PROVE  Placed(WriteItem(t, data, id, v, size).table)
<1>1. size \in Nat
    BY ItemsAssumption
<1>2. \A j \in DOMAIN t.item : t.item[j].offset \in Nat /\ Ends(t.item[j]) \in Nat
    BY ItemBounds
<1>3. CASE Slots(t, id) # {}
  <2> DEFINE i == SlotOf(t, id)
             u == Rewrite(t, data, id, v, size).table
  <2>1. Resized(t, u, i, size) /\ t.item[i].id = id
    BY <1>1, <1>3, RewriteTable, SlotOfProps
  <2> HIDE DEF i, u
  <2>2. algin_size(t.item[i].size) = algin_size(size)
    BY <2>1 DEF KeepsGranules, Placed, Resized
  <2>3. \A j \in DOMAIN t.item : Ends(u.item[j]) = Ends(t.item[j])
    BY <2>1, <2>2 DEF Ends, Resized
  <2>4. \A j \in DOMAIN t.item : u.item[j].size \in Sizes[u.item[j].id]
    BY <2>1 DEF Placed, Resized
  <2>5. Placed(u)
    BY <2>1, <2>3, <2>4 DEF Placed, Resized
  <2> QED
    BY <1>3, <2>5 DEF WriteItem, u
<1>4. CASE Slots(t, id) = {}
  <2> DEFINE n == Len(t.item) + 1
             u == Append_(t, data, id, v, size).table
             e == [id |-> id, offset |-> t.free_offset, size |-> size]
  <2>1. Extended(t, u, n, id, size)
    BY <1>1, AppendTable
  <2>2. /\ t.free_offset \in Nat /\ t.free_size \in Nat /\ algin_size(size) \in Nat
        /\ DataSize \in Nat
    BY <1>1, AlginCovers, ItemsAssumption DEF Table
  <2>3. \A j \in DOMAIN t.item : t.item[j].id # id
    BY <1>4 DEF Slots
  <2>4. e.id = id /\ e.offset = t.free_offset /\ e.size = size
        /\ Ends(e) = t.free_offset + algin_size(size)
    BY DEF Ends
  <2> HIDE DEF n, u
  <2>5. /\ n \notin DOMAIN t.item
        /\ DOMAIN u.item = DOMAIN t.item \cup {n}
        /\ u.free_offset = t.free_offset + algin_size(size)
        /\ u.free_size = t.free_size - algin_size(size)
        /\ \A j \in DOMAIN t.item : u.item[j] = t.item[j]
        /\ u.item[n] = e
    BY <2>1 DEF Extended
  <2> HIDE DEF e
  <2>6. u.free_offset + u.free_size <= DataSize
    BY <2>5, <2>2 DEF Placed
  <2>7. \A j \in DOMAIN u.item :
           Ends(u.item[j]) <= u.free_offset /\ u.item[j].size \in Sizes[u.item[j].id]
    <3> TAKE j \in DOMAIN u.item
    <3>1. CASE j = n
      BY <2>5, <2>2, <2>4, <3>1
    <3>2. CASE j \in DOMAIN t.item
      BY <1>2, <2>5, <2>2, <3>2 DEF Placed
    <3> QED
      BY <2>5, <3>1, <3>2
  <2>8. \A j, k \in DOMAIN u.item : j # k =>
          /\ u.item[j].id # u.item[k].id
          /\ Ends(u.item[j]) <= u.item[k].offset \/ Ends(u.item[k]) <= u.item[j].offset
    <3> TAKE j, k \in DOMAIN u.item
    <3> HAVE j # k
    <3>1. CASE j \in DOMAIN t.item /\ k \in DOMAIN t.item
      BY <2>5, <3>1 DEF Placed
    <3>2. CASE j = n
      BY <2>5, <2>3, <2>4, <3>2 DEF Placed
    <3>3. CASE k = n
      BY <2>5, <2>3, <2>4, <3>3 DEF Placed
    <3> QED
      BY <2>5, <3>1, <3>2, <3>3
  <2>9. Placed(u)
    BY <2>6, <2>7, <2>8 DEF Placed
  <2> QED
    BY <1>4, <2>9 DEF WriteItem, u
<1> QED
    BY <1>3, <1>4

(* What a restart loads is as well placed as the copy it comes from.       *)
LEMMA LoadedPlaced ==
    ASSUME IInv, PlacedInv
    PROVE  Placed(OnMedium.table)
<1>1. CASE HasValid(parts)
  <2>1. Newest(parts) \in Parts
    BY <1>1 DEF IInv, RingInv, Newest
  <2> QED
    BY <1>1, <2>1 DEF OnMedium, Recovered, LoadPart, PlacedInv
<1>2. CASE ~ HasValid(parts)
    BY <1>2, ItemsAssumption DEF OnMedium, Recovered, FreshVendor, Placed, EmptyTable
<1> QED
    BY <1>1, <1>2

(* Every step keeps every table well placed.                               *)
LEMMA NextPlaced ==
    ASSUME KeepsGranules, IInv, PlacedInv, [Next]_vars
    PROVE  PlacedInv'
<1>1. Placed(ZeroTable) /\ Placed(EmptyTable)
    BY ItemsAssumption DEF Placed, ZeroTable, EmptyTable
<1>2. /\ Placed(g_vendor.table) /\ \A p \in Parts : Placed(parts[p].first.table)
      /\ parts \in [Parts -> Part] /\ wr.part \in Parts
      /\ g_vendor.table \in Table
    BY DEF PlacedInv, IInv, TypeOK, vendor_info
<1>3. Placed(OnMedium.table)
    BY LoadedPlaced
<1>4. ASSUME NEW m \in {"EMMC", "SD0"}, StorageInit(m) PROVE PlacedInv'
  <2>1. g_vendor' = (IF m = "EMMC" THEN OnMedium ELSE ZeroVendor) /\ parts' = parts
    BY <1>4 DEF StorageInit, vendor_storage_init, OnMedium
  <2> QED
    BY <1>1, <1>2, <1>3, <2>1 DEF PlacedInv, ZeroVendor
<1>5. ASSUME ReInit PROVE PlacedInv'
  <2>1. g_vendor' = (IF media = "EMMC" THEN OnMedium ELSE g_vendor) /\ parts' = parts
    BY <1>5 DEF ReInit, vendor_storage_init, OnMedium
  <2> QED
    BY <1>2, <1>3, <2>1 DEF PlacedInv
<1>6. ASSUME NEW id \in Ids, NEW v \in Vals, NEW size \in Sizes[id],
             vendor_storage_write(id, v, size)
      PROVE  PlacedInv'
  <2> DEFINE r == WriteItem(g_vendor.table, g_vendor.data, id, v, size)
  <2>1. r.ok /\ parts' = parts
    BY <1>6 DEF vendor_storage_write
  <2>2. Placed(r.table)
    BY <1>2, <2>1, WritePlaced
  <2>3. g_vendor'.table = r.table
    BY <1>6 DEF vendor_storage_write, IInv, TypeOK, vendor_info
  <2> HIDE DEF r
  <2> QED
    BY <1>2, <2>1, <2>2, <2>3 DEF PlacedInv
<1>7. ASSUME ProgramSectors PROVE PlacedInv'
  <2>1. \A p \in Parts \ {wr.part} : parts'[p] = parts[p]
    BY <1>2, <1>7 DEF ProgramSectors
  <2>2. parts'[wr.part].first \in {parts[wr.part].first, First(g_vendor)}
    <3>1. wr.done \in {0, 1, 2}
      BY <1>7 DEF ProgramSectors, Busy, IInv, TypeOK, Sectors
    <3> DEFINE new == CASE wr.done = 0 -> [parts[wr.part] EXCEPT !.first = First(g_vendor)]
                        [] wr.done = 1 -> [parts[wr.part] EXCEPT !.body = g_vendor.data]
                        [] wr.done = 2 -> [parts[wr.part] EXCEPT !.last = g_vendor.version2]
    <3>2. parts' = [parts EXCEPT ![wr.part] = new]
      BY <1>7 DEF ProgramSectors
    <3>3. new.first \in {parts[wr.part].first, First(g_vendor)}
      BY <1>2, <3>1 DEF Part
    <3> HIDE DEF new
    <3> QED
      BY <1>2, <3>2, <3>3
  <2>3. First(g_vendor).table = g_vendor.table /\ g_vendor' = g_vendor
    BY <1>7 DEF First, ProgramSectors
  <2> QED
    BY <1>2, <2>1, <2>2, <2>3 DEF PlacedInv
<1>8. ASSUME WriteFails PROVE PlacedInv'
    BY <1>2, <1>8 DEF PlacedInv, WriteFails
<1>9. ASSUME PowerLoss PROVE PlacedInv'
    BY <1>1, <1>2, <1>9 DEF PlacedInv, PowerLoss, ZeroVendor
<1>10. ASSUME UNCHANGED vars PROVE PlacedInv'
    BY <1>2, <1>10 DEF PlacedInv, vars
<1> QED
    BY <1>4, <1>5, <1>6, <1>7, <1>8, <1>9, <1>10 DEF Next

(* An erased medium is well placed.                                        *)
LEMMA InitPlaced == Init => PlacedInv
<1> SUFFICES ASSUME Init PROVE PlacedInv
    OBVIOUS
<1>1. Placed(ZeroTable)
    BY ItemsAssumption DEF Placed, ZeroTable
<1> QED
    BY <1>1 DEF Init, PlacedInv, ZeroVendor, ErasedPart, First

(* So the items of the copy in RAM and of the one a restart loads lie      *)
(* apart.                                                                  *)
LEMMA PlacedItems ==
    ASSUME IInv, PlacedInv
    PROVE  ItemsDisjoint
<1>1. g_vendor.table \in Table /\ Placed(g_vendor.table)
    BY DEF PlacedInv, IInv, TypeOK, vendor_info
<1>2. OnMedium.table \in Table
    BY RecoveredType DEF IInv, vendor_info
<1> QED
    BY <1>1, <1>2, LoadedPlaced, PlacedDisjoint DEF ItemsDisjoint

(* The inductive invariants of vendor storage hold in every reachable      *)
(* state.                                                                  *)
THEOREM VendorInductive == Spec => []IInv
<1>1. IInv /\ [Next]_vars => IInv'
    BY NextIInv
<1> QED
    BY <1>1, InitIInv, PTL DEF Spec

(* vendor_storage_write never places an item over another, in RAM or in    *)
(* any copy a restart would load, when every id keeps the granules it was  *)
(* first given; the code does not check the latter (storage.c:686).        *)
THEOREM ItemsApart == KeepsGranules /\ Spec => []ItemsDisjoint
<1> SUFFICES ASSUME KeepsGranules PROVE Spec => []ItemsDisjoint
    OBVIOUS
<1>1. IInv /\ PlacedInv /\ [Next]_vars => PlacedInv'
    BY NextPlaced
<1>2. IInv /\ PlacedInv => ItemsDisjoint
    BY PlacedItems
<1> QED
    BY <1>1, <1>2, InitPlaced, VendorInductive, PTL DEF Spec

-----------------------------------------------------------------------------
(* The store its callers see.                                              *)

(* A read depends on the slots of its id, on the item there and on the     *)
(* data of that item only.                                                 *)
LEMMA ReadSame ==
    ASSUME NEW t \in Table, NEW u, NEW data, NEW data2, NEW id,
           Slots(u, id) = Slots(t, id),
           \A i \in Slots(t, id) : /\ u.item[i] = t.item[i]
                                   /\ \A c \in Cells : t.item[i].offset <= c
                                         /\ c < t.item[i].offset + t.item[i].size
                                         => data2[c] = data[c]
    PROVE  vendor_storage_read(u, data2, id) = vendor_storage_read(t, data, id)
<1>1. CASE Slots(t, id) = {}
    BY <1>1 DEF vendor_storage_read
<1>2. CASE Slots(t, id) # {}
  <2> DEFINE i == SlotOf(t, id)
             it == t.item[i]
             S == {c \in Cells : it.offset <= c /\ c < it.offset + it.size}
  <2>1. i \in Slots(t, id)
    BY <1>2, SlotOfProps DEF Slots
  <2>2. SlotOf(u, id) = i
    BY DEF SlotOf
  <2>3. u.item[i] = it
    BY <2>1
  <2>4. [k \in S |-> data2[k]] = [k \in S |-> data[k]]
    BY <2>1
  <2>5. vendor_storage_read(t, data, id)
          = [found |-> TRUE, bytes |-> [k \in S |-> data[k]], size |-> it.size]
    BY <1>2 DEF vendor_storage_read
  <2>6. vendor_storage_read(u, data2, id)
          = [found |-> TRUE, bytes |-> [k \in S |-> data2[k]], size |-> it.size]
    BY <1>2, <2>2, <2>3 DEF vendor_storage_read
  <2> QED
    BY <2>4, <2>5, <2>6, Zenon
<1> QED
    BY <1>1, <1>2

(* A write changes what reads of its own id return and of no other.        *)
LEMMA WriteOthers ==
    ASSUME KeepsGranules, NEW t \in Table, Placed(t), NEW data, NEW id \in Ids,
           NEW v, NEW size \in Sizes[id], NEW other \in Ids \ {id},
           NEW r, r = WriteItem(t, data, id, v, size)
    PROVE  vendor_storage_read(r.table, r.data, other) = vendor_storage_read(t, data, other)
<1>1. size \in Nat /\ algin_size(size) \in Nat /\ size <= algin_size(size)
    BY AlginCovers, ItemsAssumption
<1>2. t.free_offset \in Nat
      /\ \A j \in DOMAIN t.item :
           /\ t.item[j].offset \in Nat /\ t.item[j].size \in Nat
           /\ Ends(t.item[j]) \in Nat
           /\ t.item[j].offset + t.item[j].size <= Ends(t.item[j])
    BY ItemBounds DEF Table
<1>3. ASSUME NEW off \in Nat, r.data = memcpy(data, off, v, size),
             NEW j \in DOMAIN t.item,
             \/ off + algin_size(size) <= t.item[j].offset
             \/ Ends(t.item[j]) <= off
      PROVE  \A c \in Cells :
               t.item[j].offset <= c /\ c < t.item[j].offset + t.item[j].size
                 => r.data[c] = data[c]
    BY <1>1, <1>2, <1>3 DEF memcpy, Cells
<1>4. CASE Slots(t, id) # {}
  <2> DEFINE i == SlotOf(t, id)
             u == Rewrite(t, data, id, v, size).table
  <2>1. Resized(t, u, i, size) /\ i \in DOMAIN t.item /\ t.item[i].id = id
    BY <1>1, <1>4, RewriteTable, SlotOfProps
  <2>2. r.table = u /\ r.data = memcpy(data, t.item[i].offset, v, size)
    BY <1>4 DEF WriteItem, Rewrite
  <2> HIDE DEF i, u
  <2>3. Slots(u, other) = Slots(t, other)
    BY <2>1 DEF Slots, Resized
  <2>4. ASSUME NEW j \in Slots(t, other)
        PROVE  /\ u.item[j] = t.item[j]
               /\ \A c \in Cells :
                    t.item[j].offset <= c /\ c < t.item[j].offset + t.item[j].size
                      => r.data[c] = data[c]
    <3>1. j \in DOMAIN t.item /\ j # i
      BY <2>1 DEF Slots
    <3>2. u.item[j] = t.item[j]
      BY <2>1, <3>1 DEF Resized
    <3>3. Ends(t.item[i]) = t.item[i].offset + algin_size(size)
      BY <2>1 DEF Ends, KeepsGranules, Placed
    <3>4. \/ t.item[i].offset + algin_size(size) <= t.item[j].offset
          \/ Ends(t.item[j]) <= t.item[i].offset
      BY <2>1, <3>1, <3>3 DEF Placed
    <3> QED
      BY <1>2, <1>3, <2>1, <2>2, <3>1, <3>2, <3>4
  <2> QED
    BY <2>2, <2>3, <2>4, ReadSame
<1>5. CASE Slots(t, id) = {}
  <2> DEFINE n == Len(t.item) + 1
             u == Append_(t, data, id, v, size).table
  <2>1. Extended(t, u, n, id, size)
    BY <1>1, AppendTable
  <2>2. r.table = u /\ r.data = memcpy(data, t.free_offset, v, size)
    BY <1>5 DEF WriteItem, Append_
  <2> HIDE DEF n, u
  <2>3. Slots(u, other) = Slots(t, other)
    <3>1. /\ n \notin DOMAIN t.item /\ DOMAIN u.item = DOMAIN t.item \cup {n}
          /\ u.item[n].id = id /\ \A j \in DOMAIN t.item : u.item[j].id = t.item[j].id
      BY <2>1 DEF Extended
    <3> QED
      BY <3>1, Zenon DEF Slots
  <2>4. ASSUME NEW j \in Slots(t, other)
        PROVE  /\ u.item[j] = t.item[j]
               /\ \A c \in Cells :
                    t.item[j].offset <= c /\ c < t.item[j].offset + t.item[j].size
                      => r.data[c] = data[c]
    <3>1. j \in DOMAIN t.item
      BY DEF Slots
    <3>2. u.item[j] = t.item[j]
      BY <2>1, <3>1 DEF Extended
    <3>3. Ends(t.item[j]) <= t.free_offset
      BY <3>1 DEF Placed
    <3> QED
      BY <1>2, <1>3, <2>2, <3>1, <3>2, <3>3
  <2> QED
    BY <2>2, <2>3, <2>4, ReadSame
<1> QED
    BY <1>4, <1>5

(* After a write its id can be read.                                       *)
LEMMA WriteFound ==
    ASSUME NEW t \in Table, NEW data, NEW id \in Ids,
           NEW v, NEW size \in Sizes[id],
           NEW r, r = WriteItem(t, data, id, v, size)
    PROVE  vendor_storage_read(r.table, r.data, id) # NotFound
<1>1. size \in Nat
    BY ItemsAssumption
<1>2. Slots(r.table, id) # {}
  <2>1. CASE Slots(t, id) # {}
    <3> DEFINE i == SlotOf(t, id)
    <3>1. Resized(t, r.table, i, size) /\ i \in DOMAIN t.item /\ t.item[i].id = id
      BY <1>1, <2>1, RewriteTable, SlotOfProps DEF WriteItem
    <3> HIDE DEF i
    <3> QED
      BY <3>1 DEF Resized, Slots
  <2>2. CASE Slots(t, id) = {}
    <3>1. Extended(t, r.table, Len(t.item) + 1, id, size)
      BY <1>1, <2>2, AppendTable DEF WriteItem
    <3> QED
      BY <3>1 DEF Extended, Slots
  <2> QED
    BY <2>1, <2>2
<1> QED
    BY <1>2 DEF vendor_storage_read, NotFound

(* What the callers read while the medium is attached is never Detached,   *)
(* unless there are no ids at all.                                         *)
LEMMA AttachedContents ==
    ASSUME NEW g, NEW id \in Ids
    PROVE  Contents(g) # [k \in Ids |-> [found |-> FALSE, detached |-> TRUE]]
<1> DEFINE x == vendor_storage_read(g.table, g.data, id)
           d == [found |-> FALSE, detached |-> TRUE]
<1>1. x.found \/ x = NotFound
    BY DEF vendor_storage_read
<1>2. x # d
  <2>1. NotFound # d
    <3>1. DOMAIN NotFound = {"found"} /\ DOMAIN d = {"found", "detached"}
      BY DEF NotFound
    <3> QED
      BY <3>1
  <2> QED
    BY <1>1, <2>1
<1>3. Contents(g)[id] = x
    BY DEF Contents
<1> HIDE DEF x, d
<1> QED
    BY <1>2, <1>3 DEF d

(* Every step of vendor storage is a step of the store or changes nothing  *)
(* its callers see.                                                        *)
LEMMA StoreStep ==
    ASSUME KeepsGranules, IInv, PlacedInv, IInv', [Next]_vars
    PROVE  [Store!Next]_<<(IF media = "EMMC" THEN Contents(g_vendor)
                           ELSE [k \in Ids |-> [found |-> FALSE, detached |-> TRUE]]),
                          Contents(OnMedium)>>
<1> DEFINE D == [k \in Ids |-> [found |-> FALSE, detached |-> TRUE]]
           mem == IF media = "EMMC" THEN Contents(g_vendor) ELSE D
           dur == Contents(OnMedium)
<1> SUFFICES Store!Next \/ (mem' = mem /\ dur' = dur)
    OBVIOUS
<1>1. CASE Ids = {}
    BY <1>1 DEF Contents
<1>2. ASSUME Ids # {} PROVE \A g : Contents(g) # D
    BY <1>2, AttachedContents
<1>3. OnMedium' # OnMedium => wr.done = Sectors - 1 /\ OnMedium' = g_vendor
    BY NextIInv
<1>4. \A g, id : id \in Ids => Contents(g)[id] = vendor_storage_read(g.table, g.data, id)
    BY DEF Contents
<1>5. g_vendor.table \in Table /\ Placed(g_vendor.table)
    BY DEF PlacedInv, IInv, TypeOK, vendor_info
<1> HIDE DEF D
<1>6. ASSUME NEW m \in {"EMMC", "SD0"}, StorageInit(m)
      PROVE  Store!Next \/ (mem' = mem /\ dur' = dur)
  <2>1. /\ media = "OFF" /\ media' = m /\ OnMedium' = OnMedium
        /\ g_vendor' = IF m = "EMMC" THEN OnMedium ELSE ZeroVendor
    BY <1>6 DEF StorageInit, vendor_storage_init, OnMedium
  <2> QED
    BY <2>1 DEF Store!Next, Store!Attach, D
<1>7. ASSUME Ids # {}, ReInit
      PROVE  Store!Next \/ (mem' = mem /\ dur' = dur)
  <2>1. /\ media' = media /\ OnMedium' = OnMedium
        /\ g_vendor' = IF media = "EMMC" THEN OnMedium ELSE g_vendor
    BY <1>7 DEF ReInit, vendor_storage_init, OnMedium
  <2>2. CASE media = "EMMC"
    BY <1>2, <1>7, <2>1, <2>2 DEF Store!Next, Store!Reload, D
  <2>3. CASE media # "EMMC"
    BY <2>1, <2>3
  <2> QED
    BY <2>2, <2>3
<1>8. ASSUME NEW id \in Ids, NEW v \in Vals, NEW size \in Sizes[id],
             vendor_storage_write(id, v, size)
      PROVE  Store!Next \/ (mem' = mem /\ dur' = dur)
  <2> DEFINE r == WriteItem(g_vendor.table, g_vendor.data, id, v, size)
  <2>1. media' = media /\ OnMedium' = OnMedium
    BY <1>8 DEF vendor_storage_write, OnMedium
  <2>2. CASE media # "EMMC"
    BY <2>1, <2>2
  <2>3. CASE media = "EMMC"
    <3>1. g_vendor'.table = r.table /\ g_vendor'.data = r.data
      BY <1>8 DEF vendor_storage_write, IInv, TypeOK, vendor_info
    <3>2. \A j \in Ids \ {id} : vendor_storage_read(r.table, r.data, j)
                                 = vendor_storage_read(g_vendor.table, g_vendor.data, j)
      BY <1>5, WriteOthers
    <3>3. vendor_storage_read(r.table, r.data, id) # NotFound
      BY <1>5, WriteFound
    <3> HIDE DEF r
    <3>4. \A j \in Ids \ {id} : Contents(g_vendor')[j] = Contents(g_vendor)[j]
      BY <1>4, <3>1, <3>2
    <3>5. Contents(g_vendor')[id] # NotFound
      BY <1>4, <3>1, <3>3
    <3>6. mem = Contents(g_vendor) /\ mem' = Contents(g_vendor') /\ mem # D /\ mem' # D
      BY <1>2, <2>1, <2>3
    <3>7. Store!Write(id)
      BY <2>1, <2>3, <3>4, <3>5, <3>6 DEF Store!Write, D
    <3> QED
      BY <3>7 DEF Store!Next
  <2> QED
    BY <2>2, <2>3
<1>9. ASSUME Ids # {}, ProgramSectors
      PROVE  Store!Next \/ (mem' = mem /\ dur' = dur)
  <2>1. media = "EMMC" /\ media' = media /\ g_vendor' = g_vendor
    BY <1>9 DEF ProgramSectors, IInv
  <2>2. CASE OnMedium' = OnMedium
    BY <2>1, <2>2
  <2>3. CASE OnMedium' = g_vendor
    BY <1>2, <1>9, <2>1, <2>3 DEF Store!Next, Store!Persist, D
  <2> QED
    BY <1>3, <2>2, <2>3
<1>10. ASSUME WriteFails PROVE mem' = mem /\ dur' = dur
    BY <1>10 DEF WriteFails, OnMedium
<1>11. ASSUME PowerLoss PROVE Store!Next
  <2>1. media' = "OFF" /\ OnMedium' = OnMedium
    BY <1>11 DEF PowerLoss, OnMedium
  <2> QED
    BY <2>1 DEF Store!Next, Store!Detach, D
<1>12. ASSUME UNCHANGED vars PROVE mem' = mem /\ dur' = dur
    BY <1>12 DEF vars, OnMedium
<1> QED
    BY <1>1, <1>6, <1>7, <1>8, <1>9, <1>10, <1>11, <1>12 DEF Next

(* Vendor storage is a crash-atomic key-value store for its callers: a     *)
(* write changes the item it names and no other, a complete write makes    *)
(* the whole working copy durable, and power loss, failed writes and       *)
(* repeated calls of vendor_storage_init bring back a complete copy.       *)
THEOREM StoreRefined == KeepsGranules /\ Spec => Atomic
<1> SUFFICES ASSUME KeepsGranules PROVE Spec => Store!Spec
    BY DEF Atomic
<1>1. Init => Store!Init
  <2> SUFFICES ASSUME Init PROVE Store!Init
    OBVIOUS
  <2>1. ~ HasValid(parts)
    BY DEF Init, HasValid, Valid, ErasedPart, First, ZeroVendor
  <2>2. OnMedium = FreshVendor
    BY <2>1 DEF OnMedium, Recovered
  <2>3. Contents(OnMedium) = [k \in Ids |-> NotFound]
    BY <2>2 DEF Contents, vendor_storage_read, FreshVendor, EmptyTable, Slots
  <2> QED
    BY <2>3 DEF Init, Store!Init
<1>2. IInv /\ PlacedInv /\ [Next]_vars => IInv' /\ PlacedInv'
    BY NextIInv, NextPlaced
<1>3. IInv /\ PlacedInv /\ IInv' /\ [Next]_vars =>
        [Store!Next]_<<(IF media = "EMMC" THEN Contents(g_vendor)
                        ELSE [k \in Ids |-> [found |-> FALSE, detached |-> TRUE]]),
                       Contents(OnMedium)>>
    BY StoreStep
<1> QED
    BY <1>1, <1>2, <1>3, InitIInv, InitPlaced, PTL DEF Spec, Store!Spec

=============================================================================
