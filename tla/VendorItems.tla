---------------------------- MODULE VendorItems ----------------------------
(***************************************************************************)
(* The item area of a vendor-storage copy: the item table and the data     *)
(* array of struct vendor_info (storage.h), and the pure part of           *)
(* vendor_storage_read and vendor_storage_write (storage.c), which look an *)
(* id up, overwrite it in place or append it.  The copies on the medium    *)
(* and their versions are in VendorStorage.                                *)
(*                                                                         *)
(* One cell of data stands for a run of bytes; ALIGN cells stand for the   *)
(* 64-byte granule items are placed at.  A payload is a fill value.        *)
(***************************************************************************)
EXTENDS Integers, Sequences

CONSTANTS
    Ids,        \* ids of items, any u16 the host sends
    Vals,       \* payload contents; 0 is what memset leaves
    Sizes,      \* for each id, the payload sizes (in cells) it is written with
    ALIGN,      \* cells of the 64-byte granule
    DataSize    \* cells of vendor_info.data

ASSUME ItemsAssumption ==
    /\ ALIGN \in Nat \ {0} /\ DataSize \in Nat
    /\ Sizes \in [Ids -> SUBSET Nat] /\ 0 \notin Vals

Cells == 0 .. DataSize - 1

Item == [id : Ids, offset : Nat, size : Nat]

(* The table of one copy: item[0 .. item_num-1] and the free run.  The     *)
(* sequence's length is item_num.                                          *)
Table == [item : Seq(Item), free_offset : Nat, free_size : Nat]

ZeroData == [c \in Cells |-> 0]

EmptyTable == [item |-> << >>, free_offset |-> 0, free_size |-> DataSize]

(* All-zero memory: no items and no free room.                             *)
ZeroTable == [item |-> << >>, free_offset |-> 0, free_size |-> 0]

algin_size(size) == ((size + ALIGN - 1) \div ALIGN) * ALIGN

Slots(t, id) == {i \in DOMAIN t.item : t.item[i].id = id}

(* The loops stop at the first match.                                      *)
SlotOf(t, id) == CHOOSE i \in Slots(t, id) : \A j \in Slots(t, id) : i <= j

memcpy(data, offset, v, size) ==
    [c \in Cells |-> IF offset <= c /\ c < offset + size THEN v ELSE data[c]]

(* What vendor_storage_read(id, pbuf, big enough) delivers: the bytes of   *)
(* the item, or nothing (the code's -1).                                   *)
NotFound == [found |-> FALSE]

vendor_storage_read(t, data, id) ==
    IF Slots(t, id) = {} THEN NotFound
    ELSE LET it == t.item[SlotOf(t, id)]
         IN  [found |-> TRUE,
              bytes |-> [k \in {c \in Cells : it.offset <= c /\ c < it.offset + it.size}
                             |-> data[k]],
              size  |-> it.size]

(* Faulty variant: the first item is overwritten, whatever the id.         *)
RewriteFirst(t, data, id, v, size) ==
    [ok    |-> TRUE,
     table |-> [t EXCEPT !.item[SlotOf(t, id)].size = size],
     data  |-> memcpy(data, t.item[1].offset, v, size)]

(* An id that is present is overwritten where it lies; the code's test     *)
(* size > algin_size compares the size with its own rounding, so it never  *)
(* rejects.                                                                *)
Rewrite(t, data, id, v, size) ==
    LET i == SlotOf(t, id)
    IN  [ok    |-> ~(size > algin_size(size)),
         table |-> [t EXCEPT !.item[i].size = size],
         data  |-> memcpy(data, t.item[i].offset, v, size)]

(* Faulty variant: the free run moves by the size, not by its rounding.    *)
AppendPacked(t, data, id, v, size) ==
    [ok    |-> t.free_size >= algin_size(size),
     table |-> [item |-> Append(t.item, [id |-> id, offset |-> t.free_offset,
                                         size |-> size]),
                free_offset |-> t.free_offset + size,
                free_size   |-> t.free_size - size],
     data  |-> memcpy(data, t.free_offset, v, size)]

(* A new id is placed at free_offset when the free run is long enough.     *)
Append_(t, data, id, v, size) ==
    [ok    |-> t.free_size >= algin_size(size),
     table |-> [item |-> Append(t.item, [id |-> id, offset |-> t.free_offset,
                                         size |-> size]),
                free_offset |-> t.free_offset + algin_size(size),
                free_size   |-> t.free_size - algin_size(size)],
     data  |-> memcpy(data, t.free_offset, v, size)]

WriteItem(t, data, id, v, size) ==
    IF Slots(t, id) # {} THEN Rewrite(t, data, id, v, size)
                         ELSE Append_(t, data, id, v, size)

(***************************************************************************)
(* Properties of an item area.                                             *)
(***************************************************************************)
Extent(it) == it.offset .. it.offset + it.size - 1

(* No two items share a byte of data, every item lies below free_offset,   *)
(* inside data, and ids are not repeated: the placement that               *)
(* vendor_storage_write's in-place overwrite and append are meant to keep. *)
Disjoint(t) ==
    /\ t.free_offset + t.free_size <= DataSize
    /\ \A i \in DOMAIN t.item : t.item[i].offset + t.item[i].size <= t.free_offset
    /\ \A i, j \in DOMAIN t.item : i # j =>
          /\ t.item[i].id # t.item[j].id
          /\ Extent(t.item[i]) \cap Extent(t.item[j]) = {}

(* Every id is written with sizes of one granule count only.  The code     *)
(* does not check it: Rewrite's test compares a size with itself.          *)
KeepsGranules ==
    \A id \in Ids : \A s1, s2 \in Sizes[id] : algin_size(s1) = algin_size(s2)

(* The granules of an item.  What Disjoint needs to be inductive: whole    *)
(* granules lie apart, and sizes are ones the item's id is written with.   *)
Ends(it) == it.offset + algin_size(it.size)

Placed(t) ==
    /\ t.free_offset + t.free_size <= DataSize
    /\ \A i \in DOMAIN t.item :
          Ends(t.item[i]) <= t.free_offset /\ t.item[i].size \in Sizes[t.item[i].id]
    /\ \A i, j \in DOMAIN t.item : i # j =>
          /\ t.item[i].id # t.item[j].id
          /\ Ends(t.item[i]) <= t.item[j].offset \/ Ends(t.item[j]) <= t.item[i].offset
=============================================================================
