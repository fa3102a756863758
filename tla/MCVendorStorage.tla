-------------------------- MODULE MCVendorStorage --------------------------
(* Vendor storage on small instances, with a granule of two cells.         *)
EXTENDS VendorStorage, TLC

CONSTANTS a, b

(* Two items, each keeping to one granule count, as the items of the vendor*)
(* partition do (serial number, MAC address, lock state).                  *)
TwoIds == {a, b}
TwoSizes == a :> {1, 2} @@ b :> {2}

(* Long histories of one item with one value, in which the ring wraps and  *)
(* a write fails, and shorter ones of both items and two values, in which  *)
(* every item is written again after its neighbour was placed.             *)
OneValue(table, data) ==
    /\ \A i \in DOMAIN table.item : table.item[i].id = a /\ table.item[i].size = 1
    /\ \A c \in DOMAIN data : data[c] <= 1
LongOrWide ==
    \/ /\ OneValue(g_vendor.table, g_vendor.data)
       /\ \A p \in Parts : OneValue(parts[p].first.table, parts[p].body)
    \/ g_vendor.version <= 4 /\ fails = 0
=============================================================================
