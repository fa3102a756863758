------------------------- MODULE MCVendorReadFault -------------------------
(* One item in two copies, with read errors.                               *)
EXTENDS VendorReadFault, TLC

CONSTANT a

OneId == {a}
OneSize == a :> {1}
=============================================================================
