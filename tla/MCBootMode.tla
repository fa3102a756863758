----------------------------- MODULE MCBootMode -----------------------------
(* Two copies of the parameter block; the images of boot and recovery are  *)
(* of every quality, and backup and factory are alike.                     *)
EXTENDS BootMode

Alike == {im \in [Partitions -> Qualities] : im["backup"] = im["factory"]}

=============================================================================
