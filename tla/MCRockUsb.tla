----------------------------- MODULE MCRockUsb -----------------------------
(* The sessions of the runs of RockUsb.  v names a payload.                *)
EXTENDS RockUsb

C(op, sp, lba, n, v, mod) ==
    [op |-> op, sp |-> sp, lba |-> lba, n |-> n, v |-> v, mod |-> mod, tag |-> 0]

Rd(lba, n)    == C("LBA_READ_10", "LBA", lba, n, 0, 0)
Wr(lba, n, v) == C("LBA_WRITE_10", "LBA", lba, n, v, 0)
Ctl(op, mod)  == C(op, "LBA", 0, 0, 0, mod)

(* Reads and writes of the user area within a buffer and across several,   *)
(* with those of the boot area in pages of two, or of the vendor spaces.   *)
UserCmds == {Rd(0, 5), Rd(1, 5), Rd(2, 1), Wr(0, 5, 1), Wr(2, 2, 2), Wr(3, 0, 1)}

BootCmds ==
    {C("WRITE_10", "LBA", 0, 3, 1, 0), C("READ_10", "LBA", 0, 4, 0, 0),
     C("WRITE_10", "LBA", 1, 1, 2, 0)}

VendorCmds ==
    {C("LBA_WRITE_10", "SYS", 0, 2, 1, 0), C("LBA_READ_10", "SYS", 0, 2, 0, 0),
     C("LBA_WRITE_10", "VENDOR", 1, 1, 1, 0), C("LBA_READ_10", "VENDOR", 1, 1, 0, 0)}

(* Commands without data, locks and resets.                                *)
ControlCmds ==
    {Ctl("TEST_UNIT_READY", 250), Ctl("READ_FLASH_ID", 0), Ctl("LOW_FORMAT", 0), Ctl("RESET", 3),
     Ctl("SET_RESET_FLAG", 0), Ctl("UNKNOWN", 0), C("LBA_WRITE_10", "UNLOCK", 0, 1, 1, 0), Wr(0, 1, 2)}

RecoveryCmds == {Rd(0, 5), Wr(0, 5, 1), Ctl("READ_FLASH_ID", 0)}

StaleCmds == {Rd(0, 5), Rd(4, 1)}

S(cmds, signed, faults) == [cmds |-> cmds, signed |-> signed, faults |-> faults]

AllSessions ==
    {S(UserCmds \cup BootCmds, FALSE, {}), S(UserCmds \cup VendorCmds, FALSE, {}),
     S(ControlCmds, TRUE, {"reset_idle"}),
     S(RecoveryCmds, FALSE, {"in_error", "clear_both"})}

Stale == {S(StaleCmds, FALSE, {"clear_both"})}
Reset == {S(RecoveryCmds, FALSE, {"reset"})}

=============================================================================
