------------------------------ MODULE BootMode ------------------------------
(***************************************************************************)
(* What the loader starts: board_late_init and board_fbt_preboot look at   *)
(* the loader flag (a register that keeps its value through a reset and    *)
(* loses it with the power), the keys and the command in the misc          *)
(* partition, and end in rockusb, in fastboot or in bootrk, which falls    *)
(* back from boot to recovery to backup to rockusb.  The rest of the       *)
(* world, the running system, the host and the user, leaves requests in    *)
(* the flag and in misc, replaces images, and cuts the power anywhere.     *)
(*                                                                         *)
(* RockUsb, Fastboot and LoaderUpdate follow those three programs; here    *)
(* each is what it does to the flag, to misc, to the images and to the     *)
(* parameter block.                                                        *)
(***************************************************************************)
EXTENDS Naturals

CONSTANTS
    PARAMETER_NUM,  \* copies of the parameter block, 8
    ImageSets,      \* what the four partitions with images may hold
    MaxFails        \* bound: reads, writes and USB connections that fail

(* What bootrk makes of an image: it loads and passes the check, it cannot *)
(* be loaded, or SecureBootImageCheck turns it down.                       *)
Qualities == {"good", "bad", "refused"}
Partitions == {"boot", "recovery", "backup", "factory"}

ASSUME BootModeAssumption ==
    /\ PARAMETER_NUM \in Nat \ {0} /\ MaxFails \in Nat
    /\ ImageSets \subseteq [Partitions -> Qualities] /\ ImageSets # {}

VARIABLES
    flag,     \* the loader flag: its tag and its low byte
    misc,     \* the command in the misc partition
    params,   \* which copies of the parameter block are whole
    images,   \* the quality of the image in each partition
    sd,       \* an update card is in the slot
    pc,
    table,    \* the partition table was loaded
    frt,      \* board_fbt_preboot: the reboot type found
    first,    \* the image the first do_bootrk of this boot asked for
    source,   \* do_bootrk: boot_source
    ret,      \* where do_rockusb returns to
    keyed,    \* do_rockusb: flag, entered by a key
    copy,     \* flash parameter: copies written so far
    asked,    \* history: the flag holds a request nobody has read yet
    wipe,     \* history: how far a request to wipe the data has got
    fault,    \* history: a read failed in this boot
    fails

medium == <<misc, params, images>>
ram == <<table, frt, first, source, ret, keyed, copy>>
vars == <<flag, medium, sd, pc, ram, asked, wipe, fault, fails>>

---------------------------------------------------------------------------
Copies == 0..PARAMETER_NUM - 1
Sources == Partitions \cup {"ram"}

(* The low byte of the flag; "other" stands for the modes that             *)
(* board_fbt_get_reboot_type does not know, 0xFF of the error flag among   *)
(* them.                                                                   *)
Modes == {"NORMAL", "LOADER", "RECOVER", "NORECOVER", "WIPEDATA", "FASTBOOT",
          "CHARGING", "other"}
Flag(t, m) == [tag |-> t, mode |-> m]
NoFlag == Flag("none", "NORMAL")
ErrFlag == Flag("err", "other")

(* The requests a boot carries out: a flag with any other tag, or asking   *)
(* for a normal start, is none.                                            *)
Special(f) == f = ErrFlag \/ (f.tag = "loader" /\ f.mode # "NORMAL")

(* A failed read, write or connection.                                     *)
Fail == fails < MaxFails /\ fails' = fails + 1
Works == UNCHANGED fails

Init ==
    /\ flag = NoFlag /\ misc = "none" /\ params = [c \in Copies |-> TRUE]
    /\ images \in ImageSets /\ sd \in BOOLEAN
    /\ pc = "off" /\ table = FALSE /\ frt = "UNKNOWN" /\ first = "boot"
    /\ source = "boot" /\ ret = "reset" /\ keyed = FALSE /\ copy = 0
    /\ asked = FALSE /\ wipe = "none" /\ fault = FALSE /\ fails = 0

(* The contents of RAM do not outlive the program.                         *)
forget ==
    /\ table' = FALSE /\ frt' = "UNKNOWN" /\ first' = "boot" /\ source' = "boot"
    /\ ret' = "reset" /\ keyed' = FALSE /\ copy' = 0 /\ fault' = FALSE
reset_cpu == pc' = "reset" /\ forget

---------------------------------------------------------------------------
(* Starting.                                                               *)

(* GetParam: its loop over the copies returns at the first, whatever it    *)
(* finds there.                                                            *)
GetParam == params[0]

(* board_late_init up to the boot mode: load_disk_partitions.              *)
load_disk_partitions ==
    /\ pc = "reset"
    /\ \/ table' = GetParam /\ Works /\ UNCHANGED fault
       \/ table' = FALSE /\ Fail /\ fault' = TRUE
    /\ pc' = "reboot_type"
    /\ UNCHANGED <<flag, medium, sd, frt, first, source, ret, keyed, copy, asked, wipe>>

(* do_rockusb(NULL, key, ...), which will return to r.                     *)
EnterRockusb(r, key) == pc' = "connect" /\ ret' = r /\ keyed' = key

(* The reboot type of the modes the flag can ask for.                      *)
rebootType(mode) ==
    CASE mode = "NORMAL"    -> "NORMAL"
      [] mode = "FASTBOOT"  -> "FASTBOOT"
      [] mode = "NORECOVER" -> "NORECOVER"
      [] mode = "RECOVER"   -> "RECOVERY"
      [] mode = "WIPEDATA"  -> "WIPE"
      [] mode = "CHARGING"  -> "CHARGE"
      [] OTHER              -> "UNKNOWN"

(* "Feedback reboot mode to the kernel."  With this tag the flag is no     *)
(* request any more.  The faulty variant, first, leaves the flag alone.    *)
NoFeedback(f) == f
feedback(f) == Flag("kernel", f.mode)

board_fbt_get_reboot_type ==
    /\ pc = "reboot_type"
    /\ flag' = feedback(flag) /\ asked' = FALSE
    /\ \/ /\ flag = ErrFlag \/ flag = Flag("loader", "LOADER")
          /\ EnterRockusb("preboot", FALSE) /\ UNCHANGED frt
       \/ /\ flag # ErrFlag /\ flag # Flag("loader", "LOADER")
          /\ frt' = IF flag.mode = "NORMAL" /\ sd THEN "RECOVERY"
                    ELSE IF flag.tag = "loader" THEN rebootType(flag.mode)
                    ELSE "UNKNOWN"
          /\ pc' = "preboot" /\ UNCHANGED <<ret, keyed>>
    /\ UNCHANGED <<medium, sd, table, first, source, copy, wipe, fault, fails>>

(* board_fbt_key_pressed; the keys and VBUS are whatever they are.         *)
board_fbt_key_pressed ==
    /\ pc = "preboot" /\ frt \in {"UNKNOWN", "NORMAL"}
    /\ \/ frt' \in {"RECOVERY", "FASTBOOT", "UNKNOWN"} /\ pc' = "power"
          /\ UNCHANGED <<ret, keyed>>
       \/ frt' = "UNKNOWN" /\ EnterRockusb("recovery", TRUE)
    /\ UNCHANGED <<flag, medium, sd, table, first, source, copy, asked, wipe, fault, fails>>

(* "clear reboot type."                                                    *)
clearRebootType ==
    /\ pc = "preboot" /\ frt \notin {"UNKNOWN", "NORMAL"}
    /\ flag' = Flag("loader", "NORMAL") /\ pc' = "power"
    /\ UNCHANGED <<medium, sd, ram, asked, wipe, fault, fails>>

(* What power failing, or being switched off, leaves.                      *)
TurnOff ==
    /\ flag' = NoFlag /\ asked' = FALSE /\ pc' = "off" /\ forget
    /\ wipe' = IF wipe = "asked" THEN "none" ELSE wipe
    /\ UNCHANGED <<misc, images, sd, fails>>

(* board_fbt_low_power_check and board_fbt_low_power_off: a low battery    *)
(* that is not being charged.                                              *)
lowPower ==
    /\ pc = "power"
    /\ \/ TurnOff /\ UNCHANGED params
       \/ /\ pc' = "dispatch"
          /\ UNCHANGED <<flag, medium, sd, ram, asked, wipe, fault, fails>>

(* do_bootrk(s), the first of this boot.                                   *)
bootrk(s) == pc' = "bootrk" /\ first' = s /\ source' = s

(* The end of board_fbt_preboot, and for fastboot the "preboot" command of *)
(* the environment that board_fbt_request_start_fastboot leaves.           *)
dispatch ==
    /\ pc = "dispatch"
    /\ \/ frt = "RECOVERY" /\ bootrk("recovery")
       \/ frt = "WIPE" /\ pc' = "wipe" /\ UNCHANGED <<first, source>>
       \/ frt = "FASTBOOT" /\ pc' = "fbconnect" /\ UNCHANGED <<first, source>>
       \/ frt \notin {"RECOVERY", "WIPE", "FASTBOOT"} /\ pc' = "misc"
          /\ UNCHANGED <<first, source>>
    /\ UNCHANGED <<flag, medium, sd, table, frt, ret, keyed, copy, asked, wipe, fault, fails>>

(* board_fbt_run_recovery_wipe_data: the message goes to misc before       *)
(* recovery starts.  A write that fails may have written the command, and  *)
(* is ignored.  The faulty variant, first, starts recovery at once.        *)
WipeUnrecorded ==
    /\ pc = "wipe" /\ bootrk("recovery")
    /\ misc' = misc /\ wipe' = IF wipe = "asked" THEN "written" ELSE wipe
    /\ UNCHANGED <<flag, params, images, sd, table, frt, ret, keyed, copy, asked, fault, fails>>
board_fbt_run_recovery_wipe_data ==
    /\ pc = "wipe" /\ bootrk("recovery")
    /\ \/ ~table /\ misc' = misc /\ wipe' = "none" /\ Works
       \/ table /\ misc' = "wipe" /\ wipe' = (IF wipe = "asked" THEN "written" ELSE wipe) /\ Works
       \/ table /\ misc' \in {misc, "wipe"} /\ wipe' = "none" /\ Fail
    /\ UNCHANGED <<flag, params, images, sd, table, frt, ret, keyed, copy, asked, fault>>

(* rkloader_run_misc_cmd; without a command, or when misc cannot be read,  *)
(* the loader goes on to CONFIG_BOOTCOMMAND, "bootrk".  The faulty         *)
(* variant, first, does not know "boot-factory".                           *)
MiscNoFactory ==
    /\ pc = "misc"
    /\ \/ misc \in {"boot-recovery", "wipe"} /\ bootrk("recovery")
       \/ misc = "loader" /\ pc' = "loader" /\ UNCHANGED <<first, source>>
       \/ misc \notin {"boot-recovery", "wipe", "loader"} /\ bootrk("boot")
    /\ UNCHANGED <<flag, medium, sd, table, frt, ret, keyed, copy, asked, wipe, fault, fails>>
rkloader_run_misc_cmd ==
    /\ pc = "misc"
    /\ \/ ~table /\ bootrk("boot") /\ Works /\ UNCHANGED fault
       \/ table /\ bootrk("boot") /\ Fail /\ fault' = TRUE
       \/ /\ table /\ Works /\ UNCHANGED fault
          /\ \/ misc \in {"boot-recovery", "wipe"} /\ bootrk("recovery")
             \/ misc = "boot-factory" /\ bootrk("factory")
             \/ misc = "loader" /\ pc' = "loader" /\ UNCHANGED <<first, source>>
             \/ misc = "none" /\ bootrk("boot")
    /\ UNCHANGED <<flag, medium, sd, table, frt, ret, keyed, copy, asked, wipe>>

(* dispose_bootloader_cmd: the update (LoaderUpdate) succeeds or not, misc *)
(* is cleared, whether or not that works, and a success restarts.  The     *)
(* faulty variant, first, clears misc only after a failure.                *)
ClearAfterFailure ==
    /\ pc = "loader"
    /\ \/ misc' = "none" /\ bootrk("boot") /\ UNCHANGED flag
          /\ UNCHANGED <<table, frt, ret, keyed, copy, fault>>
       \/ misc' = misc /\ flag' = Flag("loader", "NORMAL") /\ reset_cpu
    /\ UNCHANGED <<params, images, sd, asked, wipe, fails>>
dispose_bootloader_cmd ==
    /\ pc = "loader"
    /\ \/ misc' = "none" /\ Works
       \/ misc' = misc /\ Fail
    /\ \/ flag' = Flag("loader", "NORMAL") /\ reset_cpu
       \/ bootrk("boot") /\ UNCHANGED <<flag, table, frt, ret, keyed, copy, fault>>
    /\ UNCHANGED <<params, images, sd, asked, wipe>>

---------------------------------------------------------------------------
(* bootrk.                                                                 *)

(* board_fbt_boot_failed(s): the do_bootrk it calls does not return, so    *)
(* rockusb is reached only from an image that has no successor.  The       *)
(* faulty variant, first, forgets the backup.                              *)
FailToRockusb(s, r) ==
    \/ s = "boot" /\ pc' = "bootrk" /\ source' = "recovery" /\ UNCHANGED <<ret, keyed>>
    \/ s # "boot" /\ EnterRockusb(r, FALSE) /\ UNCHANGED source
board_fbt_boot_failed(s, r) ==
    \/ s = "boot" /\ pc' = "bootrk" /\ source' = "recovery" /\ UNCHANGED <<ret, keyed>>
    \/ s = "recovery" /\ pc' = "bootrk" /\ source' = "backup" /\ UNCHANGED <<ret, keyed>>
    \/ s \notin {"boot", "recovery"} /\ EnterRockusb(r, FALSE) /\ UNCHANGED source

(* From the loaded image into it: rkloader_change_cmd_for_recovery tells   *)
(* the kernel of recovery that it is one.                                  *)
startKernel(s) ==
    /\ pc' = "running"
    /\ flag' = IF s = "recovery" THEN Flag("kernel", "RECOVER") ELSE flag

(* A partition is loaded and checked when the table lists it; without one  *)
(* its name is taken for an address and refused.                           *)
do_bootrk ==
    /\ pc = "bootrk"
    /\ \E q \in IF source = "ram" THEN Qualities ELSE IF table THEN {images[source]} ELSE {"bad"} :
          \/ q = "good" /\ startKernel(source) /\ UNCHANGED <<source, ret, keyed>>
          \/ q = "refused" /\ board_fbt_boot_failed(source, "start") /\ UNCHANGED flag
          \/ q = "bad" /\ board_fbt_boot_failed(source, "reset") /\ UNCHANGED flag
    /\ UNCHANGED <<medium, sd, table, frt, first, copy, asked, wipe, fault, fails>>
bootrkReadFails ==
    /\ pc = "bootrk" /\ table /\ source # "ram" /\ Fail /\ fault' = TRUE
    /\ board_fbt_boot_failed(source, "reset")
    /\ UNCHANGED <<flag, medium, sd, table, frt, first, copy, asked, wipe>>

---------------------------------------------------------------------------
(* rockusb, as RockUsb has it.                                             *)

(* do_rockusb returns: to board_fbt_get_reboot_type, to                    *)
(* board_fbt_key_pressed, or to board_fbt_boot_failed and through it to    *)
(* do_bootrk, which resets, or to the loading of an image that was refused.*)
returnRockusb ==
    \/ ret = "preboot" /\ pc' = "preboot" /\ UNCHANGED <<flag, ram, fault>>
    \/ ret = "recovery" /\ pc' = "power" /\ frt' = "RECOVERY"
       /\ UNCHANGED <<flag, table, first, source, ret, keyed, copy, fault>>
    \/ ret = "reset" /\ reset_cpu /\ UNCHANGED flag
    \/ ret = "start" /\ startKernel(source) /\ UNCHANGED <<ram, fault>>

do_rockusb ==
    /\ pc = "connect"
    /\ \/ pc' = "rockusb" /\ Works /\ UNCHANGED <<flag, ram, fault>>
       \/ returnRockusb /\ Fail
    /\ UNCHANGED <<medium, sd, asked, wipe>>

(* Ten seconds on a powered bus without a host.                            *)
rkusb_timeout_check ==
    /\ pc = "rockusb" /\ keyed /\ returnRockusb
    /\ UNCHANGED <<medium, sd, asked, wipe, fails>>

(* 0xFF, 0x01 and 0x03 of the host.                                        *)
rkusb_reset_check ==
    /\ pc = "rockusb"
    /\ \/ reset_cpu /\ UNCHANGED <<flag, asked>>
       \/ reset_cpu /\ flag' = Flag("loader", "NORECOVER") /\ asked' = TRUE
       \/ pc' = "maskrom" /\ forget /\ flag' = Flag("maskrom", "other") /\ asked' = FALSE
    /\ UNCHANGED <<medium, sd, wipe, fails>>

(* The host writes sectors: images and the parameter block, or the boot    *)
(* area (K_FW_WRITE_10), which marks the loader as being replaced.         *)
rockusbWrite ==
    /\ pc = "rockusb"
    /\ \/ images' \in ImageSets /\ UNCHANGED <<params, flag, asked>>
       \/ \E c \in Copies, ok \in BOOLEAN : params' = [params EXCEPT ![c] = ok]
          /\ UNCHANGED <<images, flag, asked>>
       \/ flag' = ErrFlag /\ asked' = TRUE /\ UNCHANGED <<images, params>>
    /\ UNCHANGED <<misc, sd, pc, ram, wipe, fault, fails>>

---------------------------------------------------------------------------
(* fastboot, as Fastboot has it.                                           *)

(* do_fastboot; when it cannot connect, the loader goes on to "bootrk".    *)
do_fastboot ==
    /\ pc = "fbconnect"
    /\ \/ pc' = "fastboot" /\ Works /\ UNCHANGED <<first, source>>
       \/ bootrk("boot") /\ Fail
    /\ UNCHANGED <<flag, medium, sd, table, frt, ret, keyed, copy, asked, wipe, fault>>

(* board_fbt_set_reboot_type.  The faulty variant, first, has the case of  *)
(* the wipe run into the one of recovery.                                  *)
WipeFallsThrough(mode) ==
    /\ flag' = Flag("loader", IF mode = "WIPEDATA" THEN "RECOVER" ELSE mode)
    /\ asked' = TRUE /\ wipe' = IF mode = "WIPEDATA" THEN "asked" ELSE wipe
setRebootType(mode) ==
    /\ flag' = Flag("loader", mode) /\ asked' = TRUE
    /\ wipe' = IF mode = "WIPEDATA" THEN "asked" ELSE wipe

(* fbt_handle_reboot and "continue", which ends the loop.                  *)
fbt_handle_reboot ==
    /\ pc = "fastboot" /\ reset_cpu
    /\ \/ UNCHANGED <<flag, asked, wipe>>
       \/ \E mode \in {"LOADER", "RECOVER", "WIPEDATA"} : setRebootType(mode)
    /\ UNCHANGED <<medium, sd, fails>>

(* "oem unlock_accept" and "boot" leave for good.                          *)
fbt_handle_oem ==
    /\ pc = "fastboot" /\ pc' = "wipe" /\ wipe' = "asked"
    /\ UNCHANGED <<flag, medium, sd, ram, asked, fault, fails>>
fbt_handle_boot ==
    /\ pc = "fastboot" /\ bootrk("ram")
    /\ UNCHANGED <<flag, medium, sd, table, frt, ret, keyed, copy, asked, wipe, fault, fails>>

(* "flash" of an image, and of the parameter block copy by copy; a copy    *)
(* that cannot be written is passed over.  The faulty variant, before the  *)
(* loop, goes one copy too far.                                            *)
fbt_handle_flash ==
    /\ pc = "fastboot"
    /\ \/ images' \in ImageSets /\ UNCHANGED <<pc, copy>>
       \/ pc' = "param" /\ copy' = 0 /\ UNCHANGED images
    /\ UNCHANGED <<flag, misc, params, sd, table, frt, first, source, ret, keyed,
                   asked, wipe, fault, fails>>
StoreOnePast ==
    /\ pc = "param"
    /\ \/ copy <= PARAMETER_NUM /\ copy' = copy + 1 /\ UNCHANGED <<pc, params>>
       \/ copy > PARAMETER_NUM /\ pc' = "fastboot" /\ UNCHANGED <<params, copy>>
    /\ UNCHANGED <<flag, misc, images, sd, table, frt, first, source, ret, keyed,
                   asked, wipe, fault, fails>>
rkimage_store_image ==
    /\ pc = "param"
    /\ \/ /\ copy < PARAMETER_NUM /\ copy' = copy + 1 /\ UNCHANGED pc
          /\ \/ params' = [params EXCEPT ![copy] = TRUE] /\ Works
             \/ \E ok \in {params[copy], FALSE} : params' = [params EXCEPT ![copy] = ok]
                /\ Fail
       \/ copy = PARAMETER_NUM /\ pc' = "fastboot" /\ UNCHANGED <<params, copy, fails>>
    /\ UNCHANGED <<flag, misc, images, sd, table, frt, first, source, ret, keyed,
                   asked, wipe, fault>>

---------------------------------------------------------------------------
(* The running system, of boot, recovery or any other image, leaves a      *)
(* message in misc or clears it, and restarts with a request or, when it   *)
(* crashes, without one.                                                   *)
writeMisc ==
    /\ pc = "running"
    /\ \E cmd \in {"none", "boot-recovery", "wipe", "boot-factory", "loader"} :
          misc' = cmd /\ wipe' = IF cmd = "wipe" THEN "written" ELSE "none"
    /\ UNCHANGED <<flag, params, images, sd, pc, ram, asked, fault, fails>>
restart ==
    /\ pc = "running" /\ reset_cpu
    /\ \/ \E mode \in Modes : setRebootType(mode)
       \/ UNCHANGED <<flag, asked, wipe>>
    /\ UNCHANGED <<medium, sd, fails>>

powerLoss ==
    /\ pc # "off" /\ TurnOff
    /\ \/ UNCHANGED params
       \/ pc = "param" /\ copy < PARAMETER_NUM /\ params' = [params EXCEPT ![copy] = FALSE]
powerOn ==
    /\ pc = "off" /\ pc' = "reset" /\ sd' \in BOOLEAN
    /\ UNCHANGED <<flag, medium, ram, asked, wipe, fault, fails>>

---------------------------------------------------------------------------
loader ==
    \/ load_disk_partitions \/ board_fbt_get_reboot_type \/ board_fbt_key_pressed
    \/ clearRebootType \/ lowPower \/ dispatch \/ board_fbt_run_recovery_wipe_data
    \/ rkloader_run_misc_cmd \/ dispose_bootloader_cmd \/ do_bootrk
    \/ bootrkReadFails \/ do_rockusb \/ do_fastboot \/ rkimage_store_image

host ==
    \/ rkusb_timeout_check \/ rkusb_reset_check \/ rockusbWrite
    \/ fbt_handle_reboot \/ fbt_handle_oem \/ fbt_handle_boot \/ fbt_handle_flash

Next == loader \/ host \/ writeMisc \/ restart \/ powerLoss \/ powerOn

Spec == Init /\ [][Next]_vars

(* The loader is a single thread that waits for nobody but in rockusb and  *)
(* fastboot.                                                               *)
FairSpec == Spec /\ WF_vars(loader)

---------------------------------------------------------------------------
TypeOK ==
    /\ flag \in [tag : {"none", "loader", "kernel", "err", "maskrom"}, mode : Modes]
    /\ misc \in {"none", "boot-recovery", "wipe", "boot-factory", "loader"}
    /\ params \in [Copies -> BOOLEAN]
    /\ images \in ImageSets
    /\ pc \in {"off", "reset", "reboot_type", "preboot", "power", "dispatch", "wipe",
              "misc", "loader", "bootrk", "connect", "rockusb", "fbconnect",
              "fastboot", "param", "running", "maskrom"}
    /\ frt \in {"UNKNOWN", "NORMAL", "RECOVERY", "WIPE", "FASTBOOT", "NORECOVER", "CHARGE"}
    /\ first \in Sources /\ source \in Sources
    /\ ret \in {"preboot", "recovery", "reset", "start"}
    /\ copy \in 0..PARAMETER_NUM
    /\ wipe \in {"none", "asked", "written"}
    /\ sd \in BOOLEAN /\ table \in BOOLEAN /\ keyed \in BOOLEAN
    /\ asked \in BOOLEAN /\ fault \in BOOLEAN /\ fails \in 0..MaxFails

(* A request in the flag is carried out by one boot: whatever that boot    *)
(* comes to, rockusb left by the host, a kernel that crashes, a reset      *)
(* after a failure, the next start finds no request unless somebody left a *)
(* new one (board_fbt_get_reboot_type, board_fbt_set_reboot_type).         *)
NotTwice == pc = "reset" /\ Special(flag) => asked

(* A request to wipe the data, from the flag or from "oem unlock_accept",  *)
(* is on its way to misc until it is there, and stays there until the      *)
(* running system takes it out, whatever fails or loses power in between   *)
(* (board_fbt_run_recovery_wipe_data).  Before it is in misc the request   *)
(* can be lost in three ways, and wipe is then "none" again: the power     *)
(* goes or the loader itself shuts down on a low battery, the message      *)
(* cannot be written, or no partition table was found.                     *)
WipeKept ==
    /\ wipe = "asked" => pc = "wipe" \/ frt = "WIPE" \/ flag = Flag("loader", "WIPEDATA")
    /\ wipe = "written" => misc = "wipe"

(* The system in boot is not started over a message in misc that asks for  *)
(* another one (rkloader_run_misc_cmd).  Three starts are left out: one    *)
(* that cannot read misc, one that was asked for fastboot and could not    *)
(* connect, and one with BOOT_NORECOVER.  That flag is "do not enter       *)
(* recover" (config.h, include/fastboot.h) and "force to reboot to system" *)
(* (cmd_rockusb.c), but rkloader_run_misc_cmd does not look at it: with a  *)
(* message in misc such a start is recovery's all the same.                *)
Unconcerned == frt \in {"FASTBOOT", "NORECOVER"}
RecoveryFirst ==
    [][pc # "running" /\ pc' = "running" /\ source' = "boot"
       => misc \notin {"boot-recovery", "wipe", "boot-factory"} \/ fault \/ Unconcerned]_vars

(* The images a boot that asks for f may start, and the order in which     *)
(* they are meant to be tried.                                             *)
Chain(f) == CASE f = "boot"     -> {"boot", "recovery", "backup"}
              [] f = "recovery" -> {"recovery", "backup"}
              [] OTHER          -> {f}
Rank(s) == CASE s = "boot" -> 1 [] s = "recovery" -> 2 [] OTHER -> 3
Usable(s) == s # "ram" /\ table /\ images[s] = "good"

InOrder == /\ source \in Chain(first)
           /\ \A s \in Chain(first) : Rank(s) < Rank(source) => ~Usable(s)
NoneUsable == \A s \in Chain(first) : ~Usable(s)

(* Falling back: an image runs only when those before it in the chain are  *)
(* unusable, and rockusb is the last resort, reached for want of an image  *)
(* only when no image of the chain is usable (board_fbt_boot_failed).      *)
FallBackInOrder ==
    ~fault => /\ pc = "running" => InOrder
              /\ pc = "connect" /\ ret \in {"reset", "start"} => NoneUsable

(* What the loader knows at each of its steps, from which the properties   *)
(* above follow: where a request to wipe is between the flag and misc,     *)
(* what misc holds when boot is loaded, where rockusb will return to, and  *)
(* which images have been tried.                                           *)
FlagInv == Special(flag) => asked
WipeInv ==
    /\ wipe = "asked" =>
         \/ pc \in {"reset", "reboot_type"} /\ flag = Flag("loader", "WIPEDATA")
         \/ pc \in {"preboot", "power", "dispatch"} /\ frt = "WIPE"
         \/ pc = "wipe"
    /\ wipe = "written" => misc = "wipe"
    /\ pc = "loader" => misc = "loader"
MiscInv ==
    /\ pc = "bootrk" /\ source = "boot" =>
         ~table \/ misc \notin {"boot-recovery", "wipe", "boot-factory"}
         \/ fault \/ Unconcerned
    /\ pc = "fbconnect" => frt = "FASTBOOT"
    /\ pc = "connect" /\ ret = "start" => source \notin {"boot", "recovery"}
    /\ keyed => ret = "recovery"
ChainInv ==
    ~fault => /\ pc \in {"bootrk", "running"} => InOrder
              /\ pc = "connect" /\ ret \in {"reset", "start"} => InOrder /\ NoneUsable
BInv == FlagInv /\ WipeInv /\ MiscInv /\ ChainInv

(* Every start ends in a system, in rockusb or fastboot, or switched off:  *)
(* the resets of do_bootrk and of the loader update do not go on for ever  *)
(* unless something keeps failing.                                         *)
ComesToRest == pc = "reset" ~> pc \in {"running", "rockusb", "fastboot", "off"}

=============================================================================
