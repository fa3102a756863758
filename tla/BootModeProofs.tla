--------------------------- MODULE BootModeProofs ---------------------------
(* The proofs about BootMode: its invariant BInv holds for every number of *)
(* copies of the parameter block, every choice of images and every number  *)
(* of failures, and what NotTwice, WipeKept, FallBackInOrder and           *)
(* RecoveryFirst say follows.  Each lemma takes the actions one by one.    *)
EXTENDS BootMode, TLAPS

(* A step leaves no request in the flag that nobody has asked for.         *)
LEMMA FlagStep == ASSUME FlagInv, Next PROVE FlagInv'
<1>1. CASE load_disk_partitions
  BY <1>1 DEF load_disk_partitions, GetParam, Works, Fail, medium, FlagInv,
         Special, ErrFlag, Flag
<1>2. CASE board_fbt_get_reboot_type
  BY <1>2 DEF board_fbt_get_reboot_type, feedback, ErrFlag, Flag,
         EnterRockusb, rebootType, medium, FlagInv, Special
<1>3. CASE board_fbt_key_pressed
  BY <1>3 DEF board_fbt_key_pressed, EnterRockusb, medium, FlagInv, Special,
         ErrFlag, Flag
<1>4. CASE clearRebootType
  BY <1>4 DEF clearRebootType, Flag, medium, ram, FlagInv, Special, ErrFlag
<1>5. CASE lowPower
  BY <1>5 DEF lowPower, TurnOff, medium, ram, NoFlag, forget, Flag, FlagInv,
         Special, ErrFlag
<1>6. CASE dispatch
  BY <1>6 DEF dispatch, bootrk, medium, FlagInv, Special, ErrFlag, Flag
<1>7. CASE board_fbt_run_recovery_wipe_data
  BY <1>7 DEF board_fbt_run_recovery_wipe_data, bootrk, Works, Fail, FlagInv,
         Special, ErrFlag, Flag
<1>8. CASE rkloader_run_misc_cmd
  BY <1>8 DEF rkloader_run_misc_cmd, bootrk, Works, Fail, medium, FlagInv,
         Special, ErrFlag, Flag
<1>9. CASE dispose_bootloader_cmd
  BY <1>9 DEF dispose_bootloader_cmd, Works, Fail, Flag, reset_cpu, bootrk,
         forget, FlagInv, Special, ErrFlag
<1>10. CASE do_bootrk
  BY <1>10 DEF do_bootrk, Qualities, startKernel, board_fbt_boot_failed,
         medium, Flag, EnterRockusb, FlagInv, Special, ErrFlag
<1>11. CASE bootrkReadFails
  BY <1>11 DEF bootrkReadFails, Fail, board_fbt_boot_failed, medium,
         EnterRockusb, FlagInv, Special, ErrFlag, Flag
<1>12. CASE do_rockusb
  BY <1>12 DEF do_rockusb, Works, ram, returnRockusb, Fail, medium,
         reset_cpu, startKernel, forget, Flag, FlagInv, Special, ErrFlag
<1>13. CASE do_fastboot
  BY <1>13 DEF do_fastboot, Works, bootrk, Fail, medium, FlagInv, Special,
         ErrFlag, Flag
<1>14. CASE rkimage_store_image
  BY <1>14 DEF rkimage_store_image, Works, Fail, FlagInv, Special, ErrFlag,
         Flag
<1>15. CASE rkusb_timeout_check
  <2>1. asked' = asked /\ (flag' = flag \/ flag' = Flag("kernel", "RECOVER"))
    BY <1>15, Zenon DEF rkusb_timeout_check, returnRockusb, medium, ram,
         reset_cpu, startKernel, forget
  <2> QED BY <2>1 DEF FlagInv, Special, Flag, ErrFlag
<1>16. CASE rkusb_reset_check
  BY <1>16 DEF rkusb_reset_check, reset_cpu, Flag, forget, medium, FlagInv,
         Special, ErrFlag
<1>17. CASE rockusbWrite
  BY <1>17 DEF rockusbWrite, ErrFlag, ram, Flag, FlagInv, Special
<1>18. CASE fbt_handle_reboot
  BY <1>18 DEF fbt_handle_reboot, reset_cpu, setRebootType, medium, forget,
         Flag, FlagInv, Special, ErrFlag
<1>19. CASE fbt_handle_oem
  BY <1>19 DEF fbt_handle_oem, medium, ram, FlagInv, Special, ErrFlag, Flag
<1>20. CASE fbt_handle_boot
  BY <1>20 DEF fbt_handle_boot, bootrk, medium, FlagInv, Special, ErrFlag,
         Flag
<1>21. CASE fbt_handle_flash
  BY <1>21 DEF fbt_handle_flash, FlagInv, Special, ErrFlag, Flag
<1>22. CASE writeMisc
  BY <1>22 DEF writeMisc, ram, FlagInv, Special, ErrFlag, Flag
<1>23. CASE restart
  BY <1>23 DEF restart, reset_cpu, setRebootType, medium, forget, Flag,
         FlagInv, Special, ErrFlag
<1>24. CASE powerLoss
  BY <1>24 DEF powerLoss, TurnOff, NoFlag, forget, Flag, FlagInv, Special,
         ErrFlag
<1>25. CASE powerOn
  BY <1>25 DEF powerOn, medium, ram, FlagInv, Special, ErrFlag, Flag
<1> QED BY <1>1, <1>2, <1>3, <1>4, <1>5, <1>6, <1>7, <1>8, <1>9, <1>10,
         <1>11, <1>12, <1>13, <1>14, <1>15, <1>16, <1>17, <1>18, <1>19,
         <1>20, <1>21, <1>22, <1>23, <1>24, <1>25 DEF Next, loader, host

(* A step moves a request to wipe from the flag to misc, or leaves it      *)
(* where it is.                                                            *)
LEMMA WipeStep == ASSUME WipeInv, Next PROVE WipeInv'
<1>1. CASE load_disk_partitions
  BY <1>1 DEF load_disk_partitions, GetParam, Works, Fail, medium, WipeInv,
         Flag
<1>2. CASE board_fbt_get_reboot_type
  BY <1>2 DEF board_fbt_get_reboot_type, feedback, ErrFlag, Flag,
         EnterRockusb, rebootType, medium, WipeInv
<1>3. CASE board_fbt_key_pressed
  BY <1>3 DEF board_fbt_key_pressed, EnterRockusb, medium, WipeInv, Flag
<1>4. CASE clearRebootType
  BY <1>4 DEF clearRebootType, Flag, medium, ram, WipeInv
<1>5. CASE lowPower
  BY <1>5 DEF lowPower, TurnOff, medium, ram, NoFlag, forget, Flag, WipeInv
<1>6. CASE dispatch
  BY <1>6 DEF dispatch, bootrk, medium, WipeInv, Flag
<1>7. CASE board_fbt_run_recovery_wipe_data
  BY <1>7 DEF board_fbt_run_recovery_wipe_data, bootrk, Works, Fail, WipeInv,
         Flag
<1>8. CASE rkloader_run_misc_cmd
  BY <1>8 DEF rkloader_run_misc_cmd, bootrk, Works, Fail, medium, WipeInv,
         Flag
<1>9. CASE dispose_bootloader_cmd
  BY <1>9 DEF dispose_bootloader_cmd, Works, Fail, Flag, reset_cpu, bootrk,
         forget, WipeInv
<1>10. CASE do_bootrk
  BY <1>10 DEF do_bootrk, Qualities, startKernel, board_fbt_boot_failed,
         medium, Flag, EnterRockusb, WipeInv
<1>11. CASE bootrkReadFails
  BY <1>11 DEF bootrkReadFails, Fail, board_fbt_boot_failed, medium,
         EnterRockusb, WipeInv, Flag
<1>12. CASE do_rockusb
  BY <1>12 DEF do_rockusb, Works, ram, returnRockusb, Fail, medium,
         reset_cpu, startKernel, forget, Flag, WipeInv
<1>13. CASE do_fastboot
  BY <1>13 DEF do_fastboot, Works, bootrk, Fail, medium, WipeInv, Flag
<1>14. CASE rkimage_store_image
  BY <1>14 DEF rkimage_store_image, Works, Fail, WipeInv, Flag
<1>15. CASE rkusb_timeout_check
  BY <1>15, Zenon DEF rkusb_timeout_check, returnRockusb, medium, ram, reset_cpu,
         startKernel, forget, Flag, WipeInv
<1>16. CASE rkusb_reset_check
  BY <1>16 DEF rkusb_reset_check, reset_cpu, Flag, forget, medium, WipeInv
<1>17. CASE rockusbWrite
  BY <1>17 DEF rockusbWrite, ErrFlag, ram, Flag, WipeInv
<1>18. CASE fbt_handle_reboot
  BY <1>18 DEF fbt_handle_reboot, reset_cpu, setRebootType, medium, forget,
         Flag, WipeInv
<1>19. CASE fbt_handle_oem
  BY <1>19 DEF fbt_handle_oem, medium, ram, WipeInv, Flag
<1>20. CASE fbt_handle_boot
  BY <1>20 DEF fbt_handle_boot, bootrk, medium, WipeInv, Flag
<1>21. CASE fbt_handle_flash
  BY <1>21 DEF fbt_handle_flash, WipeInv, Flag
<1>22. CASE writeMisc
  BY <1>22 DEF writeMisc, ram, WipeInv, Flag
<1>23. CASE restart
  BY <1>23 DEF restart, reset_cpu, setRebootType, medium, forget, Flag,
         WipeInv
<1>24. CASE powerLoss
  BY <1>24 DEF powerLoss, TurnOff, NoFlag, forget, Flag, WipeInv
<1>25. CASE powerOn
  BY <1>25 DEF powerOn, medium, ram, WipeInv, Flag
<1> QED BY <1>1, <1>2, <1>3, <1>4, <1>5, <1>6, <1>7, <1>8, <1>9, <1>10,
         <1>11, <1>12, <1>13, <1>14, <1>15, <1>16, <1>17, <1>18, <1>19,
         <1>20, <1>21, <1>22, <1>23, <1>24, <1>25 DEF Next, loader, host

(* A step that comes to loading boot has looked at misc, or could not.     *)
LEMMA MiscStep == ASSUME WipeInv, MiscInv, Next PROVE MiscInv'
<1>1. CASE load_disk_partitions
  BY <1>1 DEF load_disk_partitions, GetParam, Works, Fail, medium, WipeInv,
         MiscInv, Unconcerned, Flag
<1>2. CASE board_fbt_get_reboot_type
  BY <1>2 DEF board_fbt_get_reboot_type, feedback, ErrFlag, Flag,
         EnterRockusb, rebootType, medium, WipeInv, MiscInv, Unconcerned
<1>3. CASE board_fbt_key_pressed
  BY <1>3 DEF board_fbt_key_pressed, EnterRockusb, medium, WipeInv, MiscInv, Unconcerned,
         Flag
<1>4. CASE clearRebootType
  BY <1>4 DEF clearRebootType, Flag, medium, ram, WipeInv, MiscInv, Unconcerned
<1>5. CASE lowPower
  BY <1>5 DEF lowPower, TurnOff, medium, ram, NoFlag, forget, Flag, WipeInv,
         MiscInv, Unconcerned
<1>6. CASE dispatch
  BY <1>6 DEF dispatch, bootrk, medium, WipeInv, MiscInv, Unconcerned, Flag
<1>7. CASE board_fbt_run_recovery_wipe_data
  BY <1>7 DEF board_fbt_run_recovery_wipe_data, bootrk, Works, Fail, WipeInv,
         MiscInv, Unconcerned, Flag
<1>8. CASE rkloader_run_misc_cmd
  BY <1>8 DEF rkloader_run_misc_cmd, bootrk, Works, Fail, medium, WipeInv,
         MiscInv, Unconcerned, Flag
<1>9. CASE dispose_bootloader_cmd
  BY <1>9 DEF dispose_bootloader_cmd, Works, Fail, Flag, reset_cpu, bootrk,
         forget, WipeInv, MiscInv, Unconcerned
<1>10. CASE do_bootrk
  BY <1>10 DEF do_bootrk, Qualities, startKernel, board_fbt_boot_failed,
         medium, Flag, EnterRockusb, WipeInv, MiscInv, Unconcerned
<1>11. CASE bootrkReadFails
  BY <1>11 DEF bootrkReadFails, Fail, board_fbt_boot_failed, medium,
         EnterRockusb, WipeInv, MiscInv, Unconcerned, Flag
<1>12. CASE do_rockusb
  BY <1>12 DEF do_rockusb, Works, ram, returnRockusb, Fail, medium,
         reset_cpu, startKernel, forget, Flag, WipeInv, MiscInv, Unconcerned
<1>13. CASE do_fastboot
  BY <1>13 DEF do_fastboot, Works, bootrk, Fail, medium, WipeInv, MiscInv, Unconcerned,
         Flag
<1>14. CASE rkimage_store_image
  BY <1>14 DEF rkimage_store_image, Works, Fail, WipeInv, MiscInv, Unconcerned, Flag
<1>15. CASE rkusb_timeout_check
  BY <1>15 DEF rkusb_timeout_check, returnRockusb, medium, ram, reset_cpu,
         startKernel, forget, Flag, WipeInv, MiscInv, Unconcerned
<1>16. CASE rkusb_reset_check
  BY <1>16 DEF rkusb_reset_check, reset_cpu, Flag, forget, medium, WipeInv,
         MiscInv, Unconcerned
<1>17. CASE rockusbWrite
  BY <1>17 DEF rockusbWrite, ErrFlag, ram, Flag, WipeInv, MiscInv, Unconcerned
<1>18. CASE fbt_handle_reboot
  BY <1>18 DEF fbt_handle_reboot, reset_cpu, setRebootType, medium, forget,
         Flag, WipeInv, MiscInv, Unconcerned
<1>19. CASE fbt_handle_oem
  BY <1>19 DEF fbt_handle_oem, medium, ram, WipeInv, MiscInv, Unconcerned, Flag
<1>20. CASE fbt_handle_boot
  BY <1>20 DEF fbt_handle_boot, bootrk, medium, WipeInv, MiscInv, Unconcerned, Flag
<1>21. CASE fbt_handle_flash
  BY <1>21 DEF fbt_handle_flash, WipeInv, MiscInv, Unconcerned, Flag
<1>22. CASE writeMisc
  BY <1>22 DEF writeMisc, ram, WipeInv, MiscInv, Unconcerned, Flag
<1>23. CASE restart
  BY <1>23 DEF restart, reset_cpu, setRebootType, medium, forget, Flag,
         WipeInv, MiscInv, Unconcerned
<1>24. CASE powerLoss
  BY <1>24 DEF powerLoss, TurnOff, NoFlag, forget, Flag, WipeInv, MiscInv, Unconcerned
<1>25. CASE powerOn
  BY <1>25 DEF powerOn, medium, ram, WipeInv, MiscInv, Unconcerned, Flag
<1> QED BY <1>1, <1>2, <1>3, <1>4, <1>5, <1>6, <1>7, <1>8, <1>9, <1>10,
         <1>11, <1>12, <1>13, <1>14, <1>15, <1>16, <1>17, <1>18, <1>19,
         <1>20, <1>21, <1>22, <1>23, <1>24, <1>25 DEF Next, loader, host

(* A step goes on to the next image of the chain only from one that is     *)
(* unusable.                                                               *)
LEMMA ChainStep == ASSUME MiscInv, ChainInv, Next PROVE ChainInv'
<1>1. CASE load_disk_partitions
  BY <1>1 DEF load_disk_partitions, GetParam, Works, Fail, medium, MiscInv,
         ChainInv, InOrder, NoneUsable, Chain, Rank, Usable
<1>2. CASE board_fbt_get_reboot_type
  BY <1>2 DEF board_fbt_get_reboot_type, feedback, ErrFlag, Flag,
         EnterRockusb, rebootType, medium, MiscInv, ChainInv, InOrder,
         NoneUsable, Chain, Rank, Usable
<1>3. CASE board_fbt_key_pressed
  BY <1>3 DEF board_fbt_key_pressed, EnterRockusb, medium, MiscInv, ChainInv,
         InOrder, NoneUsable, Chain, Rank, Usable
<1>4. CASE clearRebootType
  BY <1>4 DEF clearRebootType, Flag, medium, ram, MiscInv, ChainInv, InOrder,
         NoneUsable, Chain, Rank, Usable
<1>5. CASE lowPower
  BY <1>5 DEF lowPower, TurnOff, medium, ram, NoFlag, forget, Flag, MiscInv,
         ChainInv, InOrder, NoneUsable, Chain, Rank, Usable
<1>6. CASE dispatch
  BY <1>6 DEF dispatch, bootrk, medium, MiscInv, ChainInv, InOrder,
         NoneUsable, Chain, Rank, Usable
<1>7. CASE board_fbt_run_recovery_wipe_data
  BY <1>7 DEF board_fbt_run_recovery_wipe_data, bootrk, Works, Fail, MiscInv,
         ChainInv, InOrder, NoneUsable, Chain, Rank, Usable
<1>8. CASE rkloader_run_misc_cmd
  BY <1>8 DEF rkloader_run_misc_cmd, bootrk, Works, Fail, medium, MiscInv,
         ChainInv, InOrder, NoneUsable, Chain, Rank, Usable
<1>9. CASE dispose_bootloader_cmd
  BY <1>9 DEF dispose_bootloader_cmd, Works, Fail, Flag, reset_cpu, bootrk,
         forget, MiscInv, ChainInv, InOrder, NoneUsable, Chain, Rank, Usable
<1>10. CASE do_bootrk
  BY <1>10 DEF do_bootrk, Qualities, startKernel, board_fbt_boot_failed,
         medium, Flag, EnterRockusb, MiscInv, ChainInv, InOrder, NoneUsable,
         Chain, Rank, Usable
<1>11. CASE bootrkReadFails
  BY <1>11 DEF bootrkReadFails, Fail, board_fbt_boot_failed, medium,
         EnterRockusb, MiscInv, ChainInv, InOrder, NoneUsable, Chain, Rank,
         Usable
<1>12. CASE do_rockusb
  BY <1>12 DEF do_rockusb, Works, ram, returnRockusb, Fail, medium,
         reset_cpu, startKernel, forget, Flag, MiscInv, ChainInv, InOrder,
         NoneUsable, Chain, Rank, Usable
<1>13. CASE do_fastboot
  BY <1>13 DEF do_fastboot, Works, bootrk, Fail, medium, MiscInv, ChainInv,
         InOrder, NoneUsable, Chain, Rank, Usable
<1>14. CASE rkimage_store_image
  BY <1>14 DEF rkimage_store_image, Works, Fail, MiscInv, ChainInv, InOrder,
         NoneUsable, Chain, Rank, Usable
<1>15. CASE rkusb_timeout_check
  BY <1>15 DEF rkusb_timeout_check, returnRockusb, medium, ram, reset_cpu,
         startKernel, forget, Flag, MiscInv, ChainInv, InOrder, NoneUsable,
         Chain, Rank, Usable
<1>16. CASE rkusb_reset_check
  BY <1>16 DEF rkusb_reset_check, reset_cpu, Flag, forget, medium, MiscInv,
         ChainInv, InOrder, NoneUsable, Chain, Rank, Usable
<1>17. CASE rockusbWrite
  BY <1>17 DEF rockusbWrite, ErrFlag, ram, Flag, MiscInv, ChainInv, InOrder,
         NoneUsable, Chain, Rank, Usable
<1>18. CASE fbt_handle_reboot
  BY <1>18 DEF fbt_handle_reboot, reset_cpu, setRebootType, medium, forget,
         Flag, MiscInv, ChainInv, InOrder, NoneUsable, Chain, Rank, Usable
<1>19. CASE fbt_handle_oem
  BY <1>19 DEF fbt_handle_oem, medium, ram, MiscInv, ChainInv, InOrder,
         NoneUsable, Chain, Rank, Usable
<1>20. CASE fbt_handle_boot
  BY <1>20 DEF fbt_handle_boot, bootrk, medium, MiscInv, ChainInv, InOrder,
         NoneUsable, Chain, Rank, Usable
<1>21. CASE fbt_handle_flash
  BY <1>21 DEF fbt_handle_flash, MiscInv, ChainInv, InOrder, NoneUsable,
         Chain, Rank, Usable
<1>22. CASE writeMisc
  BY <1>22 DEF writeMisc, ram, MiscInv, ChainInv, InOrder, NoneUsable, Chain,
         Rank, Usable
<1>23. CASE restart
  BY <1>23 DEF restart, reset_cpu, setRebootType, medium, forget, Flag,
         MiscInv, ChainInv, InOrder, NoneUsable, Chain, Rank, Usable
<1>24. CASE powerLoss
  BY <1>24 DEF powerLoss, TurnOff, NoFlag, forget, Flag, MiscInv, ChainInv,
         InOrder, NoneUsable, Chain, Rank, Usable
<1>25. CASE powerOn
  BY <1>25 DEF powerOn, medium, ram, MiscInv, ChainInv, InOrder, NoneUsable,
         Chain, Rank, Usable
<1> QED BY <1>1, <1>2, <1>3, <1>4, <1>5, <1>6, <1>7, <1>8, <1>9, <1>10,
         <1>11, <1>12, <1>13, <1>14, <1>15, <1>16, <1>17, <1>18, <1>19,
         <1>20, <1>21, <1>22, <1>23, <1>24, <1>25 DEF Next, loader, host

(* A step that changes no variable keeps the invariant.                    *)
LEMMA StutterStep == ASSUME BInv, UNCHANGED vars PROVE BInv'
BY DEF BInv, FlagInv, WipeInv, MiscInv, Unconcerned, ChainInv, InOrder, NoneUsable, Usable,
       vars, medium, ram

(* A board leaves the factory with no request and nothing tried.           *)
LEMMA InitInv == Init => BInv
BY DEF Init, BInv, FlagInv, Special, Flag, NoFlag, ErrFlag, WipeInv, MiscInv,
       Unconcerned, ChainInv

(* The loader knows at each step what BInv says, however many copies of    *)
(* the parameter block there are, whatever the images, and however often   *)
(* reads, writes, connections and the power fail.                          *)
THEOREM BootSound == Spec => []BInv
<1>1. ASSUME BInv, [Next]_vars PROVE BInv'
  <2>1. CASE Next
    BY <1>1, <2>1, FlagStep, WipeStep, MiscStep, ChainStep DEF BInv
  <2>2. CASE UNCHANGED vars
    BY <1>1, <2>2, StutterStep
  <2> QED BY <1>1, <2>1, <2>2
<1> QED BY InitInv, <1>1, PTL DEF Spec

(* board_fbt_get_reboot_type carries a request of the flag out once: no    *)
(* reset finds one that nobody has left since.                             *)
THEOREM RequestsOnce == Spec => []NotTwice
<1>1. BInv => NotTwice BY DEF BInv, FlagInv, NotTwice
<1> QED BY BootSound, <1>1, PTL

(* A request to wipe the data reaches misc, and stays there until the      *)
(* running system removes it.                                              *)
THEOREM WipeIsKept == Spec => []WipeKept
<1>1. BInv => WipeKept BY DEF BInv, WipeInv, WipeKept
<1> QED BY BootSound, <1>1, PTL

(* board_fbt_boot_failed tries boot, recovery and backup in this order,    *)
(* and gives up only when none of those that were to be tried is usable.   *)
THEOREM FallsBackInOrder == Spec => []FallBackInOrder
<1>1. BInv => FallBackInOrder BY DEF BInv, ChainInv, FallBackInOrder
<1> QED BY BootSound, <1>1, PTL

(* The step that starts boot, if misc asks for another system, is one of a *)
(* boot that could not read misc, or was asked for fastboot or to keep out *)
(* of recovery.                                                            *)
LEMMA StartStep ==
    ASSUME MiscInv, Next, pc # "running", pc' = "running", source' = "boot"
    PROVE  misc \notin {"boot-recovery", "wipe", "boot-factory"} \/ fault \/ Unconcerned
<1>1. CASE load_disk_partitions
  BY <1>1 DEF load_disk_partitions, medium
<1>2. CASE board_fbt_get_reboot_type
  BY <1>2 DEF board_fbt_get_reboot_type, EnterRockusb, medium
<1>3. CASE board_fbt_key_pressed
  BY <1>3 DEF board_fbt_key_pressed, EnterRockusb, medium
<1>4. CASE clearRebootType
  BY <1>4 DEF clearRebootType, medium, ram
<1>5. CASE lowPower
  BY <1>5 DEF lowPower, TurnOff, medium, ram, forget
<1>6. CASE dispatch
  BY <1>6 DEF dispatch, bootrk, medium
<1>7. CASE board_fbt_run_recovery_wipe_data
  BY <1>7 DEF board_fbt_run_recovery_wipe_data, bootrk
<1>8. CASE rkloader_run_misc_cmd
  BY <1>8 DEF rkloader_run_misc_cmd, bootrk, medium
<1>9. CASE dispose_bootloader_cmd
  BY <1>9 DEF dispose_bootloader_cmd, reset_cpu, bootrk, forget
<1>10. CASE do_bootrk
  BY <1>10 DEF do_bootrk, Qualities, startKernel, board_fbt_boot_failed,
         medium, EnterRockusb, MiscInv
<1>11. CASE bootrkReadFails
  BY <1>11 DEF bootrkReadFails, board_fbt_boot_failed, medium, EnterRockusb
<1>12. CASE do_rockusb
  BY <1>12 DEF do_rockusb, ram, returnRockusb, medium, reset_cpu,
         startKernel, forget, MiscInv
<1>13. CASE do_fastboot
  BY <1>13 DEF do_fastboot, bootrk, medium
<1>14. CASE rkimage_store_image
  BY <1>14 DEF rkimage_store_image
<1>15. CASE rkusb_timeout_check
  BY <1>15 DEF rkusb_timeout_check, returnRockusb, medium, ram, reset_cpu,
         startKernel, forget, MiscInv
<1>16. CASE rkusb_reset_check
  BY <1>16 DEF rkusb_reset_check, reset_cpu, forget, medium
<1>17. CASE rockusbWrite
  BY <1>17 DEF rockusbWrite, ram
<1>18. CASE fbt_handle_reboot
  BY <1>18 DEF fbt_handle_reboot, reset_cpu, setRebootType, medium, forget
<1>19. CASE fbt_handle_oem
  BY <1>19 DEF fbt_handle_oem, medium, ram
<1>20. CASE fbt_handle_boot
  BY <1>20 DEF fbt_handle_boot, bootrk, medium
<1>21. CASE fbt_handle_flash
  BY <1>21 DEF fbt_handle_flash
<1>22. CASE writeMisc
  BY <1>22 DEF writeMisc, ram
<1>23. CASE restart
  BY <1>23 DEF restart, reset_cpu, setRebootType, medium, forget
<1>24. CASE powerLoss
  BY <1>24 DEF powerLoss, TurnOff, forget
<1>25. CASE powerOn
  BY <1>25 DEF powerOn, medium, ram
<1> QED BY <1>1, <1>2, <1>3, <1>4, <1>5, <1>6, <1>7, <1>8, <1>9, <1>10,
         <1>11, <1>12, <1>13, <1>14, <1>15, <1>16, <1>17, <1>18, <1>19,
         <1>20, <1>21, <1>22, <1>23, <1>24, <1>25 DEF Next, loader, host

(* rkloader_run_misc_cmd: boot is not started over such a message.         *)
THEOREM MiscComesFirst == Spec => RecoveryFirst
<1> DEFINE Start == pc # "running" /\ pc' = "running" /\ source' = "boot"
           => misc \notin {"boot-recovery", "wipe", "boot-factory"} \/ fault \/ Unconcerned
<1>1. BInv /\ [Next]_vars => [Start]_vars
  BY StartStep DEF BInv
<1>2. RecoveryFirst <=> [][Start]_vars
  BY DEF RecoveryFirst
<1> QED BY BootSound, <1>1, <1>2, PTL DEF Spec

(* TypeOK in two parts: what holds truth values, and the rest.             *)
TypeTruths ==
    /\ params \in [Copies -> BOOLEAN]
    /\ sd \in BOOLEAN /\ table \in BOOLEAN /\ keyed \in BOOLEAN
    /\ asked \in BOOLEAN /\ fault \in BOOLEAN
TypeData ==
    /\ flag \in [tag : {"none", "loader", "kernel", "err", "maskrom"}, mode : Modes]
    /\ misc \in {"none", "boot-recovery", "wipe", "boot-factory", "loader"}
    /\ images \in ImageSets
    /\ pc \in {"off", "reset", "reboot_type", "preboot", "power", "dispatch", "wipe",
              "misc", "loader", "bootrk", "connect", "rockusb", "fbconnect",
              "fastboot", "param", "running", "maskrom"}
    /\ frt \in {"UNKNOWN", "NORMAL", "RECOVERY", "WIPE", "FASTBOOT", "NORECOVER", "CHARGE"}
    /\ first \in Sources /\ source \in Sources
    /\ ret \in {"preboot", "recovery", "reset", "start"}
    /\ copy \in 0..PARAMETER_NUM
    /\ wipe \in {"none", "asked", "written"}
    /\ fails \in 0..MaxFails

(* A step keeps the truth values.                                          *)
LEMMA TruthStep == ASSUME TypeOK, Next PROVE TypeTruths'
<1>1. CASE load_disk_partitions
  <2>1. 0 \in Copies
    BY BootModeAssumption DEF Copies
  <2>2. params[0] \in BOOLEAN
    BY <2>1, Zenon DEF TypeOK
  <2> QED
    BY <1>1, <2>2, Zenon DEF load_disk_partitions, GetParam, medium, TypeOK, TypeTruths
<1>2. CASE board_fbt_get_reboot_type
  BY <1>2, Zenon DEF board_fbt_get_reboot_type, EnterRockusb, medium,
         TypeOK, TypeTruths
<1>3. CASE board_fbt_key_pressed
  BY <1>3, Zenon DEF board_fbt_key_pressed, EnterRockusb, medium, TypeOK,
         TypeTruths
<1>4. CASE clearRebootType
  BY <1>4, Zenon DEF clearRebootType, medium, ram, TypeOK, TypeTruths
<1>5. CASE lowPower
  BY <1>5, Zenon DEF lowPower, TurnOff, medium, ram, forget, TypeOK,
         TypeTruths
<1>6. CASE dispatch
  BY <1>6, Zenon DEF dispatch, bootrk, medium, TypeOK, TypeTruths
<1>7. CASE board_fbt_run_recovery_wipe_data
  BY <1>7, Zenon DEF board_fbt_run_recovery_wipe_data, bootrk, TypeOK,
         TypeTruths
<1>8. CASE rkloader_run_misc_cmd
  BY <1>8, Zenon DEF rkloader_run_misc_cmd, bootrk, medium, TypeOK,
         TypeTruths
<1>9. CASE dispose_bootloader_cmd
  BY <1>9, Zenon DEF dispose_bootloader_cmd, reset_cpu, bootrk, forget,
         TypeOK, TypeTruths
<1>10. CASE do_bootrk
  BY <1>10, Zenon DEF do_bootrk, startKernel, board_fbt_boot_failed, medium,
         EnterRockusb, TypeOK, TypeTruths
<1>11. CASE bootrkReadFails
  BY <1>11, Zenon DEF bootrkReadFails, board_fbt_boot_failed, medium,
         EnterRockusb, TypeOK, TypeTruths
<1>12. CASE do_rockusb
  BY <1>12, Zenon DEF do_rockusb, ram, returnRockusb, medium, reset_cpu,
         startKernel, forget, TypeOK, TypeTruths
<1>13. CASE do_fastboot
  BY <1>13, Zenon DEF do_fastboot, bootrk, medium, TypeOK, TypeTruths
<1>14. CASE rkimage_store_image
  BY <1>14, Zenon DEF rkimage_store_image, TypeOK, TypeTruths
<1>15. CASE rkusb_timeout_check
  BY <1>15, Zenon DEF rkusb_timeout_check, returnRockusb, medium, ram,
         reset_cpu, startKernel, forget, TypeOK, TypeTruths
<1>16. CASE rkusb_reset_check
  BY <1>16, Zenon DEF rkusb_reset_check, reset_cpu, forget, medium, TypeOK,
         TypeTruths
<1>17. CASE rockusbWrite
  BY <1>17, Zenon DEF rockusbWrite, ram, TypeOK, TypeTruths
<1>18. CASE fbt_handle_reboot
  BY <1>18, Zenon DEF fbt_handle_reboot, reset_cpu, setRebootType, medium,
         forget, TypeOK, TypeTruths
<1>19. CASE fbt_handle_oem
  BY <1>19, Zenon DEF fbt_handle_oem, medium, ram, TypeOK, TypeTruths
<1>20. CASE fbt_handle_boot
  BY <1>20, Zenon DEF fbt_handle_boot, bootrk, medium, TypeOK, TypeTruths
<1>21. CASE fbt_handle_flash
  BY <1>21, Zenon DEF fbt_handle_flash, TypeOK, TypeTruths
<1>22. CASE writeMisc
  BY <1>22, Zenon DEF writeMisc, ram, TypeOK, TypeTruths
<1>23. CASE restart
  BY <1>23, Zenon DEF restart, reset_cpu, setRebootType, medium, forget,
         TypeOK, TypeTruths
<1>24. CASE powerLoss
  BY <1>24, Zenon DEF powerLoss, TurnOff, forget, TypeOK, TypeTruths
<1>25. CASE powerOn
  BY <1>25, Zenon DEF powerOn, medium, ram, TypeOK, TypeTruths
<1> QED BY <1>1, <1>2, <1>3, <1>4, <1>5, <1>6, <1>7, <1>8, <1>9, <1>10,
         <1>11, <1>12, <1>13, <1>14, <1>15, <1>16, <1>17, <1>18, <1>19,
         <1>20, <1>21, <1>22, <1>23, <1>24, <1>25 DEF Next, loader, host

(* A step keeps the rest.                                                  *)
LEMMA DataStep == ASSUME TypeOK, Next PROVE TypeData'
<1>1. CASE load_disk_partitions
  BY <1>1, BootModeAssumption DEF load_disk_partitions, GetParam, Works,
         Fail, medium, ErrFlag, Flag, TypeOK, Modes, Sources, Partitions,
         TypeData
<1>2. CASE board_fbt_get_reboot_type
  BY <1>2, BootModeAssumption DEF board_fbt_get_reboot_type, feedback,
         ErrFlag, Flag, EnterRockusb, rebootType, medium, TypeOK, Modes,
         Sources, Partitions, TypeData
<1>3. CASE board_fbt_key_pressed
  BY <1>3, BootModeAssumption DEF board_fbt_key_pressed, EnterRockusb,
         medium, ErrFlag, Flag, TypeOK, Modes, Sources, Partitions, TypeData
<1>4. CASE clearRebootType
  BY <1>4, BootModeAssumption DEF clearRebootType, Flag, medium, ram,
         ErrFlag, TypeOK, Modes, Sources, Partitions, TypeData
<1>5. CASE lowPower
  BY <1>5, BootModeAssumption DEF lowPower, TurnOff, medium, ram, NoFlag,
         forget, Flag, ErrFlag, TypeOK, Modes, Sources, Partitions, TypeData
<1>6. CASE dispatch
  BY <1>6, BootModeAssumption DEF dispatch, bootrk, medium, ErrFlag, Flag,
         TypeOK, Modes, Sources, Partitions, TypeData
<1>7. CASE board_fbt_run_recovery_wipe_data
  BY <1>7, BootModeAssumption DEF board_fbt_run_recovery_wipe_data, bootrk,
         Works, Fail, ErrFlag, Flag, TypeOK, Modes, Sources, Partitions,
         TypeData
<1>8. CASE rkloader_run_misc_cmd
  BY <1>8, BootModeAssumption DEF rkloader_run_misc_cmd, bootrk, Works,
         Fail, medium, ErrFlag, Flag, TypeOK, Modes, Sources, Partitions,
         TypeData
<1>9. CASE dispose_bootloader_cmd
  BY <1>9, BootModeAssumption DEF dispose_bootloader_cmd, Works, Fail, Flag,
         reset_cpu, bootrk, forget, ErrFlag, TypeOK, Modes, Sources,
         Partitions, TypeData
<1>10. CASE do_bootrk
  BY <1>10, BootModeAssumption DEF do_bootrk, Qualities, startKernel,
         board_fbt_boot_failed, medium, Flag, EnterRockusb, ErrFlag, TypeOK,
         Modes, Sources, Partitions, TypeData
<1>11. CASE bootrkReadFails
  BY <1>11, BootModeAssumption DEF bootrkReadFails, Fail,
         board_fbt_boot_failed, medium, EnterRockusb, ErrFlag, Flag, TypeOK,
         Modes, Sources, Partitions, TypeData
<1>12. CASE do_rockusb
  BY <1>12, BootModeAssumption DEF do_rockusb, Works, ram, returnRockusb,
         Fail, medium, reset_cpu, startKernel, forget, Flag, ErrFlag,
         TypeOK, Modes, Sources, Partitions, TypeData
<1>13. CASE do_fastboot
  BY <1>13, BootModeAssumption DEF do_fastboot, Works, bootrk, Fail, medium,
         ErrFlag, Flag, TypeOK, Modes, Sources, Partitions, TypeData
<1>14. CASE rkimage_store_image
  BY <1>14, BootModeAssumption DEF rkimage_store_image, Works, Fail,
         ErrFlag, Flag, TypeOK, Modes, Sources, Partitions, TypeData
<1>15. CASE rkusb_timeout_check
  <2>1. UNCHANGED <<misc, images, wipe, fails>>
    BY <1>15 DEF rkusb_timeout_check, medium
  <2>2. pc' \in {"preboot", "power", "reset", "running"}
    BY <1>15, Zenon DEF rkusb_timeout_check, returnRockusb, reset_cpu, startKernel
  <2>3. flag' \in {flag, Flag("kernel", "RECOVER")}
    BY <1>15, Zenon DEF rkusb_timeout_check, returnRockusb, startKernel
  <2>4. /\ frt' \in {frt, "RECOVERY", "UNKNOWN"} /\ copy' \in {copy, 0}
        /\ first' \in {first, "boot"} /\ source' \in {source, "boot"}
        /\ ret' \in {ret, "reset"}
    BY <1>15, Zenon DEF rkusb_timeout_check, returnRockusb, reset_cpu, forget, ram
  <2> QED
    BY <2>1, <2>2, <2>3, <2>4, BootModeAssumption
         DEF TypeOK, TypeData, Flag, Modes, Sources, Partitions
<1>16. CASE rkusb_reset_check
  BY <1>16, BootModeAssumption DEF rkusb_reset_check, reset_cpu, Flag,
         forget, medium, ErrFlag, TypeOK, Modes, Sources, Partitions,
         TypeData
<1>17. CASE rockusbWrite
  BY <1>17, BootModeAssumption DEF rockusbWrite, ErrFlag, ram, Flag, TypeOK,
         Modes, Sources, Partitions, TypeData
<1>18. CASE fbt_handle_reboot
  BY <1>18, BootModeAssumption DEF fbt_handle_reboot, reset_cpu,
         setRebootType, medium, forget, Flag, ErrFlag, TypeOK, Modes,
         Sources, Partitions, TypeData
<1>19. CASE fbt_handle_oem
  BY <1>19, BootModeAssumption DEF fbt_handle_oem, medium, ram, ErrFlag,
         Flag, TypeOK, Modes, Sources, Partitions, TypeData
<1>20. CASE fbt_handle_boot
  BY <1>20, BootModeAssumption DEF fbt_handle_boot, bootrk, medium, ErrFlag,
         Flag, TypeOK, Modes, Sources, Partitions, TypeData
<1>21. CASE fbt_handle_flash
  BY <1>21, BootModeAssumption DEF fbt_handle_flash, ErrFlag, Flag, TypeOK,
         Modes, Sources, Partitions, TypeData
<1>22. CASE writeMisc
  BY <1>22, BootModeAssumption DEF writeMisc, ram, ErrFlag, Flag, TypeOK,
         Modes, Sources, Partitions, TypeData
<1>23. CASE restart
  BY <1>23, BootModeAssumption DEF restart, reset_cpu, setRebootType,
         medium, forget, Flag, ErrFlag, TypeOK, Modes, Sources, Partitions,
         TypeData
<1>24. CASE powerLoss
  BY <1>24, BootModeAssumption DEF powerLoss, TurnOff, NoFlag, forget, Flag,
         ErrFlag, TypeOK, Modes, Sources, Partitions, TypeData
<1>25. CASE powerOn
  BY <1>25, BootModeAssumption DEF powerOn, medium, ram, ErrFlag, Flag,
         TypeOK, Modes, Sources, Partitions, TypeData
<1> QED BY <1>1, <1>2, <1>3, <1>4, <1>5, <1>6, <1>7, <1>8, <1>9, <1>10,
         <1>11, <1>12, <1>13, <1>14, <1>15, <1>16, <1>17, <1>18, <1>19,
         <1>20, <1>21, <1>22, <1>23, <1>24, <1>25 DEF Next, loader, host

(* The loop over the copies of the parameter block stays within them, and  *)
(* every part of the state keeps to its values.                            *)
THEOREM BootTyped == Spec => []TypeOK
<1>1. Init => TypeOK
  <2>1. Init => TypeTruths
    BY Zenon DEF Init, TypeTruths
  <2>2. Init => TypeData
    BY BootModeAssumption DEF Init, TypeData, Modes, Sources, Partitions, Flag, NoFlag
  <2> QED
    BY <2>1, <2>2 DEF TypeOK, TypeTruths, TypeData
<1>2. ASSUME TypeOK, [Next]_vars PROVE TypeOK'
  <2>1. CASE Next
    BY <1>2, <2>1, TruthStep, DataStep DEF TypeOK, TypeTruths, TypeData
  <2>2. CASE UNCHANGED vars
    BY <1>2, <2>2 DEF TypeOK, vars, medium, ram
  <2> QED BY <1>2, <2>1, <2>2
<1> QED BY <1>1, <1>2, PTL DEF Spec

=============================================================================
