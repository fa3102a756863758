--------------------------- MODULE LoaderUpdate ---------------------------
(* The update of the first-stage loader: rkloader_run_misc_cmd,            *)
(* dispose_bootloader_cmd and execute_cmd (rkloader.c) carry out a command *)
(* the running system left in the misc partition, rkidb_update_loader      *)
(* (idblock.c) writes the new image over the copies of the id block, one   *)
(* after the other, each in pieces of MAX_WRITE_SECTOR sectors that are    *)
(* read back and compared.  "fastboot flash loader" (rkimage.c) calls the  *)
(* same function with an image already in memory.  Power may fail between  *)
(* and during any two steps; reads and writes of the medium may fail.      *)
EXTENDS Integers, Sequences, FiniteSets

CONSTANTS
    NBlocks,     \* blocks of the boot area that FindIDBlock searches
    IDB_COPIES,  \* size of g_IDBlockOffset (5)
    Pieces,      \* pieces of MAX_WRITE_SECTOR sectors in an id block
    Versions,    \* loader images
    Lists,       \* command lists the running system leaves in misc
    MaxLosses,   \* bound: power losses
    MaxFaults,   \* bound: failed reads and writes of the medium
    MaxRequests  \* bound: updates asked for

ASSUME BlocksAssumption == NBlocks \in Nat /\ IDB_COPIES \in Nat
ASSUME PiecesAssumption == Pieces \in Nat \ {0}
ASSUME ListsAssumption == Lists \subseteq Seq({"update-bootloader", "other"})
ASSUME BoundsAssumption == MaxLosses \in Nat /\ MaxFaults \in Nat /\ MaxRequests \in Nat

VARIABLES
    idb,           \* the boot area: what each piece of each block holds
    misc,          \* the message in the misc partition
    image,         \* the loader image in misc behind it, or NoImage
    pc,            \* where the firmware is
    todo,          \* execute_cmd: lines not yet executed
    reboot,        \* dispose_bootloader_cmd: reboot
    dataLoaded,    \* rkidb_update_loader's parameter (fastboot: TRUE)
    g_pLoader,     \* the image being written
    found,         \* g_IDBlockOffset, its first iIDBCount entries
    i,             \* WriteXIDBlock: copy being written (the code's i + 1)
    write_failed,
    retry,
    iCount,        \* pieces of this copy written and compared
    iRet,          \* what rkidb_update_loader returned last, or NoRet
    sound,         \* history: the last update began with whole copies only
    tries,         \* history: failed attempts at the copy being written
    hurt,          \* history: copies given up or cut short by a power loss
    losses, faults, requests

medium == <<idb, misc, image>>
loop == <<i, write_failed, retry, iCount, tries>>
call == <<dataLoaded, g_pLoader, found>>
bounds == <<losses, faults, requests>>
vars == <<medium, pc, todo, reboot, call, loop, iRet, sound, hurt, bounds>>
-----------------------------------------------------------------------------
Blocks == 0..NBlocks - 1
(* struct bootloader_message: "loader" with its command list, or nothing.  *)
Message(list) == [command |-> "loader", recovery |-> list]
NoCmd == [command |-> "", recovery |-> <<>>]
NoImage == "no image"
NoRet == 1

(* A piece holds a part of an image, sectors of two images (Mixed), or     *)
(* nothing readable (Blank).                                               *)
Mixed == "mixed"
Blank == "blank"
Contents == Versions \union {Mixed, Blank}
Block == [0..Pieces - 1 -> Contents]
Image(v) == [p \in 0..Pieces - 1 |-> v]

(* The boot ROM can run a block that is a whole image.                     *)
Whole(blk) == \E v \in Versions : blk = Image(v)
Bootable == \E b \in Blocks : Whole(idb[b])

TypeOK ==
    /\ idb \in [Blocks -> Block]
    /\ misc \in {Message(list) : list \in Lists} \union {NoCmd}
    /\ image \in Versions \union {NoImage}
    /\ pc \in {"off", "maskrom", "misc", "cmd", "update", "write", "clear", "up"}
    /\ todo \in Seq({"update-bootloader", "other"})
    /\ reboot \in BOOLEAN /\ dataLoaded \in BOOLEAN /\ retry \in BOOLEAN
    /\ g_pLoader \in Versions \union {NoImage}
    /\ found \in Seq(Blocks)
    /\ i \in Nat /\ write_failed \in Nat /\ iCount \in Nat /\ tries \in Nat
    /\ iRet \in -6..1
    /\ sound \in BOOLEAN
    /\ hurt \in Nat /\ losses \in Nat /\ faults \in Nat /\ requests \in Nat

(* RAM after a reset.                                                      *)
ColdStart ==
    /\ todo' = <<>> /\ reboot' = FALSE /\ dataLoaded' = FALSE
    /\ g_pLoader' = NoImage /\ found' = <<>> /\ i' = 0 /\ write_failed' = 0
    /\ retry' = FALSE /\ iCount' = 0 /\ tries' = 0 /\ iRet' = NoRet

(* A board leaves the factory with a loader in some of the blocks.         *)
Init ==
    /\ \E v \in Versions, w \in (SUBSET Blocks) \ {{}} :
          /\ idb = [b \in Blocks |-> Image(IF b \in w THEN v ELSE Blank)]
          /\ hurt = Cardinality(Blocks \ w)
    /\ misc = NoCmd /\ image = NoImage /\ pc = "off"
    /\ todo = <<>> /\ reboot = FALSE /\ dataLoaded = FALSE
    /\ g_pLoader = NoImage /\ found = <<>> /\ i = 0 /\ write_failed = 0
    /\ retry = FALSE /\ iCount = 0 /\ tries = 0 /\ iRet = NoRet
    /\ sound = TRUE
    /\ losses = 0 /\ faults = 0 /\ requests = 0

Fault(n) == faults + n <= MaxFaults /\ faults' = faults + n
-----------------------------------------------------------------------------
(* Power comes: the boot ROM runs the first whole block it finds.          *)
PowerOn ==
    /\ pc = "off"
    /\ pc' = IF Bootable THEN "misc" ELSE "maskrom"
    /\ UNCHANGED <<medium, todo, reboot, call, loop, iRet, sound, hurt, bounds>>

(* The running system stores an image behind a command list in misc and    *)
(* reboots.                                                                *)
RequestUpdate(list, v) ==
    /\ pc = "up" /\ requests < MaxRequests
    /\ misc' = Message(list) /\ image' = v /\ pc' = "off"
    /\ requests' = requests + 1
    /\ ColdStart
    /\ UNCHANGED <<idb, sound, hurt, losses, faults>>

(* fastboot flash loader: rkidb_update_loader(true).                       *)
rkimage_store_image(v) ==
    /\ pc = "up" /\ requests < MaxRequests
    /\ requests' = requests + 1
    /\ g_pLoader' = v /\ dataLoaded' = TRUE /\ pc' = "update" /\ iRet' = NoRet
    /\ UNCHANGED <<medium, todo, reboot, found, loop, sound, hurt, losses, faults>>

(* board_fbt_preboot looks the command up unless the reboot flag asks for  *)
(* recovery or fastboot; a failed read of misc means no command.           *)
rkloader_run_misc_cmd ==
    /\ pc = "misc"
    /\ \/ /\ misc.command = "loader"
          /\ pc' = "cmd" /\ todo' = misc.recovery /\ reboot' = FALSE
       \/ pc' = "up" /\ UNCHANGED <<todo, reboot>>
    /\ UNCHANGED <<medium, call, loop, iRet, sound, hurt, bounds>>

(* One line of the list; lines that are no command are passed over.        *)
execute_cmd ==
    /\ pc = "cmd"
    /\ \/ /\ todo = <<>>
          /\ pc' = "clear" /\ UNCHANGED <<todo, dataLoaded, iRet>>
       \/ /\ todo # <<>> /\ Head(todo) = "other"
          /\ todo' = Tail(todo) /\ UNCHANGED <<pc, dataLoaded, iRet>>
       \/ /\ todo # <<>> /\ Head(todo) = "update-bootloader"
          /\ pc' = "update" /\ dataLoaded' = FALSE /\ iRet' = NoRet
          /\ UNCHANGED todo
    /\ UNCHANGED <<medium, reboot, g_pLoader, found, loop, sound, hurt, bounds>>

(* rkidb_update_loader returns r, to fastboot or to execute_cmd, which goes *)
(* on to the next line or leaves the list at an error.                     *)
Return(r) ==
    /\ iRet' = r
    /\ pc' = IF dataLoaded THEN "up" ELSE IF r = 0 THEN "cmd" ELSE "clear"
    /\ IF ~dataLoaded /\ r = 0
       THEN todo' = Tail(todo) /\ reboot' = TRUE
       ELSE UNCHANGED <<todo, reboot>>

(* FindIDBlock looks at the tag in a block's first sector only.            *)
HasTag(b) == idb[b][0] # Blank

(* Faulty variant: every search starts where the last one ended, not behind it. *)
FindAgain(R) ==
    IF R = {} THEN {<<>>}
    ELSE {[a \in 1..IDB_COPIES |-> CHOOSE b \in R : \A r \in R : b <= r]}

(* FindAllIDB: the blocks of R in ascending order, no more than fit.       *)
FindAllIDB(R) ==
    {s \in UNION {[1..n -> R] : n \in 0..IDB_COPIES} :
        /\ \A a, b \in DOMAIN s : a < b => s[a] < s[b]
        /\ \A r \in R : \/ \E a \in DOMAIN s : s[a] = r
                        \/ Len(s) = IDB_COPIES /\ \A a \in DOMAIN s : s[a] < r}

(* get_rk28boot fails (-6): no image in misc, or it cannot be read; what   *)
(* fastboot has loaded does not have the sign of a loader, or there is no  *)
(* misc partition.                                                         *)
get_rk28boot_fails ==
    /\ pc = "update"
    /\ IF dataLoaded \/ image = NoImage THEN UNCHANGED faults ELSE Fault(1)
    /\ Return(-6)
    /\ UNCHANGED <<medium, call, loop, sound, hurt, losses, requests>>

(* The copies are looked up (those that cannot be read are passed over),   *)
(* the new id block is made from the first one, and WriteXIDBlock is       *)
(* entered, unless there is no copy, only one, or the first cannot be read.*)
rkidb_update_loader ==
    /\ pc = "update"
    /\ dataLoaded \/ image # NoImage
    /\ g_pLoader' = IF dataLoaded THEN g_pLoader ELSE image
    /\ \E lost \in SUBSET {b \in Blocks : HasTag(b)} :
         /\ found' \in FindAllIDB({b \in Blocks : HasTag(b)} \ lost)
         /\ \/ /\ Fault(Cardinality(lost))
               /\ Len(found') = 0 /\ Return(-2) /\ UNCHANGED <<loop, sound>>
            \/ /\ Fault(Cardinality(lost))
               /\ Len(found') = 1 /\ Return(-3) /\ UNCHANGED <<loop, sound>>
            \/ /\ Fault(Cardinality(lost) + 1)
               /\ Len(found') > 1 /\ Return(-4) /\ UNCHANGED <<loop, sound>>
            \/ /\ Fault(Cardinality(lost))
               /\ Len(found') > 1
               /\ pc' = "write"
               /\ i' = 1 /\ write_failed' = 0 /\ retry' = FALSE
               /\ iCount' = 0 /\ tries' = 0
               /\ sound' = \A a \in DOMAIN found' : Whole(idb[found'[a]])
               /\ UNCHANGED <<todo, reboot, iRet>>
    /\ UNCHANGED <<medium, dataLoaded, hurt, losses, requests>>

(* Faulty variant: the last copy is no longer spared.                      *)
ContinueToLast(j, w) ==
    /\ i' = j /\ write_failed' = w /\ iCount' = 0
    /\ IF j <= Len(found)
       THEN pc' = "write" /\ UNCHANGED <<iRet, todo, reboot>>
       ELSE Return(IF j = Len(found) + 1 THEN 0 ELSE -5)

(* Faulty variant: iCount is not reset for the next copy.                  *)
ContinueKeepsCount(j, w) ==
    /\ i' = j /\ write_failed' = w /\ UNCHANGED iCount
    /\ IF j <= Len(found) /\ Len(found) - w > 1
       THEN pc' = "write" /\ UNCHANGED <<iRet, todo, reboot>>
       ELSE Return(IF j = Len(found) + 1 THEN 0 ELSE -5)

(* WriteXIDBlock's loop goes on to copy j with w copies given up, or ends. *)
Continue(j, w) ==
    /\ i' = j /\ write_failed' = w /\ iCount' = 0
    /\ IF j <= Len(found) /\ Len(found) - w > 1
       THEN pc' = "write" /\ UNCHANGED <<iRet, todo, reboot>>
       ELSE Return(IF j = Len(found) + 1 THEN 0 ELSE -5)

(* The piece at iCount of the present copy now holds c.                    *)
Program(c) == idb' = [idb EXCEPT ![found[i]][iCount] = c]

(* Faulty variant: what was written is not compared.                       *)
WritePieceUnread ==
    /\ pc = "write"
    /\ \E c \in Contents : Program(c)
    /\ IF iCount + 1 < Pieces
       THEN /\ iCount' = iCount + 1
            /\ UNCHANGED <<pc, i, write_failed, tries, iRet, todo, reboot>>
       ELSE Continue(i + 1, write_failed) /\ tries' = 0
    /\ UNCHANGED <<misc, image, call, retry, sound, hurt, bounds>>

(* A piece is written and reads back as written; the copy may be complete. *)
WritePiece ==
    /\ pc = "write"
    /\ Program(g_pLoader)
    /\ IF iCount + 1 < Pieces
       THEN /\ iCount' = iCount + 1
            /\ UNCHANGED <<pc, i, write_failed, tries, iRet, todo, reboot>>
       ELSE Continue(i + 1, write_failed) /\ tries' = 0
    /\ UNCHANGED <<misc, image, call, retry, sound, hurt, bounds>>

(* Faulty variant: retry is set, not toggled.                              *)
CopyFailsAgain ==
    /\ retry' = TRUE
    /\ IF retry'
       THEN Continue(i, write_failed) /\ tries' = tries + 1 /\ UNCHANGED hurt
       ELSE Continue(i + 1, write_failed + 1) /\ tries' = 0 /\ hurt' = hurt + 1

(* The copy is tried again or given up: retry = !retry;                    *)
(* retry ? --i : ++write_failed.                                           *)
CopyFails ==
    /\ retry' = ~retry
    /\ IF retry'
       THEN Continue(i, write_failed) /\ tries' = tries + 1 /\ UNCHANGED hurt
       ELSE Continue(i + 1, write_failed + 1) /\ tries' = 0 /\ hurt' = hurt + 1

(* An erase, write or read fails, or the piece reads back different: it    *)
(* may hold anything.                                                      *)
PieceFails ==
    /\ pc = "write"
    /\ \E c \in Contents : Program(c)
    /\ Fault(1)
    /\ CopyFails
    /\ UNCHANGED <<misc, image, call, sound, losses, requests>>

(* Faulty variant: misc is not cleared.                                    *)
DisposeKeepsMisc ==
    /\ pc = "clear"
    /\ UNCHANGED <<misc, faults>>
    /\ IF reboot
       THEN pc' = "off" /\ ColdStart
       ELSE pc' = "up" /\ UNCHANGED <<todo, reboot, call, loop, iRet>>
    /\ UNCHANGED <<idb, image, sound, hurt, losses, requests>>

(* dispose_bootloader_cmd zeroes misc whatever the outcome, does not look  *)
(* at the result, and resets the board if an update succeeded.             *)
dispose_bootloader_cmd ==
    /\ pc = "clear"
    /\ \/ misc' = NoCmd /\ UNCHANGED faults
       \/ Fault(1) /\ UNCHANGED misc
    /\ IF reboot
       THEN pc' = "off" /\ ColdStart
       ELSE pc' = "up" /\ UNCHANGED <<todo, reboot, call, loop, iRet>>
    /\ UNCHANGED <<idb, image, sound, hurt, losses, requests>>

(* Power fails; a piece being written may hold anything afterwards.        *)
PowerLoss ==
    /\ pc \notin {"off", "maskrom"}
    /\ losses < MaxLosses /\ losses' = losses + 1
    /\ IF pc = "write"
       THEN (\E c \in Contents : Program(c)) /\ hurt' = hurt + 1
       ELSE UNCHANGED <<idb, hurt>>
    /\ misc' \in IF pc = "clear" THEN {misc, NoCmd} ELSE {misc}
    /\ pc' = "off" /\ ColdStart
    /\ UNCHANGED <<image, sound, faults, requests>>

Firmware ==
    \/ PowerOn \/ rkloader_run_misc_cmd \/ execute_cmd \/ get_rk28boot_fails
    \/ rkidb_update_loader \/ WritePiece \/ PieceFails \/ dispose_bootloader_cmd

Environment ==
    \/ \E v \in Versions : \/ \E list \in Lists : RequestUpdate(list, v)
                           \/ rkimage_store_image(v)
    \/ PowerLoss

Next == Firmware \/ Environment

Spec == Init /\ [][Next]_vars

(* The firmware is a single thread that runs while there is power.         *)
FairSpec == Spec /\ WF_vars(Firmware)
-----------------------------------------------------------------------------
(* An update that began with whole copies only leaves a bootable loader at *)
(* every moment, whatever writes fail and whenever power is lost:          *)
(* WriteXIDBlock never touches the last copy before another holds the new  *)
(* image.                                                                  *)
SoundUpdateSurvives == sound => Bootable

(* WriteXIDBlock: 0 is returned only if some copy holds the whole new      *)
(* image, every one if none was given up; when it fails, the last copy of  *)
(* those it found is as good as it was.                                    *)
ResultTrue ==
    /\ iRet = 0 => \E a \in DOMAIN found : idb[found[a]] = Image(g_pLoader)
    /\ iRet = 0 /\ write_failed = 0 =>
          \A a \in DOMAIN found : idb[found[a]] = Image(g_pLoader)
    /\ iRet = -5 /\ sound => Whole(idb[found[Len(found)]])

(* Over any number of updates, one copy is lost for each power loss during *)
(* a write and each copy given up, and no more: besides those only the one *)
(* being written is not whole.  A board with five copies survives any four *)
(* such events.                                                            *)
Broken == {b \in Blocks : ~Whole(idb[b])}
OneCopyPerMishap ==
    Cardinality(Broken) <= hurt + (IF pc = "write" THEN 1 ELSE 0)

(* A command left in misc does not keep the board from coming up: the      *)
(* firmware reaches the system, or the boot ROM's own mode, and does not   *)
(* go round through dispose_bootloader_cmd's reset for ever.               *)
ComesUp == pc = "off" ~> pc \in {"up", "maskrom"}

(* While WriteXIDBlock runs: the copies before the present one hold the    *)
(* new image unless given up, those behind it are untouched.               *)
LoopInv ==
    /\ g_pLoader \in Versions
    /\ i \in 1..Len(found) /\ write_failed < i /\ Len(found) - write_failed > 1
    /\ iCount < Pieces
    /\ \A p \in 0..iCount - 1 : idb[found[i]][p] = g_pLoader
    /\ \A a, b \in DOMAIN found : a < b => found[a] < found[b]
    /\ write_failed < i - 1 => \E a \in 1..i - 1 : idb[found[a]] = Image(g_pLoader)
    /\ write_failed = 0 => \A a \in 1..i - 1 : idb[found[a]] = Image(g_pLoader)
    /\ sound => \A a \in i + 1..Len(found) : Whole(idb[found[a]])

(* What is broken apart from the copy being written.                       *)
Given == Broken \ (IF pc = "write" THEN {found[i]} ELSE {})

(* The inductive invariant behind the three properties above.              *)
IInv ==
    /\ TypeOK
    /\ pc = "write" => LoopInv
    /\ pc = "update" /\ dataLoaded => g_pLoader \in Versions
    /\ pc \in {"update", "write"} /\ ~dataLoaded => todo # <<>>
    /\ pc \notin {"cmd", "clear", "up"} => iRet = NoRet
    /\ ResultTrue
    /\ SoundUpdateSurvives
    /\ Cardinality(Given) <= hurt

(* idblock.c, the test for a single remaining copy: at least one id block  *)
(* is kept good.                                                           *)
OneGoodKept == Bootable

(* idblock.c, WriteXIDBlock: after writing an id block failed it is tried  *)
(* once more.  Whatever fails, no copy is tried again a second time.  (It  *)
(* may not be tried again at all: retry is toggled, so the first failure   *)
(* after a retry that succeeded gives its copy up.)                        *)
TriedTwiceAtMost == tries <= 1
=============================================================================
