# Verification of the EAIDK-610 U-Boot

The repository is U-Boot 2014.10 as shipped by Rockchip for the RK3399, with the
board code of the EAIDK-610 (`rk3399_linux_defconfig`).  What sets it apart from
the upstream loader is the Rockchip layer: the storage switch, vendor storage,
the RockUSB and fastboot gadgets that download firmware, the boot-mode decision,
the image loader and the update of the first-stage loader.  That layer keeps
state on a medium that can lose power, shares buffers with a USB controller, and
is trusted to leave the board bootable; it is the subject of this project.

Paths below are relative to the root of the repository; `RK/` stands for
`board/rockchip/common/`.

## Inventory

| part | source | state | module |
|------|--------|-------|--------|
| vendor storage | `RK/storage/storage.c:562-722` | RAM copy, ring of copies on the medium | `VendorItems`, `VendorStorage`, `VendorStore`, `VendorReadFault`, `VendorStorageProofs` |
| rockusb gadget | `common/cmd_rockusb.c` | `usbcmd`, two buffers each way | `RockUsb`, `RockUsbProofs`, `RockUsbLinkProofs`, `RockUsbDataProofs` |
| DWC3 controller driver | `drivers/usb/gadget/dwc3_rk_udc.c`, `dwc3_ep0.c` | request queues of the endpoints | in `RockUsb`, `Fastboot` |
| storage switch, eMMC | `RK/storage/storage.c`, `RK/mediaboot/sdhciBoot.c` | the medium | in all of them |
| secure boot | `RK/SecureBoot/` | lock flags, outcome of a check | in `RockUsb`, `Fastboot`, `BootMode` |
| loader update, misc | `RK/rkloader/idblock.c`, `rkloader.c` | id blocks, misc message | `LoaderUpdate`, `LoaderUpdateProofs`; recovery and factory messages in `BootMode` |
| image flashing | `RK/rkloader/rkimage.c` | download cursor, cache | `ImageDownload`, `ImageDownloadProofs`, `Fastboot` |
| fastboot gadget | `common/cmd_fastboot.c` | `priv`, two transfer buffers | `Fastboot`, `FastbootProofs` |
| environment | `common/env_rk.c` | the saved lock state | in `Fastboot` |
| boot mode decision | `RK/rkboot/fastboot.c` | reboot flag, keys, misc | `BootMode`, `BootModeProofs` |
| parameter | `RK/rkloader/parameter.c` | copies of the block | in `BootMode` |
| bootrk | `common/cmd_bootrk.c` | | in `BootMode`; its use of vendor storage in `VendorReadFault` |
| keys, charging, display; other media; OP-TEE client; upstream U-Boot | | | not modelled, see the end |

How they interact: `BootMode` decides what a start of the board comes to and
passes through `rockusb`, `fastboot` and the loader update, each of which has a
module of its own.  There each is shown in detail; in `BootMode` it is what it
does to the flag, to misc, to the images and to the parameter block.  `Fastboot`
is composed with `ImageDownload` by EXTENDS: the gadget's actions conjoin the
download's with what they do to buffers and endpoints, and the property
`Streams` says that hidden behind the gadget the download still behaves as its
own specification, so that what is proved of `ImageDownload` holds in it
(`GadgetStreams` proves it, and `GadgetComplete` and `GadgetCacheFits` are drawn
from it).

## Vendor storage

A store of small items (serial number, MAC address, keys, the OEM lock state).
`g_vendor` is the copy in RAM; the medium holds `VENDOR_PART_NUM` copies written
in turn.  The first sector of a copy carries its version, the last one carries
the number again; `vendor_storage_init` takes the copy with the highest version
among those whose two numbers agree.

* `VendorItems`: the item table and the data area, as functions; `WriteItem` is
  the body of `vendor_storage_write` up to the write of the copy.
* `VendorStorage`: variables `g_vendor` (RAM), `parts` (the copies: first
  sector, body, last sector), `wr` (the write under way and how far it is),
  `media` (off, eMMC, SD card), `fails` (failed writes since the last complete
  one).  Actions `StorageInit`, `ReInit` (bootrk, HDMI), `vendor_storage_write`,
  `ProgramSectors` (the medium takes the next sectors), `WriteFails`,
  `PowerLoss`.
* `VendorStore`: what callers rely on, a map with a working and a durable copy.
  `Atomic` in `VendorStorage` says that the ring implements it, with `mem` what
  reads return now and `dur` what they return after a restart.
* `VendorReadFault`: the same store with read errors in `vendor_storage_init`.

| run | question | bounds |
|-----|----------|--------|
| `vendor` | Does power loss, or a failed write, at any sector leave the last complete copy (`Durable`, `NewestSpared`, `CrashAtomic`, and the inductive invariant `IInv`)?  Do items stay apart (`ItemsDisjoint`), and does the store implement `VendorStore` (`Atomic`)? | 4 copies.  Histories of one item with one value go up to version 7, six writes, one and a half rounds of the ring, with two failures in a row; those of two items with two values, one of them in two sizes of the same granule, go up to version 4, so that each item is written again after its neighbour was placed (`LongOrWide`) |
| `vendor_read_fault` (violation) | After a read error in the scan, `vendor_storage_read` returns data of no stored copy, and bootrk uses it | one item, 2 copies |

`MaxFails` is at most `PartNum - 2`: with more failures in a row than that the
next write aims at the only complete copy, and neither the code nor the model
protects it.

A way to violate `ItemsDisjoint` is known and has no run of its own: the test at
`storage.c:686`, `size > algin_size`, compares a size with its own rounding and
refuses nothing, so an item rewritten with more granules than it was given (with
granules of 2 cells, one of 1 cell that grows to 3) runs over the next one.

## RockUSB

`do_rockusb` polls: `dwc3_uboot_handle_interrupt` delivers what the controller
and the host have done, then one pass of the loop serves a command, a data stage
or the status.  Nothing is delivered inside a pass, so `Pass` is one action and
each delivery another.  C functions are operators of the same name from a device
state to the next.  The host is an environment that follows the bulk-only
protocol (command, data, status), and may abort, clear endpoints or reset the
bus if its `session` says so: a session fixes the commands the host sends, the
disturbances, and whether the loader is signed.  `view` records what the host may expect to
find in each block.

State: `usbcmd` (the gadget's structure), `tx_buffer`, `rx_buffer` (two each),
`ep_in`, `ep_out` (the driver's request queues; only queueing starts a
transfer), `medium` by address space, `sec` (locks), `loader` (the flag that
survives reset), `pc`, `host`, `view`.

| run | question | bounds |
|-----|----------|--------|
| `rockusb` | In four kinds of session.  Reads and writes of the user area with those of the boot area, or with those of the vendor sectors and items: do reads return what was written, do writes land where told (`ReadCorrect`, `WrittenAsAnswered`, `BuffersNotShared`)?  Commands without data, the lock and its key, reboots, bus resets between commands (`AnswerFits`, `QueuedToEnabled`).  Bus errors and aborts at any point, followed by a clear of both endpoints: does every command end, are commands and data kept apart (`AnswersCommands`, `NextPacketIsCommand`, `NoRequestStranded`)?  Also the inductive invariant `RInv` of the proofs | buffers of 4 blocks, writes of 0 to 5 and reads of 1 to 5, pages of 2; 9 blocks; every property is checked in every session |
| `rockusb_stale_preread` (violation) | An aborted read leaves blocks read ahead marked valid for the wrong buffer | |
| `rockusb_reset` (violation) | A bus reset with a received command still to be served: the pass uses requests that were freed | |

The number of commands is not bounded: tags alternate, and TLC explores every
order of the commands of a set.  The transfers are one full buffer and a
remainder, or less than a buffer: with the read-ahead this uses both buffers in
both roles.

Two more ways to violate these properties are known and have no run of their
own: a read ahead past the end of the medium (a smaller `Capacity`,
`cmd_rockusb.c:1170`) uploads zeros for blocks inside it, and a
CLEAR_FEATURE of the IN endpoint alone (the disturbance "clear_in",
`cmd_rockusb.c:69`) makes the gadget execute an old packet.

Fairness: the loop never stops polling, so `Pass` is weakly
fair (written out, because its ENABLED is expensive); the host, once it has
started a command, moves its data, and after an error clears the endpoints; the
reset follows its delay.  No fairness is assumed for starting commands, errors
or resets.

A pass is atomic.  The status of a write is queued before its last buffer goes
to the medium (`cmd_rockusb.c:1018`), and may reach the host before the write is
done: `WrittenAsAnswered` says that the data are there before the next command
is served, and power loss in that window is outside this module.  The timeout
that ends `do_rockusb` when no host appears is in `BootMode`.  The first branch of
`FW_TestUnitReady`, for a medium that is not valid, is not taken on eMMC.

## Loader update

The boot area holds up to five copies of the id block with the first-stage
loader.  The running system asks for an update by a message in the misc
partition with the image behind it; `rkloader_run_misc_cmd` finds it at the next
boot, `execute_cmd` runs its lines, `rkidb_update_loader` writes the copies one
after the other, and `dispose_bootloader_cmd` clears the message and resets the
board.  `fastboot flash loader` calls the same function.

`LoaderUpdate` has one action per step that power loss can fall between:
`PowerOn`, `RequestUpdate` and `PowerLoss` (environment), `rkloader_run_misc_cmd`,
`execute_cmd` (a line), `get_rk28boot_fails` and `rkidb_update_loader` (up to the
entry of `WriteXIDBlock`: these only read), `WritePiece` and `PieceFails` (one
piece of `MAX_WRITE_SECTOR` sectors, written, read back and compared),
`dispose_bootloader_cmd`.  `idb` holds what each piece of each block contains: an
image's part, a mixture (still with its tag), or nothing readable.  `i` counts
from 1 where the code counts from 0.  On this board `StorageEraseBlock` does
nothing; its error path is that of a failed piece.  `get_rk28boot_fails` has
the causes of either caller: no image in misc or an unreadable one; for fastboot,
data without the sign of a loader, or no misc partition.  `sound`, `tries` and `hurt`
are history variables.  The boot ROM is external: it is taken to run a block
exactly if it is whole.

| run | question | bounds |
|-----|----------|--------|
| `loader_update` | Is the board bootable at every moment of an update that began with whole copies (`SoundUpdateSurvives`)?  Is the result true (`ResultTrue`)?  Is one copy lost per mishap, over several updates (`OneCopyPerMishap`)?  Is a copy that fails tried at most once more (`TriedTwiceAtMost`)?  Does the board come up (`ComesUp`)?  | 3 blocks, any nonempty set of them programmed; 2 pieces; 4 faults, enough to give up two copies with their retries; one power loss |
| `loader_two_cuts` (violation) | `idblock.c:415`, "keep at least one id block good": a torn copy still has its tag and is counted, so the repeated update overwrites the only whole copy | 2 blocks, 2 power losses |

Fairness: the firmware is one thread that runs while there is power, hence
`WF_vars(Firmware)`; requests and power losses are not fair.  `ComesUp` holds
for boundedly many faults; a misc partition that cannot be written at all would
repeat the update at each boot.  Deadlock is not checked: a board that is up, or
in the boot ROM's own mode, may stay so.

With `n` whole copies, `OneCopyPerMishap` says that fewer than `n` power losses
during a write and given-up copies, over any number of updates, leave the board
bootable whenever no write is under way; `loader_two_cuts` shows that `n` do not.

`idblock.c:310` says that a failed write is tried once more.  `retry` is toggled
at each failure and not cleared by a success, so the first failure after a retry
that succeeded gives its copy up at once; `TriedTwiceAtMost` is the half of the
comment that holds.

## Fastboot and image download

`rkimage.c` writes an image to its partition while it is being downloaded: the
gadget hands over pieces of up to `USB_MAX_TRANS_SIZE` bytes, and chunk headers,
extents and sectors begin and end wherever they do.  What does not fill a sector
waits in `d_cache`.

* `ImageDownload`: the cursor of a download (`d_size`, `d_bytes`, `d_status`,
  `d_direct_size`, `d_direct_offset`, `sparse_cur_chunk`), `d_cache`, `work` (the
  local buffer and what is left of it), `disk`.  A piece is handled in several
  steps, because the controller fills the other buffer meanwhile: `Receive`
  (`rkimage_handleDownload` up to the first write), `handleDirectDownload` (one
  write, and what its three callers do next), `handleSparseDownload` (a turn of
  the chunk loop), `Finish` (the end of the data branch of `fbt_rx_process`).  A
  byte is an image and a position in it, so that a byte in the wrong place, or
  from a buffer used again, can be told.  `Expected` is the reference: what the
  sparse format says the image stands for, without buffers or pieces.
* `Fastboot`: one action per command handler; `deliver` is what a completion or
  a bus event does, `handleInterrupt` all of those that have happened, and then
  one of the handlers runs.  `mem` holds the command buffer and the two transfer
  buffers, `rxq` the read the controller has, `rx` and `tx` what it gave back.
  `saveenv` takes two steps between which power can fail: the environment is one
  copy, whose crc does not match while it is being replaced.  `erase` succeeds and
  changes nothing, as `SdhciBootErase` does (`sdhciBoot.c:170`): neither the erase
  command nor an accepted unlock touches the medium.  After an unlock it is
  recovery that formats userdata (`leave`; `BootMode` follows the request).
  `handle_flash` verifies a legacy image only when the pending partition is one
  whose images are (`rkimage.c:362-373`) and stores it otherwise as it is
  (`store_image`, with `unsparse` for a sparse one).
* The host runs scripts of commands as the fastboot tool does: it waits for each
  answer, sends as much data as the device asks for, and gives a script up when
  a command fails.

| run | question | bounds |
|-----|----------|--------|
| `fastboot` | Do device and host agree on what is data (`NextPacketIsCommand`)?  Is no buffer read into while it is written out (`ReadsApart`)?  Is every sector of the image in its place (`WrittenIsImage`), all of it when the download is called complete (`ImageComplete`), and when flash says OKAY (`FlashTrue`)?  Do leftovers fit (`CacheFits`)?  Does fastboot leave the medium of a locked device alone (`LockedUntouched`)?  Does the gadget implement the download (`Streams`), does every script end (`SessionEnds`)?  Also the inductive invariant `FInv` of the proofs | sectors of 3 bytes and pieces of 2 sectors; images of up to three pieces in which a piece ends inside a header, inside a sector, at the end of an extent, and at the end of the image; empty extents; three scripts in a row; failing writes, power loss, bus resets between commands |
| `fastboot_legacy` (violation) | `cmd_fastboot.c:1599`, "we'll clear it at the end of the download": what is cleared is the head of the last piece, not the command buffer | no faults |
| `fastboot_early_fail` (violation) | `include/fastboot.h:171`, d_size tells "whether next packet is a command or a data": after a failure pieces are counted twice, and the rest of the data is read as commands | writes may fail from the first piece on |
| `fastboot_unlock` (violation) | `cmd_fastboot.c:1227`, "Unlocking forces a factory reset": the erase does nothing, the unlocked state is saved, and power lost before recovery wipes leaves a device that starts unlocked over the user's data (`UnlockedAfterErase`) | one script, power loss |

In the passing run a streamed write fails only when at most two pieces are left,
where counting twice makes no difference, and the host resets the bus only
between downloads: a reset inside one leaves `d_size` set, and nothing in the
repository says what should happen.  The legacy images include one whose last
piece begins with padding, which clearing it does not change, so that `flash`
of a verified image succeeds in some behaviours and is refused in others.

The scripts are the tool's (`ToolScripts`): what is flashed has just been
downloaded, and the type of the partition was asked before the download, with no
other query in between (a checksum or an erase may be).  A download that is not
flashed, as for `fastboot boot`, needs no query.  Without one `pending_ptn` is
null at the flash: the image is stored unverified, with the head of its last
piece cleared as in `fastboot_legacy`, and `WrittenIsImage` and `FlashTrue` do not
hold.  The unverified path and `unsparse` are in the model for that reason, and
no run takes them.

Fairness: `do_fastboot` never sleeps, hence weak fairness of the device; once a
script has begun the tool and the bus go on, hence weak fairness of `hostGoesOn`.
Starting a script, resets, power and the expiry of a pending unlock are not fair.

## Boot mode

`board_late_init` loads the partition table and calls `board_fbt_preboot`, which
looks at the flag (a register that survives a reset and not a power loss), the
SD card, the keys and misc, and ends in `rockusb`, `fastboot` or `bootrk`.  When
an image cannot be used `board_fbt_boot_failed` calls `do_bootrk` again, for
recovery after boot and for backup after recovery, and `rockusb` after that; the
functions call each other and mostly do not return.

`BootMode` has an action for each of those functions; `pc` says which is next,
`ret` where `do_rockusb` will return to.  An image is good, cannot be loaded, or
is refused by `SecureBootImageCheck`: the last two differ in where the code goes
on after `rockusb` returns.  `Fail` is a read, write or connection that fails,
at most `MaxFails` times.  `asked`, `wipe` and `fault` are history variables.
The running system (`writeMisc`, `restart`), power (`powerLoss`, `powerOn`) and
what the hosts write are the environment.

| run | question | bounds |
|-----|----------|--------|
| `boot` | Is a request in the flag carried out once (`NotTwice`)?  Does a request to wipe reach misc and stay there until the system takes it (`WipeKept`)?  Are images tried in order, and is rockusb the last resort (`FallBackInOrder`)?  Does a message in misc come before the system in boot (`RecoveryFirst`)?  Does every start come to rest (`ComesToRest`)?  Also the inductive invariant `BInv` | 2 copies of the parameter block, each image of every quality, backup and factory alike; one failure anywhere, any number of starts and power losses |

Two copies are enough for the parameter block: `GetParam` looks at the first
only, and the loop that writes them treats the others alike.  That it does so
although `parameter.h:10` calls the copies backups is modelled as it is.  A wipe
request is lost by a power loss before it is written, a shutdown by the loader
itself on a low battery (`fastboot.c:392-397`, `440`), a failed write or a missing
table; `WipeKept` says that nothing else loses it.

`RecoveryFirst` excepts three starts.  An unreadable misc and a fastboot that
cannot connect both go on to `bootrk`.  The third is one with the flag
`BOOT_NORECOVER`, where code and comments disagree: it is "do not enter recover"
(`RK/config.h:169`, `include/fastboot.h:250`) and "force to reboot to system"
(`cmd_rockusb.c:1425`), but `board_fbt_preboot` still asks `rkloader_run_misc_cmd`,
so that with a recovery message in misc recovery is started.  The model does what
the code does, and the property asks for neither.

Fairness: the loader is one thread that waits for nobody outside rockusb and
fastboot, hence `WF_vars(loader)`; hosts, users, power and the running system are
not fair.  `ComesToRest` holds for boundedly many failures.

## What is proved

All proofs are for every value of the constants.  A theorem `A => (Spec => []P)`
has a condition on the constants or on the environment that the code needs and
does not check; they are named where they occur.

### Vendor storage

In `VendorStorageProofs`.  `Safety`, `WritesSpare`, `Atomicity`: the type invariant,
`Durable`, `NewestSpared` and `CrashAtomic`, for any number of copies, items and
sizes and `MaxFails <= PartNum - 2`.  `Durable` is not inductive: a write that
fails leaves the RAM copy ahead of the medium, and whether the next one spares
the newest copy depends on where the ring stands.  `IInv` adds `RingInv` (if
any copy is complete there is a newest one, its `next_index` points at its
successor, no last sector has a higher version) and `RamInv` (the RAM copy is
exactly `Ahead` versions and ring places past the medium, and the copy being
written holds the sectors already programmed).  `Ahead <= PartNum - 1` then keeps
the target off the newest copy.

`VendorInductive`, `ItemsApart`, `StoreRefined`: the items
of the RAM copy and of the copy a restart would load never overlap, and the ring
of copies implements the map of `VendorStore`.  Both need `KeepsGranules`, that an
id is written only with sizes of one granule count; without it `ItemsDisjoint` is
false (above).  `PlacedInv` says of every table, in RAM and in every first
sector, that whole granules (not only the bytes in use) lie apart: an overwrite
in place keeps within its granules, an append begins where they all end.  The
refinement is proved action by action.  A write that completes maps to `VendorStore`'s
save because the copy just finished is then the one that is loaded; every
earlier sector of it, a failure and a power loss leave what is loaded alone.

### Loader update

`LoaderUpdateProofs` (`Inductive`, `UpdateSurvives`, `ResultIsTrue`, `Degradation`,
`TriedTwice`): for any number of blocks, pieces, faults, losses and updates.  The
inductive invariant `IInv` adds `LoopInv`: while `WriteXIDBlock` runs, the copies
before the present one are given up or hold the new image, those behind it are
untouched, `found` is ascending (so that a write touches one copy), no more
copies are given up than were passed, and at least two are not given up.  If none has succeeded,
all passed copies were given up, and the loop's guard leaves the last one
untouched; otherwise an earlier one is whole.  `Degradation` counts the broken
copies apart from the present one, which only a given-up copy or a power loss
adds to.

### Image download

In `ImageDownloadProofs`.  `DownloadSound`, `CacheAlwaysFits`, `RawIsNeverCached`,
`RawIsComplete`: for any sizes of sector, piece and headers with `TRANS` a
multiple of `BLK`, and any well-formed images.  That the leftover is less than a
sector is not inductive alone: it holds after an extent's part because the part
is cut at a sector, after a short header because a header is no longer than a
sector, and between pieces because nothing else touches `d_cache`.  `DInv` adds
where a raw download stands at each step (`At`: so many bytes dealt with, so many
sectors in place, none left over), from which it is complete when `d_direct_size`
reaches 0.  The lemmas before it are about rounding to sectors, slices of an
image, and what `Store` leaves alone.

`DownloadTracked`, `ImageIsComplete`: the same for sparse
images of any number of chunks.  `Tracks(n, w)` says that `n` bytes are dealt with
and `w`, the cache or the local buffer, is what comes next; that what is left of
the extent ends at the next chunk header, on the way in (`HeaderAt`) and on the
way out (`OutAt`); and that the sectors below `d_direct_offset` are in place.  It
holds between pieces, between chunks and after each write, wherever a piece
happens to end.  `HeaderAt` and `OutAt` are recursive functions.  The library's
induction theorems take a predicate, which the provers cannot instantiate, so
`SetInduction` restates induction for a set, from the well-foundedness of `<`;
with it `RunningSum` shows that the two functions exist and `ChunkOrder` that
they ascend, from which the extents of an image lie apart (`ExtentsApart`) and
cover exactly the sectors of the reference `Expected`.

### Fastboot

Every safety property of the `fastboot` run is proved, for any images and sizes
and any scripts with the hypotheses named below, in `FastbootProofs`: first the steps of device and host and the theorems
about the link, then the lock and the partitions.

* `LinkKept`: `Link` lists the situations that device and host can be in together
  (unplugged, listening, a command sent or being handled, resetting, leaving, and
  four of a download: offered, awaiting a piece, received, storing).  In each it
  is fixed which read is queued, what the buffers hold, which events are
  outstanding and who has the move.  From it follow `GadgetTyped` (`TypeOK`),
  `PacketsTold` (`NextPacketIsCommand`), `BuffersApart` (`ReadsApart`) and the
  refinement `GadgetStreams` (`Streams`), and through that `GadgetComplete`
  (`ImageComplete`) and `GadgetCacheFits` (`CacheFits`).
* These and the following have the hypothesis `[]FailsLate`: when a download fails
  at most one more piece is to come.  Without it they are false (run
  `fastboot_early_fail`).  `FailuresLate` proves it from causes: the medium
  refuses no write earlier and long images have no chunk that is refused
  (`LateFaults`), and what is streamed to an unknown partition is short
  (`NamedFirst`).
* `LockedDevice` (`LockedUntouched`): the lock is looked at when a download is
  asked for, the pieces are written later.  `LockInv` (`LockKept`) says that the
  device stays unlocked as long as `d_size` is set; with `Link` no command is
  handled meanwhile, and a flash looks at the lock itself.
* `NamesKept` (`NamedInv`): under `ToolScripts`, from the query to the flash the
  pending partition is the one that was named, so that the image of a verified
  partition is verified.  It says of every rest of a script that a flash in it
  comes after its download (`Followed`) and that download after its query
  (`Queried`), or that both are past and the device remembers them (`NameKept`,
  `LegacyNamed`).  `MCFastboot` has `ToolScripts` as an assumption that TLC
  evaluates.
* `WrittenTrue` (`WrittenIsImage`), from `NamedInv`: `ContentsInv` says of every
  image, not only the one being downloaded, that a sector with one of its bytes
  is as the image says; a new download makes an old image the current one.
* `FlashesTold` (`FlashTrue`) and `GadgetInvariant` (`FInv`, the conjunction of all
  of these, which the run checks), under `ToolScripts` too: `FlashInv` carries
  from the end of a download to its flash that the image is in place.

### RockUSB

Every safety property of the `rockusb` run is proved, for any sizes of buffer,
page and medium, any set of commands with any addresses and lengths, and sessions
of any length.  `RockUsbProofs` has what each handler does to the device
record and `TypeCorrect` (`TypeOK`), which needs no hypothesis: it holds whatever
the host sends, aborts, clears or resets.

* `LinkCorrect` in `RockUsbLinkProofs`: none of the link properties is inductive,
  because a handler that is right in one situation (a status sent with the IN
  endpoint at rest) would be wrong in another.  `Link` lists the nine situations
  that gadget, controller and host can be in together: detached, ready, a command
  received, receiving, uploading, finishing, answering, failed, hung.  Each fixes
  which request is queued to which endpoint, into which buffer and how long, what
  the completion handlers have left, and how far the counters of gadget and host
  are.  `AheadInv` says where blocks that were read ahead can be: a read that was
  given up leaves them valid.  From it follow `CommandsTakenOnce`
  (`NextPacketIsCommand`), `NoneStranded` (`NoRequestStranded`),
  `AllQueuedToEnabled` (`QueuedToEnabled`), `AnswersFit` (`AnswerFits`) and, in
  `RockUsbDataProofs`, `NeverShared` (`BuffersNotShared`).
* These need `Orderly`: the host clears both endpoints or none, resets the bus
  only between commands, and, if it clears endpoints, starts no read where
  another one may have read ahead.  Each part is needed: the run `rockusb_reset`
  violates the second and the run `rockusb_stale_preread` the third, and a clear
  of the IN endpoint alone makes the gadget execute an old packet (above).
  IN transfers may fail, and commands may be given up, at any point.
* `DataCorrect`, `ReadsCorrect` and `WritesCorrect` in `RockUsbDataProofs` (`RInv`,
  `ReadCorrect`, `WrittenAsAnswered`) add the data.  `WriteInv`: while a write is
  received the blocks taken over are in place, as many as `d_bytes` counts, and
  the next one goes to `usbcmd.lba`; all of them are in place when the status is
  sent.  `ReadInv`: the buffer that is being sent and the one read ahead hold what
  the host may expect of the blocks they stand for.  A part of a write to the boot
  area is whole pages, which lie inside the pages of the command because a buffer
  is a number of pages; vendor system sectors keep their header.
* These need `Fitting` too: the blocks of a command are on the medium, those it
  reads ahead included.  What happens otherwise is described above.  `Orderly`
  and `Fitting` are conjuncts of `RInv`, so the run checks that its sessions are
  such.

### Boot mode

`BootModeProofs` (`BootSound`, `BootTyped`, `RequestsOnce`, `WipeIsKept`,
`FallsBackInOrder`, `MiscComesFirst`): for any number of copies and failures and
any set of images.  `BInv` is the conjunction of four invariants, proved one
after the other.  `FlagInv`: only a fresh request is one.  `WipeInv`: where
a request to wipe is, by `pc`, between the flag and misc.  `MiscInv`: what is
known of misc when boot is being loaded (but in the excepted starts), and of `source` when `rockusb` will
return into the start of an image.  `ChainInv`: the images before the present
one are unusable.

### Assumptions, and what is only model-checked

Assumptions: those named `...Assumption` in the modules (positive sizes, lists
made of the two kinds of line, `MaxFails`, well-formed images with names of their
own, `Verified` among the partitions), which TLC evaluates in each run; and the hypotheses `KeepsGranules`,
`FailsLate`, `LateFaults` with `NamedFirst`, `ToolScripts`, `Orderly` and `Fitting`.

Only model-checked: liveness under fairness (`AnswersCommands`, `ComesUp`,
`SessionEnds`, `ComesToRest`), which is out of the prover's reach.

## What is not modelled

* Keys, charging and display: polling of device registers, no state of their own.
* Other boot media (NAND, UMS, NVMe): not built for this board; the SD card only
  as the medium on which vendor storage does not exist.
* The OP-TEE client: calls into a secure world whose code is not in the
  repository.
* Signature and hash arithmetic: an image or key is accepted or refused.
* The text of the parameter block and of the kernel's command line, the fdt and
  logo; the variables of `getvar` that only format a constant.
* In `Fastboot`: a bus reset inside a download, a piece shorter than the buffer
  that is not the last, downloads of 2 GB and more (`int d_size`), images longer
  than their partition, and the chunk header that is allocated for every piece
  and not freed.  `flash loader` and `flash parameter` are in `LoaderUpdate` and
  `BootMode`.
* The controller's registers and TRBs, USB descriptors, and ep0 requests other
  than those that reach the event handlers of the gadgets.
* A misc message that names no loader command, and the contents of the first
  four sectors of an id block (serial number, MAC address), which an update
  carries over from the first copy.
* Overflow of the item table (more than 126 ids) and wrap-around of the 32-bit
  version of vendor storage; device errors of the medium under rockusb, which
  answers such a write with `CSW_GOOD`.  A read of zero blocks, whose upload
  never ends, is in `RockUsb` (`pc = "hung"`) but in no run's command set.
* The generic U-Boot: shell, networking, file systems, drivers of other boards.
