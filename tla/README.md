# A verification project for NKC-CLIB

NKC-CLIB is a C run-time library for the NDR Klein Computer, a 68000 machine.
It brings its own standard input and output, a small virtual file system, a
driver for the JADOS file system, a port of FatFs, drivers for hard disks and
SD cards, and a heap.  This directory holds TLA+ models of its core, TLC runs
that check them on small instances, and proofs of the properties that matter
most.

The library is single-threaded and runs without an operating system below it
that could interrupt it: a client call runs to its end before the next begins.
What makes it hard to test is something else: long sequences of legal calls on
tables that all open files share (the track table, the directory, the handle
table, the stream table, the mount table, the heap's list of blocks), calls
that fail half way, several handles on one file with private copies of its
length, one buffer for both directions of a stream, limits nobody reaches in a
test, drives that do not answer, and power failures between two writes to the
medium.

## 1. Inventory

| Component | Source | State | Operations | Modelled |
|---|---|---|---|---|
| JADOS file system driver | `fs/nkc/fs_nkc.c`, `.h` | track table `pFAT`, directory `pDIR` (memory and medium), one `jdfcb` per open file | mount, open, read, write, seek, close, remove, rename, getfree, opendir/readdir, ioctl | all but opendir/readdir and ioctl: `JadosFS` |
| Handle table | `fs/fs.c` | `filelist`, `HPOOL`, `FPInfo` | `_ll_open`, `_ll_creat`, `_ll_close`, `_ll_read`, `_ll_write`, `_ll_seek`, `_ll_remove`, `_ll_rename`, `ioctrl` | open, close, remove, rename: `Streams`; the tests before read and write: `JadosFS` |
| Stream table | `io/fopen.c`, `fclose.c`, `freopen.c` | `_pstreams`, `_filenames`, `maxfiles`, the `FILE` objects | fopen, fclose, freopen, remove, rename, closeall | `Streams`, without the standard streams and closeall |
| Stream buffering | `io/readbuf.c`, `writebuf.c`, `fflush.c`, `putget.c`, `fseek.c`, `fgetpos.c`, `ungetc.c` | per stream: `level`, `curp`, direction flags, the buffer | getc, putc, ungetc, fflush, fseek, fgetpos, clearerr, opening and closing | `StreamBuffer`, for files on FAT volumes; without setvbuf and unbuffered streams |
| Mount table and file system drivers | `fs/fs.c` | `fstab`, `driverlist` | mountfs, umountfs, register_driver, un_register_driver | `MountTable` |
| Block driver list | `drivers/drivers.c` | `blk_driverlist` | register, unregister, look up | `MountTable` |
| FAT glue | `fs/fat/fs_fat.c` | one `FIL` per open file | as the JADOS driver | mount and unmount: `MountTable`; reading, writing and positioning of one open file: `StreamBuffer` |
| FatFs | `fs/fat/ff.c`, `option/` | `pCurFs`, the volume's pointer to its entry | | vendored; what mounting does to the two pointers: `MountTable` |
| Hard disk driver | `drivers/block/gideS.S`, `hd_block_drv.c` | tries, status register, the drive's task file | read, write, flush, reset | transfers: `IdeDisk` |
| SD card driver | `drivers/block/sdcard.c`, `sd_block_drv.c` | type and size of the card, `Stat` | initialise, read, write | `SdCard` |
| Heap | `nkc/first.c`, `alloc/` | the list of blocks | malloc, free, realloc, mm_init, mm_free | `Heap` |
| Process control | `procont/`, `startup/` | signal table, exit functions | signal, raise, atexit, exit | not modelled |
| Formatted I/O, strings, time, sorting, options | `io/*printf.c`, `io/*scanf.c`, `string/`, `time/`, `sort/`, `getopt/` | none | | stateless, not modelled |
| Mathematics, compiler support | `math/`, `fdlibm/`, `complib/` | none | | vendored, not modelled |
| ROM calls | `nkc/llnkc.S`, `llmisc.S` | outside the repository | | not modelled |
| Shell, boot loaders, tools | `projects/`, `tools/` | | | clients |

**How they interact.**  `fopen` calls `_ll_open`, which analyses the name
(`checkfp`, into the global `FPInfo`), finds the volume in `fstab`, looks for
the name among the open files, takes a handle and calls the file system
driver's `open`.  The driver keeps a file control block behind the handle and
works on the volume's track table and directory, which all its handles share;
they are read at mount and written back when a writing handle is closed and by
remove and rename.  The driver reaches the medium through the block driver the
volume was mounted on, which `mountfs` looked up by the first letters of the
device.  Between a stream and its handle lies one buffer, filled by `_readbuf`
and emptied by `_writebuf` and `fflush`.  File control blocks, `FILE` objects,
mount entries and volumes are blocks from the heap.

**What each modelled component must get right.**

* *JADOS driver.*  A track belongs to one file.  The links between tracks
  mirror each other.  Directory entries, handles and chains agree: an entry
  starts a chain, a handle stands on its own file's chain, no allocated track
  is outside every chain.  A file holds what was written to it, in order, and
  its entry counts its clusters.  A reader's buffer is the cluster its position
  is in.  What had reached the medium is there after a power failure.  Calls
  end.
* *Handle and stream tables.*  A handle is taken exactly while a file is open
  behind it.  A stream has a handle of its own.  A file has one writer.  A file
  that is open is neither removed nor renamed.  Every open stream is in the
  table once.
* *Stream buffering.*  With the buffer a stream is what it would be without
  one: a sequence of characters and a place in it.  What does not get to the
  file is not lost without the error indicator, unless a flush was cut short.
* *Mount table and driver lists.*  A device is mounted once or not at all, a
  mount that fails half way leaves nothing behind in the table, and nothing
  that a volume or an open file points to is freed.
* *Disk and card drivers.*  Retries and resets do not show: what a clean
  transfer reports was transferred exactly, no write strays, the caller's
  interrupts are restored on every way out, and calls end.
* *Heap.*  The blocks tile the memory, regions in use never move, shrink or
  touch, free neighbours are merged, and nothing is lost.

## 2. Modules

| Module | Contents |
|---|---|
| `JadosFS` | the driver: state, operations, and mutants used to test the properties |
| `JadosFSProps` | its properties |
| `MCJadosFS` | constants, symmetry and view for TLC |
| `JadosFSProofs` | proofs about the tables: types, consistency of volume and medium, chains, names |
| `JadosFilesProofs` | proofs about the files: what a close leaves on the medium, what entries count, what files hold, where readers stand, and that a volume has room |
| `Streams` | stream table and handle table, with their properties |
| `MCStreams` | symmetry for TLC |
| `StreamsProofs` | proofs of every property of `Streams` |
| `ByteStream` | what a client of a stream counts on |
| `StreamBuffer` | one stream's buffer over a file; implements `ByteStream` |
| `MCStreamBuffer` | files a stream begins on |
| `BufferProofs` | proofs of `TypeOK`, `LinesAreWritten`, `BufferIsWindow`, and of the refinement |
| `MountMap` | what mounting promises |
| `MountTable` | mount table and driver lists; implements `MountMap` |
| `MCMountTable` | constants and symmetry for TLC |
| `MountProofs` | proofs of `TypeOK`, `NothingDangles` and the refinement |
| `IdeDisk`, `SdCard` | the two block drivers, each with its drive |
| `Drives` | a volume on either of them; fairness and `CallsReturn` |
| `MCDrives` | cards for TLC |
| `IdeProofs` | proofs of the four safety properties of `IdeDisk` |
| `DrivesProofs` | proofs of `SdExact` and `SdNoStrayBlocks`, and of everything but liveness for `Drives` |
| `Allocator` | what malloc, free and realloc promise |
| `Heap` | the list of blocks; implements `Allocator` |
| `MCHeap` | constants for TLC |
| `HeapProofs` | proofs of every property of `Heap` and of the refinement |

Definitions marked "Mutant" are changed forms of the definition that follows
them; no specification uses them.

### JadosFS

One mounted volume.  `fat` and `dir` are the tables in memory, `mfat` and
`mdir` those on the medium; `data` is what each cluster of the medium holds,
abstracted to a tag `<<slot, q>>` that says "the q-th cluster of the file in
that slot".  `fcb[h]` is the file control block behind handle `h`, with the
fields of `struct jdfcb` that control depends on, under their names; `buf` is
the tag of the cluster buffer.  `call` is the call in progress.

| Code | Action |
|---|---|
| `nkcfs_open`, `alloc_new_file` | `OpenExisting`, `OpenNew` |
| `nkcfs_write` | `Write` starts the call, `WriteStep` is one round of its loop: `nkcfs_write_cluster` and `alloc_new_cluster` when the buffer is full, then the copy |
| `nkcfs_read` | `Read` starts the call, `ReadStep` is one round: the copy, then `nkcfs_read_cluster` |
| `nkcfs_seek` | `Seek` |
| `nkcfs_close` | `CloseReader` for mode 0xE4; `CloseWriter` (flush and `update_dir`), then `CloseFat` and `CloseDir` (the two media writes) for 0xE5 |
| `nkcfs_remove` | `Remove`, `RemoveFat`, `RemoveDir` |
| `nkcfs_rename` | `Rename`, `RenameDir` |
| `nkcfs_getfree` | `nkcfs_getfree` |
| `umountfs` and `nkcfs_mount` with no file open | `Remount` |
| power failure and mount | `PowerFail` |

A call that writes the medium more than once, or loops, is several steps, so
that power can fail in between and a loop can fail to end; no client call
starts while `call` is not idle.  The block driver's answer is free when
`MediaFails`.  `_ll_open`'s refusal to create an open file, its downgrade of a
second open, and the tests in `_ll_remove` and `_ll_rename` are part of the
actions; a refused call changes nothing and is no step.

Undefined behaviour: `nkcfs_seek` switches on a variable nothing assigned, so
each arm may run (`Sought`).  Left out because their effect is on the heap, not
on the tables: the double frees in `nkcfs_rename`, and the return without value
for write-protected files.  The volume is assumed to fit its device (the test
of `nsectors` in `nkcfs_write_cluster`, and `de_alloc_new_track` behind it).

The track table is two sectors on the medium (fs_nkc.c:1698-1701) and the
directory eighteen (1707-1715), written one after the other.  `FAT_SECTOR` and
`DIR_SECTOR` say how many tracks and slots share a sector, and `Torn` is what a
write of a table may leave on the medium when it is cut short: some sectors new,
the others old.  Power may fail in such a write (`PowerFail`), and with
`MediaFails` the write may fail in any of its sectors without the call ending
(`SaveFat`, `SaveDir`), because nobody looks at the answers.  One sector is
assumed to be written whole or not at all.

`size` is a history variable for two properties: how far the handle that
created a file wrote.

### Streams

`pstreams` is `_pstreams` up to `maxfiles`, with `NULL` for the entries that
`_ll_init_std` takes; `file[s]` the handle in `FILE` object `s`; `HPOOL`,
`filelist` and `driveName` (`FPInfo.psz_driveName`) the state of `fs.c`;
`files` what the volumes hold.  A name is a record of drive, path, base name,
spelling (two spellings differ for `strcmp` and mean one name for `checkfp`,
such as a leading blank) and the code `checkfp` answers.  The volume knows a
file by its base name only, because `find_file` leaves the path out
(fs_nkc.c:1324), while `_ll_open` stores and compares the path with it.
`freopen` strings close and open together, so an operator takes a state and
returns the states a call may leave; every action is then one application of an
operator.

`HPOOL` gives out handles up to 254, and `fopen` keeps its answer in a `char`:
`Char` is that conversion, and a stream whose handle is 128 or more holds a
negative number, which is no handle for `_ll_close`.

`_ll_rename` checks the old name into a structure of its own (fs.c:2184) and
takes the drive from `FPInfo`, which keeps the name checked last; the driver
parses both names for itself.  So `driveName` is not changed by a rename, and
decides on which drive it works.

Free choices: the driver refuses for reasons of medium or memory; `fseek` in an
append open and `fclose` inside `freopen` read the result of a `void` function
and see failure or success.  `nkcfs_open` creates a file only without the read
flag and opens an existing one only without the create flag, so that modes
"w+" on any file and "w" and "a" on an existing one always fail (`Openable`).

### ByteStream and StreamBuffer

`st` is a `FILE` together with the file below its handle: `bytes` and `pos` are
the file and the handle's position, the other fields are those of `FILE` and
its flags under short names (`in` for `_F_IN`, `skip` for `_F_SKIPLF`, ...).
`_readbuf`, `_writebuf`, `_basegetc`, `_baseputc` and `Flushed` (`_oneflush`)
are operators from a state to the state the function leaves, because the calls
nest; each call of a client is one action.

The file is on a FAT volume whose medium works.  `f_read` and `f_write` are
exact then: a read delivers what is left of the file, a write what the volume
has room for, which is a free choice (`Taken`), and answers how much that was
(`Written`).  `fatfs_seek` goes to the place asked for, and computes a place
relative to the current one from `fatfs_getpos`, which is always 0 because
nothing moves `f_pos` (`_ll_getpos`).

Streams on JADOS volumes are left out.  `nkcfs_read` moves whole clusters and
hands out the padding behind the file's end, `nkcfs_seek` does not position,
`nkcfs_write` does not return when the volume is full, and text mode does not
work there (comment at putget.c:72): no byte stream can be promised above them.
`JadosFS` models that driver as it is.

`ByteStream` knows no buffer: `contents` is what a client reads, `at` its
place, `handed` what has reached the file.  The refinement mapping takes
`contents` to the file overlaid with what waits in an outgoing buffer, without
the LF behind a CR in a text stream and up to a NUL, and `at` to the length of
the text before the handle's position less (incoming) or plus (outgoing) the
level.

`fflush` takes every count but 0 for success and empties the buffer
(fflush.c:23).  When a volume fills in the middle of a buffer, the rest of it is
lost without the error indicator.  `cut` is set by a flush that wrote some and
not all, and never reset; a `ByteStream` that was cut promises nothing more.

Clients do what C allows and this buffer can keep: they seek to a place before
they turn from reading to writing, flush only what they wrote, push back only
the character they read and not after the end of the file, and write text at its
end.  Only binary streams are sought from the current position.  `fgetpos` may be
called, but its answer is not promised (`Tell`).  The first rule is the
consequence of fflush.c:37, which sets the level to 0 before it subtracts it
from the position, and of the position being 0: whoever flushes what was read
ahead goes on at the start of the file.

### MountMap and MountTable

The three lists (`driverlist`, `blk_driverlist`, `fstab`) are sequences of
records with the block each element lies in (`at`); `malloc` gives any block
that is not taken, so a freed block comes back and a stale pointer to it meets
something else.  `volumes` are the blocks of mounted volumes that were not
freed; `filelist[h]` is the `p_fstab` of the open file.  A name is a device and
whether a tail follows it, because `get_fstabentry` stops at the first
character that is no letter or digit, while `remove_fstabentry` compares the
name as written.  The actions are `register_driver`, `un_register_driver`,
their two counterparts for block drivers, `mountfs`, `umountfs`, `_ll_open` and
`_ll_close`.  A mount may fail in every place where the code returns an error:
before the entry is added, because of the tail after it, and in the ioctl of
the file system, which for FAT may leave the volume's block taken.

FatFs points back into the table: `pfstab[v]` is the entry of the volume in
block `v` (`pFatFs->pfstab`, set at mount, fs_fat.c:429, and left in a block that
a failed `f_mount` loses), and `pCurFs` the entry the last path led to (ff.c:502),
which `f_mount` sets at mount and at unmount and `find_volume` at an open.
`f_mount(NULL)` cannot fail once its entry is found (`_FS_REENTRANT` is off), so
that `umountfs` has no error of it to drop.

`MountMap` is a map from device to file system, with a count of the files open
on it.  The mapping looks devices up as `get_fstabentry` does.

The code looks for open files neither in `umountfs` nor in
`un_register_driver`, and `umountfs("hda0:")` frees the volume and keeps its
entry.  Clients therefore close their files, unmount by the bare name and
unmount before they unregister; with `CARELESS = TRUE` they need not, and
`NothingDangles` is violated.  `pCurFs` dangles even under careful clients: see
`CurFsValid` in section 4.

`register_blk_driver` writes to the block it asked `malloc` for without a test
(drivers.c:91-94).  Clients register a block driver only while memory is left:
the action is disabled when no block is.

### IdeDisk, SdCard and Drives

`IdeDisk` follows `_ide`: one action per wait for the drive, with the way out
when it runs out, when the drive asks for no data, and when the drive reports
an error.  `d5` counts the tries, `stack` holds the status registers pushed.
A wait that runs out goes back to where the command is sent, without loading
the task file; an error resets the drive and goes back to where the task file
is loaded.  The drive is external: its task file (`regs`), the command it works
on (`dev`), its write cache and what of it survives power off (`platter`).
Whether its task file survives a command that is broken off is a property of
the drive (`keeps`); on drives where it does not, the retry asks for what is
left in the registers, and the properties about data speak of the others.  A
write all of whose tries failed returns success: the flush behind it
overwrites `d0`.  In the model that is an idle state with `d0 = 0` and `clean`
false.  The flush (`ideCacheFlush`) waits for BSY and reads neither ERR nor DF:
the drive may carry it out or end it with an error (`FlushedBy`), and `d0` is 0
in both cases.  The error shows in the drive's status until the next command
(`dev.err`), where a caller could find it and none looks.

`SdCard` follows `sd_init0`, one action per answer it waits for, and the block
transfers, one block per step.  The CSD and the CID each have their answer and
their token, which is waited for with a counter in a byte.  The wait for the SPI
controller itself (`_spi_rcv_byte`, sd.S:137-139, marked "FIXME LOOP !") has no way out
either; the controller is assumed to finish every byte it was given.  The card is external: absent, old, standard or
high capacity, swapped between calls, silent or refusing at any step.  The
driver keeps type and size from its last initialisation.  `fresh` says that
this was an initialisation of the card that is in the slot, with success.

`Drives` puts a volume on one of the two.

### Allocator and Heap

`heap` maps the address of each header to its fields.  The list is met in the
order of addresses, which is one of the things `Tiled` says, so the first block
that fits is the lowest one.  `malloc`, `free`, `realloc` and `mm_free` are
actions; splitting and merging are operators on heaps.  Clients pass pointers
they hold, null pointers and stale ones; a pointer given back twice is what
`nkcfs_rename` does.  `Allocator` knows only the regions clients hold, and that
memory may be refused when no gap takes the region, its header and the header
of the rest.  `realloc` gives the old block back whether or not there was a new
one, and `Allocator` says so.  Sizes do not wrap: `malloc` adds the header to the
size, and `calloc` multiplies, in 32 bits without a test, and no client asks for
so much that this would pass 2^32.

## 3. Runs

| Run | Instance | Checks |
|---|---|---|
| `JadosFS_core` | 4 tracks of 2 clusters, 2 slots, 2 names, 2 handles; create, write 7 bytes (4 clusters, 2 tracks), close, read, remove, rename, remount | `TypeOK`, `NamesUnique`, `LengthCovered`, `LengthExact`, `FilesHoldWhatWasWritten`, `SavedAtRest`, `BufferHoldsPosition` |
| `JadosFS_full` | 3 tracks of 1 cluster; r, w and r+ handles, also two on one file, requests of 3 bytes (3 tracks), getfree, media fail at will and in any sector of a table, volume fills | `VolumeConsistent`, `ChainsDisjoint`, `NoLostTracks`, `HandlesAnchored`, `ChainsOnlyGrow` |
| `JadosFS_power` | 4 tracks of 1 cluster, a directory of two sectors; create, write 2 bytes, seek to the end, close, remount, power failure at any step and in the write of the directory | `MediumConsistent`, `SavedChainsSurvive` |
| `Streams_core` | 4 table entries, 1 standard, 4 handles, 4 objects, 2 names | `TypeOK`, `HandlesMatch`, `StreamsOwnHandles`, `TableExact`, `OneWriter`, `OpenFilesExist` |
| `Buffer_core` | a buffer of 2, files of up to 3 characters with letters, NUL, CR and CR LF, every mode, a volume that may be full at any write | `TypeOK`, `BufferIsWindow`, `LinesAreWritten`, `IsByteStream` |
| `Mounts_core` | 3 devices, one without a drive letter, 3 driver blocks, 2 block drivers, 2 entries, 2 volumes, 2 handles | `TypeOK`, `NothingDangles`, `IsMountMap` |
| `Drives_core` | 3 tries, 2 sectors, transfers of 1 and 2, 2 versions; 3 cards, 3 polls, `CardSpec` | `TypeOK`, `InterruptsRestored`, `ReadsExact`, `WritesDurable`, `NoStraySectors`, `SdExact`, `SdNoStrayBlocks`, `CallsReturn` |
| `Heap_core` | 14 bytes, headers of 2, requests of 0, 1 and 3, every pointer | `TypeOK`, `Tiled`, `Coalesced`, `NothingLost`, `Promises` |

Four runs expect a violation, and each one is a place where the code does not
do what its own comment says:

| Run | Violated | What the trace shows |
|---|---|---|
| `JadosFS_v_full` | `WritesReturn` | a write that finds the volume full turns for ever: the `switch` of `nkcfs_write` has no arm for `FR_DISKFULL` |
| `JadosFS_v_update` | `CloseWritesBack` | the close of an r+ handle that took a track writes nothing back |
| `Drives_v_success` | `SuccessIsWritten` | a write that ran out of tries returns 0: the flush behind it ended |
| `Drives_v_silent` | `CallsReturn` | a card that never sends a register's token is polled for ever: the counter that is to give up is a byte |

**What does not hold.**  The models contain more places where the code does less
than its comments say or than one would hope.  The passing runs and the theorems
exclude them by the constants or clients named here.  A reader can see each of
them by giving a run the instance in the second column:

| In the code | Instance | TLC finds violated |
|---|---|---|
| `_ll_rename` works on the drive of the name checked last (fs.c:2196): with `b1` of drive B open, renaming `A:b1` renames it | `Streams_core` with `Drives = {A, B}` | `OpenFilesExist` |
| a JADOS file reached by two paths has two stored names (fs.c:1800, fs_nkc.c:1324) and two writers | `Streams_core` with `Paths = {none, root}` | `OneWriter` |
| remove and rename compare the name as written (fs.c:2335) | `Streams_core` with `Spellings = {plain, blank}` | `OpenFilesExist` |
| `fopen` keeps a handle in a `char` (fopen.c:122), handles go to 254 | `Streams_core` with `Handles = {127, 128}` | `StreamsOwnHandles` |
| `fopen` takes an error code of `checkfp` for a handle | `Streams_core` with a code besides `EZERO` | `StreamsOwnHandles` |
| clients that unmount what is open, by a name with a tail, or unregister what is mounted (fs.c:1295, 1414) | `Mounts_core` with `CARELESS = TRUE` | `NothingDangles` |
| `pCurFs` points to an entry that was freed, after a mount that fails late and after an unmount (ff.c:2294) | `Mounts_core` | `CurFsValid` |
| `un_register_blk_driver` answers EINVDRV when it succeeded, though its comment says EZERO (drivers.c:124-149) | `Mounts_core` | `UnregisterAnswers` |
| a seek from the current position on a FAT volume goes from the start of the file (fs_fat.c:224) | `Buffer_core` | `SeeksFromPlace` |
| a text that ends in a NUL is at its end before its last line was read (readbuf.c:63) | `Buffer_core` with `TextFiles <- PaddedTextFiles` | `TextIsRead` |
| a track table torn between its sectors is no mirror | `JadosFS_power` with `FAT_SECTOR = 2` | `MediumConsistent` |

`CurFsValid`, `UnregisterAnswers`, `SeeksFromPlace` and `TextIsRead` are stated in
their modules under "What comments of the code say and the model does not keep".
Further: a read past the last cluster of a JADOS file copies bytes and reports 0,
and `getfree` counts tracks where its comment says clusters, and on the medium.

**Bounds.**  *JadosFS*: tracks of one or two clusters and requests that cross
both boundaries reach every case of the cluster arithmetic: the middle, the end
of a cluster, of a track, of the file, and of the volume.  Two files and two
handles are enough to share, cross-link or orphan a track.  `MaxPos` stops
clients from writing further, and `MaxCluster` from using a handle whose
cluster ran past it; both are guards of the client's calls, never of the
driver's steps.  `JadosFS_power` has single-cluster tracks, because what it checks is
about tracks, and files of up to four of them that are saved by one writer while
another is still growing its own.  A directory of two sectors is enough to tear
it.  The track table is one sector there: torn ones are in the theorem
`SavedFilesSurvive`, for any number of sectors, and `SavedChainsSurvive` passes in
this run with `FAT_SECTOR = 2` as well.  *Streams*: four handles are exhausted because append opens
orphan handles, and the four-entry stream table is filled.  They are 10 to 13, the
first `HPOOL` gives out.  *StreamBuffer*: a
buffer of two is filled, refilled and split between a CR and its LF by files of
three characters; `MAX_LEN` stops clients from writing further.
*MountTable*: a driver can be registered twice, every kind of block can run out,
and two volumes can be mounted with files on both, which takes both blocks there
are for entries; `MAX_LIST` bounds
registrations.  *Drives*: two sectors are the least for a transfer that fails in
its middle or strays, and three tries let a wait that ran out follow a reset and
the other way round.  `BYTE_RANGE` is 2 and `CMD_TIMEOUT` 3, in the order of 256
and 100000; `MAX_COUNT` and `COUNT` bound a transfer.  *Heap*: up to six blocks
are in use at a time, and requests of three sizes leave gaps that take some and
not others.

**Symmetry and view.**  Names, handles, `FILE` objects and blocks of the mount
table are interchangeable: no operator compares or orders them.  No run that
checks liveness uses symmetry.  `JadosFS_full` uses `VolumeView`, which leaves
out cluster contents, buffers, the medium, results and `size`.  That is sound
there: no remount or power failure is among the calls, so none of these is ever
read by a guard or by a next value of what the view keeps, and the properties of
the run are about the view only.

**What a run leaves out on purpose.**  `JadosFS_core` has as many tracks as its
files can need: when the volume is full, the flush in close fails and the entry
counts a cluster that was never written, so `LengthExact` and `LengthCovered` do
not hold then.  `JadosFS_power` has no remove and no rename: remove writes the
freed chain before the deleted entry, and a power failure in between leaves an
entry on free tracks.  `BufferHoldsPosition` speaks of handles opened on the
current entry; a handle opened before a writer closed keeps the old length.
Seeks are in `JadosFS_power` only; that they keep handles anchored is proved.
`WritesReturn` is checked only where it fails.
`Streams_core` has one drive, one path, one spelling, no malformed name and no
handle beyond 127, because each of these breaks a property (see above).
`Drives_core` has `WritesDurable` for drives that show no error after the flush:
what the code takes for success is `SuccessIsWritten`, which fails.

**Fairness.**  `FairSpec` of `JadosFS` and of `Drives` add weak fairness of
`Driver`, the steps a started call takes by itself.  The code justifies it: the
processor runs on, nothing else can run, and a started call is never abandoned.
Clients are not fair; no client has to call anything.  A drive that does not
answer is not fair either: every wait of `_ide` has a way out, which is a step
of the driver.  `CardSpec` adds that a card asked for a register sends its token
some time (`TokenSent`); that is an assumption about cards, and `Drives_v_silent`
shows that `CallsReturn` needs it.

Every property of a passing run has a mutant, a change to a modelled definition
as a slip in the code would make it (the ancestor not told its successor, the
header between two merged blocks not gained, the transfer started over without
the task file, the entry of a failed mount kept, ...), under which TLC finds
the property violated.

## 4. Proofs

### JadosFS

All for arbitrary constants under the named assumptions `GeometryAssumption`,
`ClientAssumption` and `NullAssumption` of `JadosFS`.

* `TypeCorrect`: `Spec => []TypeOK`.  `TypeOK` is inductive because it includes
  that directory entries in use name a track and that a call on a handle has a
  control block; each action has a lemma.
* `VolumeStaysConsistent`, `HandlesStayAnchored`, `TracksStayReachable`,
  `FilesStayDisjoint` and `ChainsNeverShrink`: under `OneMount` (the calls
  contain neither remount nor power failure), `Spec` implies
  `[]VolumeConsistent`, `[]HandlesAnchored`, `[]NoLostTracks`,
  `[]ChainsDisjoint` and `ChainsOnlyGrow`.
* `NamesStayUnique`: if the medium takes every write, or under `OneMount`, `Spec =>
  []NamesUnique`, with all other calls, and with power failures that tear the
  directory.  A write that fails in the middle of the directory and a mount after
  it may bring an old name back beside a new one.
* `SavedFilesSurvive`: under `NoRemoval` (the calls contain no remove), `Spec =>
  SavedChainsSurvive`.  Nothing else is assumed: writes fail in any sector of a
  table, power fails in any step, also between the sectors of the track table,
  and volumes are mounted again in between.
* `MediumStaysConsistent`, `PowerFailuresHarmless`: under `OnlyGrowing` (no
  remove, no rename, a medium that takes every write; power may fail) and
  `FatWhole` (the track table fits one sector, so that it is never torn), `Spec`
  implies `[]MediumConsistent`, and that the mounted volume stays consistent over
  power failures, those in the middle of writing the directory included.  On the
  real medium the table has two sectors; when power fails between them only
  `SavedFilesSurvive` speaks.
* `TablesAreSavedAtRest`: under `PlainModes` (streams are opened with `r`, or
  with `w` or `a` for a new file, and the medium takes every write), `Spec =>
  []SavedAtRest`, with all calls, power failures included.
* `RemountsAreHarmless`: under `PlainModes` and without power failures, `Spec`
  implies `[]VolumeConsistent`, `[]HandlesAnchored`, `[]ChainsDisjoint` and
  `[]NoLostTracks`, this time with remounts.
* `LengthsAreExact`: under `PlainModes`, without seeks and power failures,
  `Spec => []LengthExact`.
* `LengthsAreCovered`: under the same assumptions, `Spec /\ []NeverFull =>
  []LengthCovered`.  `NeverFull` says that no writer stands behind the last
  track of its file while no track is free; without it the close counts a
  cluster that has no track.
* `FilesKeepTheirContents`, `ReadersHoldTheirPosition`: under the same
  assumptions, `Spec /\ []NeverFull` implies `[]FilesHoldWhatWasWritten` and
  `[]BufferHoldsPosition`.
* `RoomSuffices`: under the same assumptions and `Room(t)`, `Spec =>
  []NeverFull`.  `Room(t)` says that no client writes more than `t` tracks into
  a file and that the volume has more tracks than `t` for every slot of the
  directory.
* `FilesAreRightWithRoom`: on such a volume `Spec` alone implies
  `[]LengthCovered`, `[]FilesHoldWhatWasWritten` and `[]BufferHoldsPosition`.
  The instance of `JadosFS_core` satisfies `Room(2)`.

The inductive invariant is the conjunction of `TypeOK`, `VolumeConsistent`,
`HandlesAnchored` and `NoLostTracks`.  None of the three is inductive alone.
Writing extends the chain at the handle's current track: that keeps the links
mirrored only when the track is allocated and in the handle's own chain
(`HandlesAnchored`), and keeps the handle anchored only if chains are disjoint
and closed, which rests on the mirror.  Remove frees a whole chain: no handle
loses its track because the open files' chains are disjoint from it, and no
other chain loses one for the same reason.  Disjointness itself is derived:
two chains that meet share, by the mirror, every ancestor of the meeting
point, down to a track with no ancestor, and only starts have none.  `Chain` is
defined without recursion, as the least set closed under successor, so facts
about it are proved by naming a closed set instead of by induction.

`OneMount` is needed because a remount replaces memory by the medium, and the
two differ after a failed write or an r+ close.  Where they do not differ,
remounts are harmless, and that is `SavedAtRest`.  It is not inductive either:
`Saved` adds what the medium already has in the middle of a close, a remove or
a rename, and that a close is the close of a writer.  Several writers may close
one after the other; what the first saves is overtaken by what the second
writes, and only the last leaves medium and memory equal.

`NamesInv` asks for unique names in memory and on the medium, since a mount
makes the second the first, and that every open handle's slot is in use under
the name it was opened by (`Named`): otherwise a writer's close, which copies
its name into its slot, could bring back a name that was given away.
`MediumNamed` adds what keeps a torn directory free of a name twice: no file of
the medium has the name another slot has in memory.  For the
power failures, `MediumInv` says that a file on the medium is in memory too
(`StillThere`), starting at the same track, and that the track table on the
medium is the one of memory when the directory is about to follow; the order of
the two writes in `nkcfs_close`, tracks before directory, is what keeps it.  A
torn directory is some slots of memory and some of the medium, and both have
their chains in the table that is on the medium by then.

`SurvivalInv` is what is left when the track table may be torn: memory has every
file of the medium where it starts (`StillThere`) and every link of the medium's
table (`LinksIn`), because in memory links are only added.  Whatever mixture of
the two a torn write leaves has the links of the medium.  Chains are least closed
sets, so more links make longer chains.

Lengths are the cluster arithmetic of `nkcfs_write_cluster` and
`alloc_new_cluster`.  `FilesInv` says of a writer that has not closed where it
stands (`Stands`): on the last cluster of its last track, or just behind it,
with `length`, `endcluster`, `pos` and `crpos` counting the same clusters, and
as many tracks as its chain has.  A chain that grows gains one track
(`ChainGrown`), and the other files keep theirs, because chains are disjoint
(`OthersUntouched`).  When the writer closes, its length goes to the entry, and
`Stands` makes that the clusters its bytes need.  A close that flushes into a
full last track takes one more track; if there is none the entry counts it
nevertheless.  Seeks are left out because after one a writer need not stand on
the last cluster.

What a file holds is said cluster by cluster: the k-th cluster of a file lies in
the place `Place` computes from the k-th track of its chain.  `ContentInv` says
that a file under no writer holds all the clusters its entry counts, and that a
writer's file holds all but the one in its buffer (`WriterHolds`).  A cluster
that is written goes to a cell of the writer's own chain, so it overwrites no
other file's (`StoreHolds`, `StoredElsewhere`); entering a new track moves no
earlier one (`EnterHolds`).  `KthTrack` is a recursive function, and what it
gives cannot be proved by induction here.  It is proved by least counterexample
instead: of the numbers below a bound for which a statement fails there is a
least (`LeastFirst`), one unfolding of the definition (`KthTrackPoint`) carries
the statement from the number before it, which is a contradiction
(`KthOnChain`, `KthSame`, `KthGrown`).

`ReadersInv` adds where readers stand.  A reader that was opened on a finished
file has its buffer, its current track and its counts at one cluster of the file
as the directory has it (`ReadsAt`), until the file is made anew under its
handle.  A reader opened while its file was still being made has the length of
an empty file (`Early`), and `BufferHoldsPosition` does not speak of it.  A read
that crosses a cluster moves all of them together (`NextReads`).

`RoomInv` counts tracks.  A file has no more tracks than its bytes need, by
`Stands` and `LengthExact`, and no client asks for more bytes than `MaxPos`.
The tracks that are not free are in chains (`NoLostTracks`), a chain per slot;
if each of the slots has at most `t` tracks there are at most as many tracks
taken as the slots times `t` (`UnionBound`), and one is left (`RoomLeft`).  That
remove gives back every track of a chain is what lets files be made and removed
for ever.

### Streams

All for arbitrary constants under `TableAssumption` and `NullAssumption` of
`Streams`.

* `StreamsTypeCorrect`, `HandlesStayMatched` and `TableStaysExact`: `Spec`
  implies `[]TypeOK`, `[]HandlesMatch` and `[]TableExact`, malformed names
  included.
* `StreamsKeepHandles`: under `PlainHandles` (no client passes a malformed name,
  and no handle is beyond 127), `Spec` implies `[]StreamsOwnHandles`.  Without the
  first an error code of `checkfp` becomes a stream's handle, without the second
  a negative number does.
* `WritersAreSingle`: under `OnePath` (clients reach every volume by one path),
  `Spec => []OneWriter`, under every spelling and with malformed names.
* `OpenFilesStay`: under `OneSpelling` (one drive, one path, names written as the
  handle table stores them), `Spec => []OpenFilesExist`.

Section 3 names the instances under which each of these fails without its
assumption.

The inductive invariant is `TypeOK /\ HandlesMatch /\ TableExact`.  `TypeOK`
alone is not inductive: after `fclose` the table is still longer than its
standard entries only because the stream that closes is listed behind them.
`TableExact` needs that a stream is listed once, so that moving the last entry
into its place leaves no second copy.  For `StreamsOwnHandles` a new handle must
be one that no stream holds: it is not taken, so by `HandlesMatch` no file is
open behind it.  The proofs work on the state records the operators of `Streams` take and return
(`Sound`), one lemma per operator; `freopen` is then two of them in a row.

`Single` says of the handle table that two entries under one name do not both
write, and is inductive together with `Sound` because `_ll_open` looks for the
stored name among the open files before it grants a flag.  One path makes stored
names of one file equal.  `Backed`, that a file
is on its volume as long as a handle is open on it, needs `OneSpelling`:
`_ll_remove` and `_ll_rename` compare the name as the client spells it.

### Heap

All for arbitrary constants under `HeapAssumption`: heaps and headers of every
size, any requests, any pointers given back.

* `HeapTypeCorrect`, `HeapStaysTiled`, `HeapStaysCoalesced`, `NothingGetsLost`:
  `Spec` implies `[]TypeOK`, `[]Tiled`, `[]Coalesced` and `[]NothingLost`.
* `HeapKeepsPromises`: `Spec` implies `A!ASpec`, the refinement of `Allocator`.

The inductive invariant is `Sound`, which says that the list is typed, tiles
the heap and leaves no byte uncovered (`Covers`), together with `Coalesced`.
`Covers` follows from the links by walking along the list; carried along in the
invariant it needs no such induction.  It is what makes a refusal right: a gap
with room between the regions in use lies in free blocks, by `Coalesced` in a
single one, which would have fitted.  Within `free` neighbours are merged one
after the other; `MergedBut(heap, L)` says that only blocks of `L` may still be
free in front of a free one.

### Hard disk

All for arbitrary constants under `IdeAssumption`, for the specification
`IdeSpec` of one hard disk.

* `CallersKeepInterrupts`, `ReadsAreExact`, `WritesAreDurable`,
  `NoSectorStrays`: `IdeSpec` implies `[]InterruptsRestored`, `[]ReadsExact`,
  `[]WritesDurable` and `NoStraySectors`.  `WritesDurable` says that what a clean
  write wrote survives power off when the drive shows no error after the flush;
  the code does not look there.

`InterruptsRestored` and `IdeTypeOK` are inductive together.  For the data,
`DiskInv` adds that the task file still says what was asked for whenever a
command can be started again (`Loaded`), that the drive's next sector is the
one whose place in the buffer is next (`InStep`), and that what passed in this
attempt is right unless the drive reports an error (`Passed`).  A retry may
leave the buffer and the sectors half done; `Passed` then begins anew because
the command starts at the first sector, which the mutant `ResumeAt` breaks.

### Drives

For the specification `Spec` of `Drives`, in which the hard disk and the SD card
take their steps under one volume, for arbitrary constants under the
assumptions of `IdeDisk` and `SdCard`.

* `DrivesTypeCorrect`: `Spec => []TypeOK`.
* `SdTransfersAreExact`, `NoBlockStrays`: `Spec` implies `[]SdExact` and
  `SdNoStrayBlocks`.
* `HardDiskKeepsPromises`: `Spec` implies the four properties of `IdeDisk`.

A step of `Drives` is a step of one drive and a stutter of the other, so that
each drive is proved alone.  `SdInv` says that, while the card in the slot is
the one initialised last, the driver knows its type and size (`Known`), which
decides whether a block or a byte address is sent; and that the blocks counted
so far are in their places (`Moving`, `Placed`).  A write that strays would have
to hit a place of another block, and byte addresses of two blocks differ
(`BytesApart`).

### Stream buffering

For arbitrary constants under the assumptions of `StreamBuffer`: buffers of
every size, all files, all clients and answers of the driver unless it says so.

* `BufferTypeCorrect`, `LinesStayWritten`: `Spec` implies `[]TypeOK` and
  `[]LinesAreWritten`.
* `WhatIsReadIsTheFile`: if the text files a stream begins on hold no NUL,
  `Spec => []BufferIsWindow`.
* `BinaryStreamsAreByteStreams`: `Spec` implies `IsByteStream`, the refinement of
  `ByteStream`, for streams opened binary, on any file.
* `TextStreamsAreByteStreams`, `StreamsAreByteStreams`: so do text streams, and all
  streams, if every text file a stream begins on has no NUL (`Clean`) and every LF
  in it stands behind a CR (`Paired`).

These are about streams on FAT volumes, and promise nothing after a flush that was
cut short: `ByteStream` has `cut` for it, and `CutKept` says that it stays set.

Every client call is a chain of operators from state to state, so there is one
lemma per operator and kind of fact, and the steps put them together.  `Shaped`
says that the buffer serves one direction and that its counts lie in it; with
`NoLine` it is inductive.  `Seen` adds that incoming characters are the ones of
the file before the handle's position (`Window`).  A NUL in a text ends what
`_basegetc` hands out without ending what is buffered, so the window is lost
behind one; a flush that was cut short moves the handle by less than the buffer
held, so `Seen` is kept while `cut` is false.

For the refinement, `BinaryInv` adds that nothing waits in the buffer of a
closed stream, as long as nothing was cut.  A get that finds the buffer empty and reads it anew, or a put
that finds it full, writes it and goes on, is one step of `ByteStream`; so is a
flush, which changes what was handed over, or loses it and says so.

A text's mapping counts the characters that the text keeps, and `TextInv` says
where LFs may be (`Lines`): each stands behind a CR (`Paired`); when one is what
comes next, the stream is reading and `_F_SKIPLF` is set, for its CR has just
been read; a stream that does not read is at the beginning or the end of its
text, and the characters that wait follow the last one of the file.  The lemmas
about counts say what one character more is for them: an LF behind a CR nothing,
any other one more, and the last (`TextNext`); so reading at a place of the file
is reading at a place of the text (`ReadNext`), whether the CR and its LF were
read ahead together or not.  They need no induction along the file: the
characters up to a place are numbered without a gap because the number is an
injection of a finite set into as many numbers (`RankOnto`).  A line that is put
is two characters and a flush, and one step of `ByteStream`.

The assumption on texts is needed, both parts of it.  Behind a NUL `_basegetc`
reads nothing, but a seek to the end goes there and `ungetc` then steps back to a
character that is no part of the text.  What a stream writes satisfies the other
part, and so does a text whose line ends are CR alone, but `_F_SKIPLF` is not cleared by a
character behind a lone CR (putget.c:84): in the text CR, `a`, LF, the LF is not
read, and `IsByteStream` is violated when such a file is put into `TextFiles`.
`ByteStream` promises nothing for either kind of text.

### Mount table

All for arbitrary constants under `MountAssumption` and for careful clients
(`CARELESS = FALSE`, an assumption of each theorem).  They do not speak of
`pCurFs`, for which `CurFsValid` does not hold.

* `MountTypeCorrect`, `NothingIsFreedInUse`: `Spec` implies `[]TypeOK` and
  `[]NothingDangles`.
* `TableIsMountMap`: `Spec` implies `M!Spec`, the refinement of `MountMap`.

The inductive invariant (`Inv`) says that no two elements of a list lie in the
same block, that entries have bare names, one for a device, and a volume of
their own (`Tidy`), and that everything pointed to is there.  `PInv` adds the pointers FatFs keeps: the
block of a FAT volume in the table points back to its entry, whatever blocks failed
mounts left behind.  Bare names are what
makes `remove_fstabentry` remove the entry `get_fstabentry` found; that no entry
with a tail stays in the table is so only because `mountfs` looks for its own
entry again, misses it and gives up.  Distinct blocks make "the element at a
block" mean one element, so that taking an element out of the middle of a list
(`UnlinkedElements`) leaves the meaning of every other pointer.  The number of
files on a device changes by one when a file is opened or closed, which is where
the finiteness of `Fds` is used.

### Model-checked only

* Liveness (`CallsReturn`; `WritesReturn` is violated) is out of the prover's reach and
  stays with TLC, and so does `ENABLED`.  The library's induction theorems are
  out of its reach too; where a proof needs them it argues by least
  counterexample, as above.
* What `PlainModes` excludes, `r+` handles and media that refuse a write, is in
  `JadosFS_full` and in the theorems about chains, handles and names.  The
  contents of files are checked and proved without them: the close of an `r+`
  handle does not write its entry back (`JadosFS_v_update`), and a write that
  failed loses its cluster.

## 5. Not modelled

* *FatFs* (`ff.c`) and its tables of code pages are vendored.  The tables alone
  are about 30000 lines of numbers, 40 per cent of the implementation; with
  `ff.c`, `fdlibm`, `complib` and the shell, loaders and object file tools, which
  are clients or stand beside the library, they are most of its lines.  The
  share of the lines that the models stand for is small for that reason.
* *FAT glue*: apart from mounting and what the buffer sees, its calls check a
  pointer and hand their arguments to FatFs.
* *JADOS driver*: opendir and readdir (they read the directory and change only
  their own block), the ioctls but mounting, write protection.
* *Handle table*: `_ll_seek` and `ioctrl` pass their arguments on.
* *Streams*: the standard streams, `closeall`, `setvbuf` and unbuffered streams;
  `fread`, `fwrite` and line input are loops around the functions modelled.
* *Hard disk*: identification and the status and geometry ioctls.
* *Temporary files*, *process control*: short; their hazards are listed.
* *Formatted I/O, strings, time, sorting, options*: no state; a test reaches
  what a model would.
* *ROM calls*: outside the repository.

## 6. Plan

1. Proofs: lengths and contents of `JadosFS` with seeks that stay on the last
   cluster.
2. An abstract specification of a volume as a function from names to contents
   and open handles, refined by `JadosFS` on a medium that works and never
   fills; then `StreamBuffer` over that instead of over a plain sequence.
3. `MountTable` with the block drivers of `Drives` below it: a card that is
   swapped under a mounted volume.
4. The standard streams and `closeall`, with process control as its client.
5. opendir/readdir and write protection of the JADOS driver.

The most important behaviour, files on a shared volume, came first, then the
tables every call passes through, then what lies above them (the buffer) and
below (mounts, drives, the heap).
