----------------------------- MODULE MountTable -----------------------------
(***************************************************************************)
(* What files rest on: the lists of file system drivers (fs/fs.c) and of   *)
(* block drivers (drivers/drivers.c) and the table of mounted volumes      *)
(* (fs/fs.c), with the mount ioctls of both file systems (fs_fat.c,        *)
(* fs_nkc.c) and the pointers open files keep into the table.              *)
(*                                                                         *)
(* All three are linked lists of blocks from malloc that point to each     *)
(* other and are freed on request, with no count of who still points to    *)
(* them.  A block is an element of a set; malloc gives any block that is   *)
(* not taken.  Names compare as strcmp compares them: a name is a device   *)
(* and whether something follows it, such as a colon.                      *)
(***************************************************************************)
EXTENDS Naturals, Sequences, FiniteSets

CONSTANTS
  Devices,       \* "hda0", "sda1", ...
  NoDrive,       \* those without a drive letter or a partition number
  BlkName,       \* the first two letters of a device
  FAT, JDFS,     \* names of file systems
  DriverBlocks, BlkBlocks, EntryBlocks, VolumeBlocks,
  Fds,
  NULL,
  MAX_LIST,      \* drivers registered at a time (bound)
  CARELESS       \* clients also umount what is in use or with a colon, and
                 \* take away drivers in use

FileSystems == {FAT, JDFS}
BlkNames == {BlkName[d] : d \in Devices}
Names == [dev : Devices, tail : BOOLEAN]

ASSUME MountAssumption ==
  /\ NoDrive \subseteq Devices /\ BlkName \in [Devices -> BlkNames]
  /\ MAX_LIST \in Nat /\ CARELESS \in BOOLEAN
  /\ NULL \notin DriverBlocks \cup BlkBlocks \cup EntryBlocks \cup VolumeBlocks \cup {FAT, JDFS}
  /\ IsFiniteSet(Fds)

VARIABLES
  driverlist,      \* at: the block, name: pname
  blk_driverlist,  \* at, name: pdrive
  fstab,           \* at, devname, pfsdrv, pblkdrv, pfs
  filelist,        \* p_fstab of the file behind each handle
  volumes,         \* the blocks of volumes, as far as they are not freed
  pfstab,          \* the entry the block of a FAT volume points back to
  pCurFs,          \* FatFs's current entry: the last one a path led it to
  ret              \* what the last call returned

vars == <<driverlist, blk_driverlist, fstab, filelist, volumes, pfstab, pCurFs, ret>>

fs_driver == [at : DriverBlocks, name : FileSystems]
blk_driver == [at : BlkBlocks, name : BlkNames]
fstabentry == [at : EntryBlocks, devname : Names, pfsdrv : DriverBlocks,
               pblkdrv : BlkBlocks, pfs : VolumeBlocks \cup {NULL}]

-----------------------------------------------------------------------------
(* Lists *)

Blocks(list) == {list[i].at : i \in 1 .. Len(list)}

First(I) == CHOOSE i \in I : \A j \in I : i <= j

\* The list without its i-th element.
Unlinked(list, i) == SubSeq(list, 1, i - 1) \o SubSeq(list, i + 1, Len(list))

\* The element at a block; there is one as long as the block is not freed.
At(list, b) == {i \in 1 .. Len(list) : list[i].at = b}
ElementAt(list, b) == list[First(At(list, b))]

\* Positions of what has a name, in a list of drivers and in the table.
Named(list, name) == {i \in 1 .. Len(list) : list[i].name = name}
Entries(tab, n) == {i \in 1 .. Len(tab) : tab[i].devname = n}

\* get_fstabentry looks for the letters and digits a name begins with.
Bare(n) == [n EXCEPT !.tail = FALSE]

get_fstabentry(tab, n) == Entries(tab, Bare(n))

\* Mutant: the head of the list goes, whichever entry was found.
remove_head(tab, n) == IF Entries(tab, n) = {} THEN tab ELSE Unlinked(tab, 1)

\* remove_fstabentry compares the name as it is written.
remove_fstabentry(tab, n) ==
  IF Entries(tab, n) = {} THEN tab ELSE Unlinked(tab, First(Entries(tab, n)))

-----------------------------------------------------------------------------
Init ==
  /\ driverlist = << >> /\ blk_driverlist = << >> /\ fstab = << >>
  /\ filelist = [h \in Fds |-> NULL]
  /\ volumes = {} /\ pfstab = [v \in VolumeBlocks |-> NULL]
  /\ pCurFs = NULL /\ ret = "EZERO"

Returns(code) == ret' = code

\* A driver of that name may be in the list already.
register_driver(name) ==
  /\ UNCHANGED <<blk_driverlist, fstab, filelist, volumes, pfstab, pCurFs>>
  /\ Len(driverlist) < MAX_LIST
  /\ \/ \E b \in DriverBlocks \ Blocks(driverlist) :
          driverlist' = Append(driverlist, [at |-> b, name |-> name]) /\ Returns("EZERO")
     \/ UNCHANGED driverlist /\ Returns("ENOMEM")

un_register_driver(name) ==
  /\ UNCHANGED <<blk_driverlist, fstab, filelist, volumes, pfstab, pCurFs>>
  /\ IF Named(driverlist, name) = {} THEN UNCHANGED driverlist /\ Returns("EINVDRV")
     ELSE driverlist' = Unlinked(driverlist, First(Named(driverlist, name))) /\ Returns("EZERO")

\* It takes the memory it asks for without a test, so that the model has it
\* only where there is a block.
register_blk_driver(name) ==
  /\ UNCHANGED <<driverlist, fstab, filelist, volumes, pfstab, pCurFs>>
  /\ Len(blk_driverlist) < MAX_LIST
  /\ \E b \in BlkBlocks \ Blocks(blk_driverlist) :
       blk_driverlist' = Append(blk_driverlist, [at |-> b, name |-> name])
  /\ Returns("EZERO")

\* It answers EINVDRV when it found the driver, EZERO when it did not.
un_register_blk_driver(name) ==
  /\ UNCHANGED <<driverlist, fstab, filelist, volumes, pfstab, pCurFs>>
  /\ IF Named(blk_driverlist, name) = {} THEN UNCHANGED blk_driverlist /\ Returns("EZERO")
     ELSE blk_driverlist' = Unlinked(blk_driverlist, First(Named(blk_driverlist, name)))
          /\ Returns("EINVDRV")

-----------------------------------------------------------------------------
(* Mounting *)

\* add_fstabentry's entry, in the block b.
NewEntry(n, f, b) ==
  [at |-> b, devname |-> n, pfs |-> NULL,
   pfsdrv |-> driverlist[First(Named(driverlist, f))].at,
   pblkdrv |-> blk_driverlist[First(Named(blk_driverlist, BlkName[n.dev]))].at]

\* What add_fstabentry refuses, and with which code.
Refusals(n, f) ==
  IF Named(driverlist, f) = {} THEN {"FR_NO_FILE"}
  ELSE IF Named(blk_driverlist, BlkName[n.dev]) = {} THEN {"FR_INVALID_DRIVE"}
  ELSE {"FR_NOT_ENOUGH_CORE"} \cup (IF n.dev \in NoDrive THEN {"FR_INVALID_DRIVE"} ELSE {})

Accepted(n, f) ==
  /\ Named(driverlist, f) # {} /\ Named(blk_driverlist, BlkName[n.dev]) # {}
  /\ n.dev \notin NoDrive

\* Mutant: an entry whose volume was not mounted stays.
entry_kept(tab, n) == tab

\* What mountfs does when the ioctl failed.
Dropped(tab, n) == remove_fstabentry(tab, n)

IsFat(e) == ElementAt(driverlist, e.pfsdrv).name = FAT

\* Mutant: the volume points to itself where it is to point to its entry.
TakeVolumeItself(v, e) ==
  /\ volumes' = volumes \cup {v}
  /\ pfstab' = [pfstab EXCEPT ![v] = IF IsFat(e) THEN v ELSE NULL]

\* A block for the volume of entry e; that of a FAT volume points to its entry.
TakeVolume(v, e) ==
  /\ volumes' = volumes \cup {v}
  /\ pfstab' = [pfstab EXCEPT ![v] = IF IsFat(e) THEN e.at ELSE NULL]

\* f_mount, whether it mounts or unmounts, begins with get_ldnumber, which
\* makes the entry current.
FatCurrent(e) == pCurFs' = IF IsFat(e) THEN e.at ELSE pCurFs

\* The mount ioctl.  When it fails late, FAT has taken a block for the volume
\* and keeps it; JDFS has given it back.
Mounted(tab, i, n) ==
  \/ \E v \in VolumeBlocks \ volumes :
       /\ TakeVolume(v, tab[i]) /\ FatCurrent(tab[i])
       /\ fstab' = [tab EXCEPT ![i].pfs = v] /\ Returns("FR_OK")
  \/ /\ fstab' = Dropped(tab, n) /\ Returns("FR_NOT_READY")
     /\ \/ UNCHANGED <<volumes, pfstab, pCurFs>>
        \/ /\ IsFat(tab[i]) /\ FatCurrent(tab[i])
           /\ \E v \in VolumeBlocks \ volumes : TakeVolume(v, tab[i])

\* The entry just added is found again unless its name has a tail.
mountfs(n, f) ==
  /\ UNCHANGED <<driverlist, blk_driverlist, filelist>>
  /\ IF get_fstabentry(fstab, n) # {}
     THEN UNCHANGED <<fstab, volumes, pfstab, pCurFs>> /\ Returns("FR_EXIST")
     ELSE \/ \E code \in Refusals(n, f) :
               UNCHANGED <<fstab, volumes, pfstab, pCurFs>> /\ Returns(code)
          \/ /\ Accepted(n, f)
             /\ \E b \in EntryBlocks \ Blocks(fstab) :
                  LET tab == Append(fstab, NewEntry(n, f, b))
                      found == get_fstabentry(tab, n)
                  IN  IF found # {} THEN Mounted(tab, First(found), n)
                      ELSE /\ fstab' = remove_fstabentry(tab, n)
                           /\ UNCHANGED <<volumes, pfstab, pCurFs>>
                           /\ Returns("FR_NO_FILESYSTEM")

\* The unmount ioctl of entry e frees its volume; only FAT clears the pointer
\* to it, and does nothing where that is clear already.
Unmounted(e) ==
  /\ volumes' = volumes \ {e.pfs}
  /\ pfstab' = [v \in VolumeBlocks |-> IF v = e.pfs THEN NULL ELSE pfstab[v]]
  /\ IF e.pfs = NULL THEN UNCHANGED pCurFs ELSE FatCurrent(e)

umountfs(n) ==
  /\ UNCHANGED <<driverlist, blk_driverlist, filelist>>
  /\ IF get_fstabentry(fstab, n) = {}
     THEN UNCHANGED <<fstab, volumes, pfstab, pCurFs>> /\ Returns("FR_INVALID_DRIVE")
     ELSE LET i == First(get_fstabentry(fstab, n))
              tab == IF IsFat(fstab[i]) THEN [fstab EXCEPT ![i].pfs = NULL] ELSE fstab
          IN  /\ Unmounted(fstab[i])
              /\ fstab' = remove_fstabentry(tab, n)
              /\ Returns("FR_OK")

\* _ll_open keeps the entry for as long as the file is open, if the driver
\* opens it.  FAT's first looks for the volume in the name, which makes the
\* entry current, unless there was no memory to come so far.
_ll_open(h, d) ==
  LET found == get_fstabentry(fstab, [dev |-> d, tail |-> FALSE])
      e == fstab[First(found)]
  IN
  /\ filelist[h] = NULL
  /\ UNCHANGED <<driverlist, blk_driverlist, fstab, volumes, pfstab>>
  /\ \/ /\ found # {} /\ FatCurrent(e) /\ Returns("fd")
        /\ filelist' = [filelist EXCEPT ![h] = e.at]
     \/ /\ UNCHANGED filelist /\ Returns("0")
        /\ UNCHANGED pCurFs \/ (found # {} /\ FatCurrent(e))

_ll_close(h) ==
  /\ filelist[h] # NULL
  /\ filelist' = [filelist EXCEPT ![h] = NULL] /\ Returns("EZERO")
  /\ UNCHANGED <<driverlist, blk_driverlist, fstab, volumes, pfstab, pCurFs>>

-----------------------------------------------------------------------------
(* Clients take away only what nobody uses, and call devices by their bare  *)
(* names to unmount them, because the code does not look.                   *)

MayTake(name) ==
  CARELESS \/ \A i \in 1 .. Len(fstab) : ElementAt(driverlist, fstab[i].pfsdrv).name # name
MayTakeBlk(name) ==
  CARELESS \/ \A i \in 1 .. Len(fstab) : ElementAt(blk_driverlist, fstab[i].pblkdrv).name # name
MayUmount(n) ==
  CARELESS \/ (~n.tail /\ \A i \in Entries(fstab, n), h \in Fds : filelist[h] # fstab[i].at)

Next ==
  \/ \E name \in FileSystems :
       register_driver(name) \/ (MayTake(name) /\ un_register_driver(name))
  \/ \E name \in BlkNames :
       register_blk_driver(name) \/ (MayTakeBlk(name) /\ un_register_blk_driver(name))
  \/ \E n \in Names :
       (\E f \in FileSystems : mountfs(n, f)) \/ (MayUmount(n) /\ umountfs(n))
  \/ \E h \in Fds : (\E d \in Devices : _ll_open(h, d)) \/ _ll_close(h)

Spec == Init /\ [][Next]_vars

-----------------------------------------------------------------------------
(* Properties *)

\* The lists hold what their structures declare (struct fs_driver, struct
\* blk_driver, struct fstabentry).
TypeOK ==
  /\ driverlist \in Seq(fs_driver) /\ blk_driverlist \in Seq(blk_driver)
  /\ fstab \in Seq(fstabentry)
  /\ filelist \in [Fds -> EntryBlocks \cup {NULL}]
  /\ volumes \subseteq VolumeBlocks
  /\ pfstab \in [VolumeBlocks -> EntryBlocks \cup {NULL}]
  /\ pCurFs \in EntryBlocks \cup {NULL}

\* What mounted volumes and open files point to has not been freed: a mounted
\* volume's two drivers are registered, its volume block is taken, by it alone,
\* and points back to its entry if it is FAT's; an open file's entry is in the
\* table (the pointers _ll_read, _ll_write and _ll_close follow without a test,
\* and FatFs from fs->pfstab to the block driver).  FatFs's pCurFs is not among
\* these pointers; see CurFsValid.
NothingDangles ==
  /\ \A i \in 1 .. Len(fstab) :
       /\ fstab[i].pfsdrv \in Blocks(driverlist)
       /\ fstab[i].pblkdrv \in Blocks(blk_driverlist)
       /\ fstab[i].pfs \in volumes
       /\ pfstab[fstab[i].pfs] = IF IsFat(fstab[i]) THEN fstab[i].at ELSE NULL
       /\ \A j \in 1 .. Len(fstab) : fstab[i].pfs = fstab[j].pfs => i = j
  /\ \A h \in Fds : filelist[h] # NULL => filelist[h] \in Blocks(fstab)

(* What comments of the code say and the model does not keep. *)

\* FatFs's current entry is in the table ("Pointer to current filesystem in
\* fstab", ff.c, pCurFs): find_volume follows it when a path names no volume.
CurFsValid == pCurFs # NULL => pCurFs \in Blocks(fstab)

\* Taking a block driver out of the list is answered with success
\* (un_register_blk_driver, "EZERO - success").
UnregisterAnswers ==
  [][Len(blk_driverlist') < Len(blk_driverlist) => ret' = "EZERO"]_vars

-----------------------------------------------------------------------------
(* Refinement *)

\* The file system a device is mounted as, and the files open on it.
EntryOf(d) == Entries(fstab, [dev |-> d, tail |-> FALSE])
MountedAs ==
  [d \in Devices |->
     IF EntryOf(d) = {} THEN NULL
     ELSE ElementAt(driverlist, fstab[First(EntryOf(d))].pfsdrv).name]
UsersOf ==
  [d \in Devices |->
     IF EntryOf(d) = {} THEN 0
     ELSE Cardinality({h \in Fds : filelist[h] = fstab[First(EntryOf(d))].at})]

M == INSTANCE MountMap
       WITH NONE <- NULL, mounted <- MountedAs, users <- UsersOf,
            done <- ret \in {"EZERO", "FR_OK", "fd"}

\* With its linear lists, names with tails and mounts that fail half way, the
\* table does what MountMap says (fs.c: mountfs, umountfs, "FR_OK - success").
IsMountMap == M!Spec

=============================================================================
