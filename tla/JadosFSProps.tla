---------------------------- MODULE JadosFSProps ----------------------------
(* The properties of the JADOS volume that JadosFS models.                  *)
EXTENDS JadosFS

\* Slots in use name the first track of their file.
StartsTyped(d) == \A s \in Valid(d) : d[s].starttrack \in Tracks

\* Every variable keeps its type, the slots in use name a track of the volume
\* (what open, read and remove index the track table with), and a call that
\* works on a handle has one (fs_nkc.h: FATentry, struct jddir, struct jdfcb).
TypeOK ==
  /\ fat  \in [0 .. FAT_ENTRIES - 1 -> FATentry]
  /\ dir  \in [Slots -> jddir] /\ StartsTyped(dir)
  /\ mfat \in [0 .. FAT_ENTRIES - 1 -> FATentry]
  /\ mdir \in [Slots -> jddir] /\ StartsTyped(mdir)
  /\ data \in [Addrs -> Tags \cup {NULL}]
  /\ fcb  \in [Fds -> jdfcb \cup {NULL}]
  /\ call \in [op : Phases, fd : Fds \cup {NULL}, count : Nat, bp : Int]
  /\ call.op \in OnHandle => call.fd \in Fds /\ fcb[call.fd] \in jdfcb
  /\ size \in [Slots -> Int]

-----------------------------------------------------------------------------
(* The shape of the volume *)

\* Successor and ancestor mirror each other and a track is free in both or
\* in neither, whatever files grow, vanish and reuse its tracks.
TracksMirror(ft) ==
  \A t \in Tracks :
    /\ ft[t].ancestor = FREE <=> ft[t].successor = FREE
    /\ Linked(ft[t].successor) => ft[ft[t].successor].ancestor = t
    /\ Linked(ft[t].ancestor)  => ft[ft[t].ancestor].successor = t

\* Every file starts on an allocated track that follows no other track.
FilesStart(ft, d) ==
  \A s \in Valid(d) :
    /\ d[s].starttrack \in Tracks
    /\ ft[d[s].starttrack].ancestor = NONE

\* No two files start on the same track.
StartsDiffer(d) ==
  \A s, r \in Valid(d) : d[s].starttrack = d[r].starttrack => s = r

\* The handle's file is in its slot, under its name, and the handle stands on
\* an allocated track of it.
Anchored(ft, d, f) ==
  /\ d[f.dir_index].id = VALID
  /\ d[f.dir_index].name = f.name
  /\ d[f.dir_index].starttrack = f.starttrack
  /\ f.curtrack \in Chain(ft, f.starttrack)
  /\ ft[f.curtrack].successor # FREE

\* No operation takes the file from under an open handle (_ll_remove and
\* _ll_rename refuse files that are open, fs/fs.c).
HandlesAnchored == \A h \in Fds : IsOpen(h) => Anchored(fat, dir, fcb[h])

\* The track table and the directory of the mounted volume agree.
VolumeConsistent ==
  /\ TracksMirror(fat)
  /\ FilesStart(fat, dir)
  /\ StartsDiffer(dir)

\* No track belongs to two files: no sequence of opens, writes, closes,
\* removes, renames and remounts cross-links two chains.
Disjoint(ft, d) ==
  \A s, r \in Valid(d) : s # r =>
    Chain(ft, d[s].starttrack) \cap Chain(ft, d[r].starttrack) = {}

ChainsDisjoint == Disjoint(fat, dir)

\* Every allocated track belongs to some file: remove gives back the whole
\* chain and nothing else takes a track and forgets it.
NoLostTracks ==
  \A t \in Tracks : fat[t].successor # FREE =>
    \E s \in Valid(dir) : t \in Chain(fat, dir[s].starttrack)

\* A name stands for one file at most (find_file takes the first match).
NamesUnique ==
  \A s, r \in Valid(dir) : dir[s].name = dir[r].name => s = r

\* The tracks of a file hold all the clusters its directory entry counts.
LengthCovered ==
  \A s \in Valid(dir) :
    dir[s].length <= TRACK_SIZE * Cardinality(Chain(fat, dir[s].starttrack))

-----------------------------------------------------------------------------
(* What files contain *)

\* The k-th track of the chain that starts at t.
KthTrack(ft, t) ==
  LET track[k \in 0 .. FAT_ENTRIES] ==
        IF k = 0 THEN t
        ELSE IF Linked(track[k - 1]) THEN ft[track[k - 1]].successor ELSE NONE
  IN track

\* No handle open on slot s may write.
Settled(s) ==
  \A h \in Fds : IsOpen(h) /\ fcb[h].dir_index = s => "WRIT" \notin fcb[h].flags

Clusters(bytes) == (bytes + CLUSTERSIZE - 1) \div CLUSTERSIZE

\* The directory counts the clusters a file really has: as many as its bytes
\* need, and one for a file nothing was written to.
LengthExact ==
  \A s \in Valid(dir) : Settled(s) =>
    dir[s].length = IF size[s] = 0 THEN 1 ELSE Clusters(size[s])

\* A file nobody writes holds, cluster for cluster along its chain, what was
\* written to it, however the tracks were taken and given back before.
FilesHoldWhatWasWritten ==
  \A s \in Valid(dir) : Settled(s) /\ size[s] > 0 =>
    \A k \in 0 .. dir[s].length - 1 :
      LET t == KthTrack(fat, dir[s].starttrack)[k \div TRACK_SIZE] IN
      Linked(t) /\ data[(t * TRACK_SIZE) + (k % TRACK_SIZE)] = <<s, k>>

\* Handle h was opened on the directory entry as it stands, not on an earlier
\* one a writer has replaced since.
Current(h) ==
  LET e == dir[fcb[h].dir_index] IN
  /\ fcb[h].length = e.length
  /\ fcb[h].endcluster = (e.endcluster + 65535) % 65536

\* The buffer of a reading handle holds the cluster its position is in: what
\* read copies next is what belongs there.
BufferHoldsPosition ==
  \A h \in Fds :
    /\ IsOpen(h) /\ call.op = "idle"
    /\ fcb[h].omode = "E4"
    /\ Settled(fcb[h].dir_index) /\ size[fcb[h].dir_index] > 0
    /\ Current(h)
    => fcb[h].buf = <<fcb[h].dir_index, (fcb[h].pos - fcb[h].crpos) \div CLUSTERSIZE>>

\* While a file keeps its slot its chain only grows: nobody else's call takes
\* a track out of it.
ChainsOnlyGrow ==
  [][ \A s \in Valid(dir) :
        s \in Valid(dir') /\ dir[s].starttrack = dir'[s].starttrack
          => Chain(fat, dir[s].starttrack) \subseteq Chain(fat', dir[s].starttrack)
    ]_<<fat, dir>>

-----------------------------------------------------------------------------
(* Power failure *)

\* Whatever power cuts short except the write of the track table, the mounted
\* volume is consistent: every entry on the medium has a chain of its own on
\* the medium.  (A track table of which one sector is new and one old has
\* successors without their ancestors.)
MediumConsistent ==
  /\ TracksMirror(mfat)
  /\ FilesStart(mfat, mdir)
  /\ StartsDiffer(mdir)

\* No write of a table, whole or torn, and no power failure takes a file that
\* is on the medium from it, or a track out of its chain there, unless the
\* file is removed.
SavedChainsSurvive ==
  [][ \A s \in Valid(mdir) :
        /\ s \in Valid(mdir') /\ mdir'[s].starttrack = mdir[s].starttrack
        /\ Chain(mfat, mdir[s].starttrack) \subseteq Chain(mfat', mdir[s].starttrack)
    ]_<<mfat, mdir>>

-----------------------------------------------------------------------------
(* What a close leaves behind *)

\* Closing a handle that was opened for writing leaves the medium with the
\* track table and directory of memory (nkcfs_close: "write back FAT and DIR
\* if file was open for writing").
CloseWritesBack ==
  [][ \A h \in Fds :
        IsOpen(h) /\ fcb'[h] = NULL /\ "WRIT" \in fcb[h].flags
          => mfat' = fat' /\ mdir' = dir'
    ]_<<fat, dir, mfat, mdir, fcb>>

\* With no file open for writing nothing waits to be written back: the medium
\* has the track table and directory of memory, so that power may fail or the
\* volume be mounted again without a loss (close, remove and rename each write
\* the tables back).
SavedAtRest ==
  call.op = "idle" /\ (\A h \in Fds : IsOpen(h) => "WRIT" \notin fcb[h].flags)
    => mfat = fat /\ mdir = dir

-----------------------------------------------------------------------------
(* Progress *)

\* A write call comes back to its caller.
WritesReturn == call.op = "write" ~> call.op = "idle"

=============================================================================
