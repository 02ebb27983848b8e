------------------------------ MODULE JadosFS ------------------------------
(***************************************************************************)
(* The JADOS file system driver, fs/nkc/fs_nkc.c: one mounted volume, its  *)
(* track table (FAT) and directory (DIR) in memory and on the medium, the  *)
(* file control blocks of the open handles, and the driver's operations.   *)
(*                                                                         *)
(* The library is single-threaded: a client call runs to its end before    *)
(* the next one starts.  A call that writes the medium several times, or   *)
(* that loops over clusters, takes several steps here, so that power may   *)
(* fail between two of them and a loop may fail to end.  The track table   *)
(* (two sectors) and the directory (eighteen) are written by one call of   *)
(* the block driver each; a write that power or the medium cuts short      *)
(* leaves any of their sectors new and the others old.                     *)
(*                                                                         *)
(* What a cluster contains is abstracted to a tag <<slot, q>>: the q-th    *)
(* cluster of the file that lives in directory slot "slot".                *)
(***************************************************************************)
EXTENDS Integers, FiniteSets

CONSTANTS
  FAT_ENTRIES,          \* entries of the track table, entry 0 is FAT/DIR
  TRACK_SIZE,           \* clusters per track
  CLUSTERSIZE,          \* bytes per cluster
  NUM_JD_DIR_ENTRIES,   \* directory slots
  FAT_SECTOR,           \* entries of the track table in one sector
  DIR_SECTOR,           \* directory slots in one sector
  Names,                \* file names
  Fds,                  \* handles the layer above may hold at once
  OpenFlags,            \* the flag sets clients pass to open
  Requests,             \* byte counts clients pass to read and write
  SeekArgs,             \* pairs <<offset, whence>> clients pass to seek
  Calls,                \* the calls clients make
  MediaFails,           \* may the block driver report an error?
  MaxPos,               \* bound: clients keep file positions below this
  MaxCluster,           \* bound: clients leave a handle alone past this cluster
  NULL

FREE == 58853           \* 0xE5E5: a free track, a never used directory slot
NONE == 65535           \* 0xFFFF: no ancestor, no successor, a deleted slot
VALID == 0              \* id of a directory slot in use

Tracks == 1 .. FAT_ENTRIES - 1
Slots  == 0 .. NUM_JD_DIR_ENTRIES - 1
Addrs  == 0 .. FAT_ENTRIES * TRACK_SIZE - 1

ASSUME GeometryAssumption ==
  /\ FAT_ENTRIES \in 2 .. 256
  /\ TRACK_SIZE \in Nat \ {0}
  /\ CLUSTERSIZE \in Nat \ {0}
  /\ NUM_JD_DIR_ENTRIES \in Nat \ {0}
  /\ FAT_SECTOR \in Nat \ {0} /\ DIR_SECTOR \in Nat \ {0}

ASSUME ClientAssumption ==
  /\ NULL \notin Names
  /\ OpenFlags \subseteq SUBSET {"READ", "WRIT", "CREATE"}
  /\ Requests \subseteq Nat \ {0}
  /\ SeekArgs \subseteq Int \X {"SET", "CUR", "END"}
  /\ MediaFails \in BOOLEAN
  /\ MaxPos \in Nat /\ MaxCluster \in Nat

VARIABLES
  fat,    \* pFAT: the track table in memory, shared by all open files
  dir,    \* pDIR: the directory in memory, shared by all open files
  mfat,   \* the track table on the medium
  mdir,   \* the directory on the medium
  data,   \* what each cluster of the volume holds
  fcb,    \* the file control block behind each handle, or NULL
  call,   \* the call in progress
  ret,    \* what the last read, write or getfree reported
  size    \* history, read by properties only: where the furthest write through
          \* the handle that created the file of each slot ended

vars == <<fat, dir, mfat, mdir, data, fcb, call, ret, size>>

-----------------------------------------------------------------------------
(* Types *)

Tags   == Slots \X Int
Link   == Tracks \cup {FREE, NONE}
FATentry == [ancestor : Link, successor : Link]
jddir  == [id : {VALID, FREE, NONE}, name : Names \cup {NULL},
           starttrack : Tracks \cup {FREE}, endcluster : Nat, length : Nat]
jdfcb  == [name : Names, flags : SUBSET {"READ", "WRIT", "CREATE"},
           dir_index : Slots, starttrack : Tracks,
           endcluster : Nat, length : Nat,
           curtrack : Tracks, curcluster : Nat, lasttrack : Tracks \cup {0},
           crpos : Int, crcluster : Nat, pos : Int,
           omode : {"E4", "E5"}, eof : BOOLEAN, buf : Tags \cup {NULL}]

ASSUME NullAssumption == NULL \notin jdfcb

Phases == {"idle", "read", "write", "closeFat", "closeDir",
           "removeFat", "removeDir", "renameDir"}
OnHandle == {"read", "write", "closeFat", "closeDir"}

Idle == [op |-> "idle", fd |-> NULL, count |-> 0, bp |-> 0]
NoReturn == [op |-> "none", want |-> 0, moved |-> 0, value |-> 0]
Returned(op, want, moved, value) ==
  [op |-> op, want |-> want, moved |-> moved, value |-> value]

Media == IF MediaFails THEN BOOLEAN ELSE {TRUE}

-----------------------------------------------------------------------------
(* The track table *)

Least(S) == CHOOSE x \in S : \A y \in S : x <= y

\* Mutant: a track that ends its chain counts as free.
FreeOrLast(ft) == {t \in Tracks : ft[t].successor \in {FREE, NONE}}

FreeTracks(ft) == {t \in Tracks : ft[t].successor = FREE}

\* Mutant: 0xFFFF is taken for a track.
LinkedUnlessFree(t) == t # FREE

Linked(t) == t \in Tracks

\* The tracks a walk along the successors meets, from track t on: the least
\* set that holds t and is closed under successor.
Chain(ft, t) ==
  {u \in Tracks :
     \A S \in SUBSET Tracks :
       (t \in S /\ \A v \in S : Linked(ft[v].successor) => ft[v].successor \in S)
         => u \in S}

get_next_track(ft, f) == ft[f.curtrack].successor

\* Mutants: the new track is linked behind the first track of the file; the
\* ancestor is not told its successor.
alloc_track_at_start(ft, f) ==
  LET i == Least(FreeTracks(ft)) IN
  [fat |-> [ft EXCEPT ![i] = [ancestor |-> f.starttrack, successor |-> NONE],
                      ![f.starttrack].successor = i],
   fcb |-> [f EXCEPT !.curtrack = i, !.lasttrack = i,
                     !.curcluster = 0, !.endcluster = 0]]
alloc_unlinked_track(ft, f) ==
  LET i == Least(FreeTracks(ft)) IN
  [fat |-> [ft EXCEPT ![i] = [ancestor |-> f.curtrack, successor |-> NONE]],
   fcb |-> [f EXCEPT !.curtrack = i, !.lasttrack = i,
                     !.curcluster = 0, !.endcluster = 0]]

alloc_new_track(ft, f) ==
  LET i == Least(FreeTracks(ft)) IN
  [fat |-> [ft EXCEPT ![i] = [ancestor |-> f.curtrack, successor |-> NONE],
                      ![f.curtrack].successor = i],
   fcb |-> [f EXCEPT !.curtrack = i, !.lasttrack = i,
                     !.curcluster = 0, !.endcluster = 0]]

-----------------------------------------------------------------------------
(* The directory *)

Valid(d) == {s \in Slots : d[s].id = VALID}
find_file(d, n) == {s \in Valid(d) : d[s].name = n}
Vacant(d) == {s \in Slots : d[s].id # VALID}

update_dir(d, f) ==
  [d EXCEPT ![f.dir_index] =
     [id |-> VALID, name |-> f.name, starttrack |-> f.starttrack,
      endcluster |-> f.endcluster, length |-> f.length]]

-----------------------------------------------------------------------------
(* Clusters.  Each operator returns the file control block, the track      *)
(* table and the outcome; the caller stores them.                          *)

Address(f) == f.curtrack * TRACK_SIZE + f.curcluster

\* The switch to the next track that write_cluster makes when the cluster
\* to write is past the end of the current track.
EnterTrack(ft, f) ==
  LET next == get_next_track(ft, f)
      moved(g) == [g EXCEPT !.curcluster = 0, !.crcluster = @ + 1,
                            !.crpos = 0]
  IN CASE f.curcluster # TRACK_SIZE ->
            [res |-> "ok", fat |-> ft, fcb |-> f]
       [] f.curcluster = TRACK_SIZE /\ Linked(next) ->
            [res |-> "ok", fat |-> ft, fcb |-> moved([f EXCEPT !.curtrack = next])]
       [] f.curcluster = TRACK_SIZE /\ ~Linked(next) /\ FreeTracks(ft) = {} ->
            [res |-> "full", fat |-> ft, fcb |-> [f EXCEPT !.eof = TRUE]]
       [] OTHER ->
            LET a == alloc_new_track(ft, f) IN
            [res |-> "ok", fat |-> a.fat,
             fcb |-> moved([a.fcb EXCEPT !.endcluster = 0, !.eof = TRUE])]

\* Mutant: the address is computed before the switch to the next track.
write_cluster_behind(ft, f, ok) ==
  LET e == EnterTrack(ft, f) IN
  [res |-> IF e.res = "full" THEN "full" ELSE IF ok THEN "ok" ELSE "error",
   fat |-> e.fat, fcb |-> e.fcb,
   written |-> IF e.res = "ok" /\ ok THEN {Address(f)} ELSE {}]

\* ok is the block driver's answer; "written" is the address the medium took.
nkcfs_write_cluster(ft, f, ok) ==
  LET e == EnterTrack(ft, f) IN
  [res |-> IF e.res = "full" THEN "full" ELSE IF ok THEN "ok" ELSE "error",
   fat |-> e.fat, fcb |-> e.fcb,
   written |-> IF e.res = "ok" /\ ok THEN {Address(e.fcb)} ELSE {}]

\* Mutant: the first cluster past the end is not counted.
alloc_uncounted_cluster(f) ==
  LET g == [f EXCEPT !.curcluster = @ + 1, !.crcluster = @ + 1, !.crpos = 0]
  IN IF g.curtrack = g.lasttrack /\ g.curcluster > g.endcluster + 1
     THEN [g EXCEPT !.endcluster = g.curcluster, !.length = @ + 1]
     ELSE g

alloc_new_cluster(f) ==
  LET g == [f EXCEPT !.curcluster = @ + 1, !.crcluster = @ + 1, !.crpos = 0]
  IN IF g.curtrack = g.lasttrack /\ g.curcluster > g.endcluster
     THEN [g EXCEPT !.endcluster = g.curcluster, !.length = @ + 1]
     ELSE g

\* The position read_cluster moves to, or the reason it does not move.
NextCluster(ft, f) ==
  LET next == get_next_track(ft, f)
      atEnd == [res |-> "eof", fcb |-> [f EXCEPT !.eof = TRUE]]
  IN CASE f.eof -> [res |-> "eof", fcb |-> f]
       [] ~f.eof /\ f.curcluster = TRACK_SIZE - 1 ->
            IF f.curtrack = f.lasttrack THEN atEnd
            ELSE IF ~Linked(next)
            THEN [res |-> "eof",
                  fcb |-> [f EXCEPT !.lasttrack = f.curtrack,
                                    !.endcluster = f.curcluster, !.eof = TRUE]]
            ELSE [res |-> "ok",
                  fcb |-> [f EXCEPT !.curtrack = next, !.curcluster = 0,
                                    !.crcluster = @ + 1, !.crpos = 0]]
       [] OTHER ->
            IF f.curtrack = f.lasttrack /\ f.curcluster = f.endcluster THEN atEnd
            ELSE [res |-> "ok",
                  fcb |-> [f EXCEPT !.curcluster = @ + 1,
                                    !.crcluster = @ + 1, !.crpos = 0]]

Held(dt, f) == IF Address(f) \in Addrs THEN dt[Address(f)] ELSE NULL

\* Mutant: the cluster is fetched before the handle moves on.
read_cluster_behind(ft, dt, f, ok) ==
  LET n == NextCluster(ft, f) IN
  CASE n.res = "eof" -> n
    [] n.res = "ok" /\ ok ->
         [res |-> "ok", fcb |-> [n.fcb EXCEPT !.buf = Held(dt, f)]]
    [] OTHER -> [res |-> "error", fcb |-> n.fcb]

nkcfs_read_cluster(ft, dt, f, ok) ==
  LET n == NextCluster(ft, f) IN
  CASE n.res = "eof" -> n
    [] n.res = "ok" /\ ok ->
         [res |-> "ok", fcb |-> [n.fcb EXCEPT !.buf = Held(dt, n.fcb)]]
    [] OTHER -> [res |-> "error", fcb |-> n.fcb]

-----------------------------------------------------------------------------
(* Opening.  _ll_open (fs/fs.c) refuses to create a file that is open and   *)
(* turns a further open of it into a read-only one; every refusal leaves    *)
(* the state as it was and is not a step here.                              *)

Init ==
  /\ fat  = [t \in 0 .. FAT_ENTRIES - 1 |-> [ancestor |-> FREE, successor |-> FREE]]
  /\ dir  = [s \in Slots |-> [id |-> FREE, name |-> NULL, starttrack |-> FREE,
                              endcluster |-> 0, length |-> 0]]
  /\ mfat = fat
  /\ mdir = dir
  /\ data = [a \in Addrs |-> NULL]
  /\ fcb  = [h \in Fds |-> NULL]
  /\ call = Idle
  /\ ret  = NoReturn
  /\ size = [s \in Slots |-> 0]

Ready(c) == c \in Calls /\ call.op = "idle"
IsOpen(h) == fcb[h] # NULL
OpenOn(n) == {h \in Fds : IsOpen(h) /\ fcb[h].name = n}

Granted(n, flags) ==
  IF OpenOn(n) = {} THEN flags ELSE (flags \ {"WRIT"}) \cup {"READ"}

\* flags are those of the stream that will use the handle: neither _ll_read
\* nor _ll_write asks the handle what it was granted.
OpenedFcb(n, flags, s, ok) ==
  LET e == dir[s]
      f == [name |-> n, flags |-> flags, dir_index |-> s,
            starttrack |-> e.starttrack,
            endcluster |-> (e.endcluster + 65535) % 65536,
            length |-> e.length, curtrack |-> e.starttrack, curcluster |-> 0,
            lasttrack |-> 0, crpos |-> 0, crcluster |-> 0, pos |-> 0,
            omode |-> IF "READ" \in Granted(n, flags) THEN "E4" ELSE "E5",
            eof |-> FALSE, buf |-> NULL]
  IN [f EXCEPT !.buf = IF ok THEN Held(data, f) ELSE NULL]

OpenExisting(h, n, flags) ==
  /\ Ready("open") /\ ~IsOpen(h)
  /\ find_file(dir, n) # {}
  /\ "CREATE" \notin flags
  /\ \E ok \in Media :
       fcb' = [fcb EXCEPT ![h] = OpenedFcb(n, flags, Least(find_file(dir, n)), ok)]
  /\ ret' = NoReturn
  /\ UNCHANGED <<fat, dir, mfat, mdir, data, call, size>>

CreatedFcb(n, flags, t, s) ==
  [name |-> n, flags |-> flags, dir_index |-> s, starttrack |-> t,
   endcluster |-> 0, length |-> 1, curtrack |-> t, curcluster |-> 0,
   lasttrack |-> t, crpos |-> 0, crcluster |-> 0, pos |-> 0,
   omode |-> "E5", eof |-> TRUE, buf |-> NULL]

\* nkcfs_open of a new name: alloc_new_file takes the first free track and
\* the first vacant slot, in memory only.
OpenNew(h, n, flags) ==
  /\ Ready("open") /\ ~IsOpen(h)
  /\ find_file(dir, n) = {}
  /\ "READ" \notin flags
  /\ {"CREATE", "WRIT"} \cap flags # {}
  /\ FreeTracks(fat) # {} /\ Vacant(dir) # {}
  /\ LET t == Least(FreeTracks(fat))
         f == CreatedFcb(n, flags, t, Least(Vacant(dir)))
     IN /\ fat' = [fat EXCEPT ![t] = [ancestor |-> NONE, successor |-> NONE]]
        /\ dir' = update_dir(dir, f)
        /\ fcb' = [fcb EXCEPT ![h] = f]
  /\ size' = [size EXCEPT ![Least(Vacant(dir))] = 0]
  /\ ret' = NoReturn
  /\ UNCHANGED <<mfat, mdir, data, call>>

-----------------------------------------------------------------------------
(* Writing and reading: one step per round of the driver's while loop.      *)

Smaller(m, n) == IF m < n THEN m ELSE n
Larger(m, n) == IF m < n THEN n ELSE m
Stored(written, tag) == [a \in Addrs |-> IF a \in written THEN tag ELSE data[a]]

InBounds(h, n) == fcb[h].pos + n <= MaxPos /\ fcb[h].curcluster <= MaxCluster

Begin(op, h, n) == [op |-> op, fd |-> h, count |-> n, bp |-> 0]

Write(h, n) ==
  /\ Ready("write") /\ IsOpen(h)
  /\ "WRIT" \in fcb[h].flags
  /\ InBounds(h, n)
  /\ call' = Begin("write", h, n)
  /\ ret' = NoReturn
  /\ UNCHANGED <<fat, dir, mfat, mdir, data, fcb, size>>

\* n bytes of the caller go to the cluster buffer.
Fill(f, n) ==
  [f EXCEPT !.crpos = @ + n, !.pos = @ + n,
            !.buf = IF n > 0 /\ f.crpos = 0
                    THEN <<f.dir_index, f.pos \div CLUSTERSIZE>> ELSE @]

\* write_cluster's refusals (disk full, device error) are none of the three
\* results the switch in nkcfs_write knows: the loop goes on.
Flushed(f, ok) ==
  IF f.crpos = CLUSTERSIZE
  THEN LET w == nkcfs_write_cluster(fat, f, ok) IN
       IF w.res = "ok" THEN [w EXCEPT !.fcb = alloc_new_cluster(w.fcb)] ELSE w
  ELSE [res |-> "ok", fat |-> fat, fcb |-> f, written |-> {}]

WriteStep ==
  /\ call.op = "write"
  /\ \E ok \in Media :
       LET h == call.fd
           w == Flushed(fcb[h], ok)
           n == Smaller(call.count, CLUSTERSIZE - w.fcb.crpos)
           ends == n = call.count
       IN /\ fat'  = w.fat
          /\ data' = Stored(w.written, fcb[h].buf)
          /\ fcb'  = [fcb EXCEPT ![h] = Fill(w.fcb, n)]
          /\ call' = IF ends THEN Idle
                     ELSE [call EXCEPT !.count = @ - n, !.bp = @ + n]
          /\ ret'  = IF ends
                     THEN Returned("write", call.bp + n, call.bp + n, call.bp + n)
                     ELSE NoReturn
          /\ size' = IF fcb[h].omode = "E5"
                     THEN [size EXCEPT ![fcb[h].dir_index] = Larger(@, fcb[h].pos + n)]
                     ELSE size
  /\ UNCHANGED <<dir, mfat, mdir>>

Read(h, n) ==
  /\ Ready("read") /\ IsOpen(h)
  /\ "READ" \in fcb[h].flags
  /\ InBounds(h, n)
  /\ IF fcb[h].eof
     THEN call' = call /\ ret' = Returned("read", n, 0, 0)
     ELSE call' = Begin("read", h, n) /\ ret' = NoReturn
  /\ UNCHANGED <<fat, dir, mfat, mdir, data, fcb, size>>

\* Ends the read with f as the handle's state, "moved" bytes in the caller's
\* buffer and "value" as the result.
ReadEnds(f, moved, value) ==
  /\ fcb' = [fcb EXCEPT ![call.fd] = f]
  /\ call' = Idle
  /\ ret' = Returned("read", call.bp + call.count, moved, value)

ReadStep ==
  /\ call.op = "read"
  /\ LET h == call.fd
         n == Smaller(call.count, CLUSTERSIZE - fcb[h].crpos)
         f == [fcb[h] EXCEPT !.crpos = @ + n, !.pos = @ + n]
         moved == call.bp + n
     IN \/ n = call.count /\ ReadEnds(f, moved, moved)
        \/ n # call.count /\ f.crcluster + 1 = f.length /\ ReadEnds(f, moved, 0)
        \/ /\ n # call.count /\ f.crcluster + 1 # f.length
           /\ \E ok \in Media :
                LET r == nkcfs_read_cluster(fat, data, f, ok) IN
                \/ /\ r.res = "ok"
                   /\ fcb' = [fcb EXCEPT ![h] = r.fcb]
                   /\ call' = [call EXCEPT !.count = @ - n, !.bp = moved]
                   /\ ret' = NoReturn
                \/ r.res = "eof" /\ ReadEnds([r.fcb EXCEPT !.eof = TRUE], moved, moved)
                \/ r.res = "error" /\ ReadEnds(r.fcb, moved, moved)
  /\ UNCHANGED <<fat, dir, mfat, mdir, data, size>>

-----------------------------------------------------------------------------
(* Seeking.  C's div truncates toward zero.  The switch in nkcfs_seek reads *)
(* a local variable nothing has assigned: any of its arms may run.          *)

Target(f, offset, whence) ==
  CASE whence = "SET" -> offset
    [] whence = "CUR" -> offset + f.pos
    [] whence = "END" -> f.length * CLUSTERSIZE + offset - 1

Quot(p) == IF p < 0 /\ p > -CLUSTERSIZE THEN 0 ELSE p \div CLUSTERSIZE
Rem(p)  == IF p < 0 THEN p ELSE p % CLUSTERSIZE

Positioned(f, p) ==
  [f EXCEPT !.pos = p, !.crpos = Rem(p), !.crcluster = Quot(p) + 1]

Sought(f, p, ok) ==
  IF Quot(p) > f.length THEN {[f EXCEPT !.eof = TRUE]}
  ELSE IF Quot(p) = f.length THEN {Positioned(f, p)}
  ELSE { Positioned(nkcfs_read_cluster(fat, data, f, ok).fcb, p),
         Positioned([f EXCEPT !.eof = TRUE], p),
         f,
         Positioned(f, p) }

Seek(h, offset, whence) ==
  /\ Ready("seek") /\ IsOpen(h)
  /\ LET p == Target(fcb[h], offset, whence) IN
     /\ p <= MaxPos /\ InBounds(h, 0)
     /\ Quot(p) >= 0
     /\ \E ok \in Media : \E f \in Sought(fcb[h], p, ok) :
          fcb' = [fcb EXCEPT ![h] = f]
  /\ ret' = NoReturn
  /\ UNCHANGED <<fat, dir, mfat, mdir, data, call, size>>

-----------------------------------------------------------------------------
(* Closing.  A handle opened for reading is just freed.  One opened for     *)
(* writing flushes its buffer, updates its slot and then writes the track   *)
(* table and the directory to the medium, whatever the driver answers.      *)

OneIndexed(f) == [f EXCEPT !.endcluster = (@ + 1) % 65536]

CloseReader(h) ==
  /\ Ready("close") /\ IsOpen(h)
  /\ fcb[h].omode = "E4"
  /\ fcb' = [fcb EXCEPT ![h] = NULL]
  /\ ret' = NoReturn
  /\ UNCHANGED <<fat, dir, mfat, mdir, data, call, size>>

CloseWriter(h) ==
  /\ Ready("close") /\ IsOpen(h)
  /\ fcb[h].omode = "E5"
  /\ \E ok \in Media :
       LET f == OneIndexed(fcb[h])
           w == IF f.crpos = 0
                THEN [fat |-> fat, fcb |-> f, written |-> {}]
                ELSE nkcfs_write_cluster(fat, f, ok)
       IN /\ fat'  = w.fat
          /\ data' = Stored(w.written, f.buf)
          /\ dir'  = update_dir(dir, w.fcb)
          /\ fcb'  = [fcb EXCEPT ![h] = w.fcb]
  /\ call' = Begin("closeFat", h, 0)
  /\ ret' = NoReturn
  /\ UNCHANGED <<mfat, mdir, size>>

\* Mutant: only the directory is written back.
SaveFatForgotten(from, to) ==
  /\ call.op = from
  /\ call' = [call EXCEPT !.op = to]
  /\ UNCHANGED <<fat, dir, mfat, mdir, data, fcb, ret, size>>

\* What a table may look like on the medium after a write of it that did not
\* come to its end: every sector is the old one or the new one.
Torn(old, new, sector) ==
  { [i \in DOMAIN old |-> IF i \div sector \in done THEN new[i] ELSE old[i]] :
      done \in SUBSET {i \div sector : i \in DOMAIN old} }

\* The write of the track table; the caller does not look at its outcome.
SaveFat(from, to) ==
  /\ call.op = from
  /\ \/ mfat' = fat
     \/ MediaFails /\ mfat' \in Torn(mfat, fat, FAT_SECTOR)
  /\ call' = [call EXCEPT !.op = to]
  /\ UNCHANGED <<fat, dir, mdir, data, fcb, ret, size>>

\* The write of the directory, the last act of a call.
SaveDir(from) ==
  /\ call.op = from
  /\ \/ mdir' = dir
     \/ MediaFails /\ mdir' \in Torn(mdir, dir, DIR_SECTOR)
  /\ call' = Idle
  /\ UNCHANGED <<fat, dir, mfat, data, ret, size>>

CloseFat == SaveFat("closeFat", "closeDir")
CloseDir == SaveDir("closeDir") /\ fcb' = [fcb EXCEPT ![call.fd] = NULL]

-----------------------------------------------------------------------------
(* Removing and renaming.  _ll_remove and _ll_rename refuse a name that is  *)
(* open under the spelling they are given.                                  *)

\* Mutants: only the first track of the chain is given back; the file may be
\* open.
RemoveFirstTrack(n) ==
  /\ Ready("remove") /\ OpenOn(n) = {}
  /\ find_file(dir, n) # {}
  /\ LET s == Least(find_file(dir, n)) IN
     /\ fat' = [fat EXCEPT ![dir[s].starttrack] = [ancestor |-> FREE, successor |-> FREE]]
     /\ dir' = [dir EXCEPT ![s].id = NONE]
  /\ call' = [Idle EXCEPT !.op = "removeFat"]
  /\ ret' = NoReturn
  /\ UNCHANGED <<mfat, mdir, data, fcb, size>>
RemoveOpen(n) ==
  /\ Ready("remove")
  /\ find_file(dir, n) # {}
  /\ LET s == Least(find_file(dir, n)) IN
     /\ fat' = [t \in DOMAIN fat |->
                  IF t \in Chain(fat, dir[s].starttrack)
                  THEN [ancestor |-> FREE, successor |-> FREE] ELSE fat[t]]
     /\ dir' = [dir EXCEPT ![s].id = NONE]
  /\ call' = [Idle EXCEPT !.op = "removeFat"]
  /\ ret' = NoReturn
  /\ UNCHANGED <<mfat, mdir, data, fcb, size>>

Remove(n) ==
  /\ Ready("remove") /\ OpenOn(n) = {}
  /\ find_file(dir, n) # {}
  /\ LET s == Least(find_file(dir, n)) IN
     /\ fat' = [t \in DOMAIN fat |->
                  IF t \in Chain(fat, dir[s].starttrack)
                  THEN [ancestor |-> FREE, successor |-> FREE] ELSE fat[t]]
     /\ dir' = [dir EXCEPT ![s].id = NONE]
  /\ call' = [Idle EXCEPT !.op = "removeFat"]
  /\ ret' = NoReturn
  /\ UNCHANGED <<mfat, mdir, data, fcb, size>>

RemoveFat == SaveFat("removeFat", "removeDir")
RemoveDir == SaveDir("removeDir") /\ fcb' = fcb

\* Mutant: the new name is not looked up.
RenameOver(old, new) ==
  /\ Ready("rename") /\ OpenOn(old) = {}
  /\ find_file(dir, old) # {}
  /\ dir' = [dir EXCEPT ![Least(find_file(dir, old))].name = new]
  /\ call' = [Idle EXCEPT !.op = "renameDir"]
  /\ ret' = NoReturn
  /\ UNCHANGED <<fat, mfat, mdir, data, fcb, size>>

Rename(old, new) ==
  /\ Ready("rename") /\ OpenOn(old) = {}
  /\ find_file(dir, old) # {}
  /\ find_file(dir, new) = {}
  /\ dir' = [dir EXCEPT ![Least(find_file(dir, old))].name = new]
  /\ call' = [Idle EXCEPT !.op = "renameDir"]
  /\ ret' = NoReturn
  /\ UNCHANGED <<fat, mfat, mdir, data, fcb, size>>

RenameDir == SaveDir("renameDir") /\ fcb' = fcb

-----------------------------------------------------------------------------
(* Asking for free space, and mounting again.                               *)

nkcfs_getfree ==
  /\ Ready("getfree")
  /\ ret' = Returned("getfree", 0, 0,
                     Cardinality({t \in DOMAIN mfat : mfat[t].ancestor = FREE}))
  /\ UNCHANGED <<fat, dir, mfat, mdir, data, fcb, call, size>>

\* The tables are read from the medium.
Mount ==
  /\ fat' = mfat' /\ dir' = mdir'
  /\ ret' = NoReturn
  /\ UNCHANGED <<data, size>>

\* Unmount and mount again, no handle being open.
Remount ==
  /\ Ready("remount") /\ \A h \in Fds : ~IsOpen(h)
  /\ UNCHANGED <<mfat, mdir, fcb, call>>
  /\ Mount

\* What of the tables is on the medium when power fails now: the one a call is
\* about to write may be written in part.
FatsLeft == IF call.op \in {"closeFat", "removeFat"}
            THEN Torn(mfat, fat, FAT_SECTOR) ELSE {mfat}
DirsLeft == IF call.op \in {"closeDir", "removeDir", "renameDir"}
            THEN Torn(mdir, dir, DIR_SECTOR) ELSE {mdir}

\* Power fails, at any point of any call; the machine comes up and mounts.
PowerFail ==
  /\ "powerfail" \in Calls
  /\ mfat' \in FatsLeft /\ mdir' \in DirsLeft
  /\ fcb' = [h \in Fds |-> NULL] /\ call' = Idle
  /\ Mount

-----------------------------------------------------------------------------
OpenCall ==
  \E h \in Fds, n \in Names, flags \in OpenFlags :
    OpenExisting(h, n, flags) \/ OpenNew(h, n, flags)

WriteCall == \E h \in Fds, n \in Requests : Write(h, n)
ReadCall  == \E h \in Fds, n \in Requests : Read(h, n)
SeekCall  == \E h \in Fds, a \in SeekArgs : Seek(h, a[1], a[2])
CloseCall == \E h \in Fds : CloseReader(h) \/ CloseWriter(h)
RemoveCall == \E n \in Names : Remove(n)
RenameCall == \E old, new \in Names : Rename(old, new)

\* What the client starts, and what a started call does by itself.
Client ==
  \/ OpenCall \/ WriteCall \/ ReadCall \/ SeekCall \/ CloseCall
  \/ RemoveCall \/ RenameCall \/ nkcfs_getfree \/ Remount

Driver ==
  \/ WriteStep \/ ReadStep
  \/ CloseFat \/ CloseDir \/ RemoveFat \/ RemoveDir \/ RenameDir

Next == Client \/ Driver \/ PowerFail

Spec == Init /\ [][Next]_vars

\* The processor runs on: a call that has work left goes on with it.
FairSpec == Spec /\ WF_vars(Driver)

=============================================================================
