---------------------------- MODULE JadosFSProofs ----------------------------
(* Theorems about the JADOS volume, for every geometry, every set of names  *)
(* and handles and every request size: its types, and that the track table  *)
(* and the directory of a mounted volume stay consistent, whatever the      *)
(* clients do and whatever the medium answers.                              *)
(*                                                                          *)
(* The argument is one inductive invariant, VolumeInv.  A step of an open   *)
(* handle stays on its chain or appends a free track to it (Moves);         *)
(* creating a file starts a chain on a free track; removing one gives back  *)
(* exactly its chain, which no other chain shares and on which no open      *)
(* handle stands.                                                           *)
EXTENDS JadosFSProps, WellFoundedInduction, TLAPS

-----------------------------------------------------------------------------
(* Arithmetic and the track table *)

LEMMA Geometry ==
  /\ Tracks \subseteq 1 .. 255
  /\ Tracks \subseteq 0 .. FAT_ENTRIES - 1
  /\ FREE \notin Tracks /\ NONE \notin Tracks /\ FREE # NONE
  /\ FAT_ENTRIES \in Nat /\ NUM_JD_DIR_ENTRIES \in Nat
  /\ TRACK_SIZE \in Nat /\ CLUSTERSIZE \in Nat /\ CLUSTERSIZE > 0 /\ TRACK_SIZE > 0
BY GeometryAssumption DEF Tracks, FREE, NONE

\* A set of numbers has a least element.
LEMMA LeastFirst ==
  ASSUME NEW S \in SUBSET Nat, S # {}
  PROVE  Least(S) \in S /\ \A y \in S : Least(S) <= y
<1> DEFINE R == OpToRel(<, Nat)
<1>1. IsWellFoundedOn(R, Nat)
  BY NatLessThanWellFounded
<1>2. \A x, y \in Nat : <<x, y>> \in R <=> x < y
  BY DEF OpToRel
<1> HIDE DEF R
<1>3. PICK x \in S : \A y \in S : ~(<<y, x>> \in R)
  BY <1>1, WFMin, Zenon
<1>4. ASSUME NEW y \in S PROVE x <= y
  <2>1. x \in Nat /\ y \in Nat
    OBVIOUS
  <2>2. ~(y < x)
    BY <1>2, <1>3, <2>1, Zenon
  <2> QED BY <2>1, <2>2
<1> QED BY <1>4 DEF Least

LEMMA LeastMember ==
  ASSUME NEW S \in SUBSET Nat, S # {}
  PROVE  Least(S) \in S
BY LeastFirst

LEMMA FreeTrack ==
  ASSUME NEW ft, FreeTracks(ft) # {}
  PROVE  Least(FreeTracks(ft)) \in Tracks /\ ft[Least(FreeTracks(ft))].successor = FREE
<1>1. FreeTracks(ft) \in SUBSET Nat
  BY Geometry DEF FreeTracks, Tracks
<1> QED BY <1>1, LeastMember DEF FreeTracks

LEMMA FoundSlot ==
  ASSUME NEW d, NEW n, find_file(d, n) # {}
  PROVE  /\ Least(find_file(d, n)) \in Valid(d)
         /\ Least(find_file(d, n)) \in Slots
         /\ d[Least(find_file(d, n))].name = n
<1>1. find_file(d, n) \in SUBSET Nat
  BY Geometry DEF find_file, Valid, Slots
<1> QED BY <1>1, LeastMember DEF find_file, Valid

LEMMA VacantSlot ==
  ASSUME NEW d, Vacant(d) # {}
  PROVE  Least(Vacant(d)) \in Slots /\ d[Least(Vacant(d))].id # VALID
<1>1. Vacant(d) \in SUBSET Nat
  BY Geometry DEF Vacant, Slots
<1> QED BY <1>1, LeastMember DEF Vacant

-----------------------------------------------------------------------------
(* The operators on file control blocks keep them well typed *)

LEMMA FcbFields ==
  ASSUME NEW f \in jdfcb
  PROVE  /\ f.name \in Names /\ f.flags \in SUBSET {"READ", "WRIT", "CREATE"}
         /\ f.dir_index \in Slots /\ f.starttrack \in Tracks /\ f.curtrack \in Tracks
         /\ f.lasttrack \in Tracks \cup {0} /\ f.omode \in {"E4", "E5"}
         /\ f.endcluster \in Nat /\ f.length \in Nat /\ f.curcluster \in Nat
         /\ f.crcluster \in Nat /\ f.crpos \in Int /\ f.pos \in Int
         /\ f.eof \in BOOLEAN /\ f.buf \in Tags \cup {NULL}
BY DEF jdfcb

LEMMA SetCluster ==
  ASSUME NEW f \in jdfcb, NEW c \in Nat, NEW r \in Nat, NEW p \in Int
  PROVE  [f EXCEPT !.curcluster = c, !.crcluster = r, !.crpos = p] \in jdfcb
BY DEF jdfcb

LEMMA SetTrack ==
  ASSUME NEW f \in jdfcb, NEW t \in Tracks, NEW c \in Nat, NEW r \in Nat, NEW p \in Int
  PROVE  [f EXCEPT !.curtrack = t, !.curcluster = c, !.crcluster = r, !.crpos = p] \in jdfcb
BY DEF jdfcb

LEMMA SetEnd ==
  ASSUME NEW f \in jdfcb, NEW e \in Nat, NEW n \in Nat
  PROVE  [f EXCEPT !.endcluster = e, !.length = n] \in jdfcb
BY DEF jdfcb

FatType == [0 .. FAT_ENTRIES - 1 -> FATentry]

LEMMA AllocTyped ==
  ASSUME NEW ft \in FatType, NEW f \in jdfcb, FreeTracks(ft) # {}
  PROVE  /\ alloc_new_track(ft, f).fat \in FatType
         /\ alloc_new_track(ft, f).fcb \in jdfcb
<1> DEFINE i == Least(FreeTracks(ft))
<1>1. i \in Tracks
  BY FreeTrack
<1>2. f.curtrack \in Tracks
  BY DEF jdfcb
<1>3. [f EXCEPT !.curtrack = i, !.lasttrack = i, !.curcluster = 0, !.endcluster = 0] \in jdfcb
  BY <1>1 DEF jdfcb
<1>4. [ft EXCEPT ![i] = [ancestor |-> f.curtrack, successor |-> NONE],
                 ![f.curtrack].successor = i] \in FatType
  BY <1>1, <1>2, Geometry, ZenonT(60) DEF FatType, FATentry, Link
<1> QED BY <1>3, <1>4 DEF alloc_new_track
LEMMA EnterTyped ==
  ASSUME NEW ft \in FatType, NEW f \in jdfcb
  PROVE  /\ EnterTrack(ft, f).fat \in FatType
         /\ EnterTrack(ft, f).fcb \in jdfcb
<1> DEFINE next == get_next_track(ft, f)
           moved(g) == [g EXCEPT !.curcluster = 0, !.crcluster = @ + 1, !.crpos = 0]
<1>1. CASE f.curcluster # TRACK_SIZE
  BY <1>1 DEF EnterTrack
<1>2. CASE f.curcluster = TRACK_SIZE /\ Linked(next)
  <2>1. EnterTrack(ft, f) = [res |-> "ok", fat |-> ft, fcb |-> moved([f EXCEPT !.curtrack = next])]
    BY <1>2 DEF EnterTrack
  <2>2. [f EXCEPT !.curtrack = next] \in jdfcb
    BY <1>2 DEF jdfcb, Linked
  <2> HIDE DEF next
  <2>3. [f EXCEPT !.curtrack = next].crcluster + 1 \in Nat /\ 0 \in Nat /\ 0 \in Int
    BY <2>2, FcbFields
  <2>4. moved([f EXCEPT !.curtrack = next]) \in jdfcb
    BY <2>2, <2>3, SetCluster, Zenon
  <2> QED BY <2>1, <2>4
<1>3. CASE f.curcluster = TRACK_SIZE /\ ~Linked(next) /\ FreeTracks(ft) = {}
  <2>1. EnterTrack(ft, f) = [res |-> "full", fat |-> ft, fcb |-> [f EXCEPT !.eof = TRUE]]
    BY <1>3 DEF EnterTrack
  <2>2. [f EXCEPT !.eof = TRUE] \in jdfcb
    BY DEF jdfcb
  <2> QED BY <2>1, <2>2
<1>4. CASE f.curcluster = TRACK_SIZE /\ ~Linked(next) /\ FreeTracks(ft) # {}
  <2> DEFINE a == alloc_new_track(ft, f)
             b == [a.fcb EXCEPT !.endcluster = 0, !.eof = TRUE]
  <2>1. EnterTrack(ft, f) = [res |-> "ok", fat |-> a.fat, fcb |-> moved(b)]
    BY <1>4 DEF EnterTrack
  <2>2. a.fat \in FatType /\ a.fcb \in jdfcb
    BY <1>4, AllocTyped
  <2> HIDE DEF a
  <2>3. b \in jdfcb
    BY <2>2 DEF jdfcb
  <2> HIDE DEF b
  <2>4. b.crcluster + 1 \in Nat /\ 0 \in Nat /\ 0 \in Int
    BY <2>3, FcbFields
  <2>5. moved(b) \in jdfcb
    BY <2>3, <2>4, SetCluster, Zenon
  <2> QED BY <2>1, <2>2, <2>5
<1> QED BY <1>1, <1>2, <1>3, <1>4

LEMMA WriteClusterTyped ==
  ASSUME NEW ft \in FatType, NEW f \in jdfcb, NEW ok \in BOOLEAN
  PROVE  /\ nkcfs_write_cluster(ft, f, ok).fat \in FatType
         /\ nkcfs_write_cluster(ft, f, ok).fcb \in jdfcb
BY EnterTyped DEF nkcfs_write_cluster

LEMMA NewClusterTyped ==
  ASSUME NEW f \in jdfcb
  PROVE  alloc_new_cluster(f) \in jdfcb
<1> DEFINE g == [f EXCEPT !.curcluster = @ + 1, !.crcluster = @ + 1, !.crpos = 0]
<1>0. f.curcluster + 1 \in Nat /\ f.crcluster + 1 \in Nat /\ 0 \in Int
  BY FcbFields
<1>1. g \in jdfcb
  BY <1>0, SetCluster, Zenon
<1> HIDE DEF g
<1>2. g.curcluster \in Nat /\ g.length + 1 \in Nat
  BY <1>1, FcbFields
<1>3. [g EXCEPT !.endcluster = g.curcluster, !.length = @ + 1] \in jdfcb
  BY <1>1, <1>2, SetEnd, Zenon
<1> QED BY <1>1, <1>3 DEF alloc_new_cluster, g

LEMMA HeldTyped ==
  ASSUME NEW dt \in [Addrs -> Tags \cup {NULL}], NEW f
  PROVE  Held(dt, f) \in Tags \cup {NULL}
BY DEF Held

LEMMA NextTyped ==
  ASSUME NEW ft, NEW f \in jdfcb
  PROVE  NextCluster(ft, f).fcb \in jdfcb
<1> DEFINE next == get_next_track(ft, f)
<1>1. [f EXCEPT !.eof = TRUE] \in jdfcb
  BY DEF jdfcb
<1>2. [f EXCEPT !.lasttrack = f.curtrack, !.endcluster = f.curcluster, !.eof = TRUE] \in jdfcb
  BY DEF jdfcb
<1>0. f.curcluster + 1 \in Nat /\ f.crcluster + 1 \in Nat /\ 0 \in Nat /\ 0 \in Int
  BY FcbFields
<1>3. ASSUME next \in Tracks
      PROVE  [f EXCEPT !.curtrack = next, !.curcluster = 0,
                       !.crcluster = @ + 1, !.crpos = 0] \in jdfcb
  BY <1>0, <1>3, SetTrack, Zenon
<1>4. [f EXCEPT !.curcluster = @ + 1, !.crcluster = @ + 1, !.crpos = 0] \in jdfcb
  BY <1>0, SetCluster, Zenon
<1> QED BY <1>1, <1>2, <1>3, <1>4 DEF NextCluster, Linked

LEMMA ReadClusterTyped ==
  ASSUME NEW ft, NEW dt \in [Addrs -> Tags \cup {NULL}], NEW f \in jdfcb, NEW ok \in BOOLEAN
  PROVE  nkcfs_read_cluster(ft, dt, f, ok).fcb \in jdfcb
<1> DEFINE n == NextCluster(ft, f)
<1>1. n.fcb \in jdfcb
  BY NextTyped
<1>2. Held(dt, n.fcb) \in Tags \cup {NULL}
  BY HeldTyped
<1> HIDE DEF n
<1>3. [n.fcb EXCEPT !.buf = Held(dt, n.fcb)] \in jdfcb
  BY <1>1, <1>2 DEF jdfcb
<1>4. nkcfs_read_cluster(ft, dt, f, ok).fcb \in {n.fcb, [n.fcb EXCEPT !.buf = Held(dt, n.fcb)]}
  BY DEF nkcfs_read_cluster, n
<1> QED BY <1>1, <1>3, <1>4
LEMMA FillTyped ==
  ASSUME NEW f \in jdfcb, NEW n \in Int
  PROVE  Fill(f, n) \in jdfcb
<1> DEFINE b == IF n > 0 /\ f.crpos = 0 THEN <<f.dir_index, f.pos \div CLUSTERSIZE>> ELSE f.buf
<1>1. b \in Tags \cup {NULL}
  BY FcbFields, Geometry DEF Tags
<1>2. f.crpos + n \in Int /\ f.pos + n \in Int
  BY FcbFields
<1> HIDE DEF b
<1>3. \A p, q \in Int : [f EXCEPT !.crpos = p, !.pos = q, !.buf = b] \in jdfcb
  BY <1>1 DEF jdfcb
<1> QED BY <1>2, <1>3, Zenon DEF Fill, b

LEMMA FlushedTyped ==
  ASSUME fat \in FatType, NEW f \in jdfcb, NEW ok \in BOOLEAN
  PROVE  Flushed(f, ok).fat \in FatType /\ Flushed(f, ok).fcb \in jdfcb
<1> DEFINE w == nkcfs_write_cluster(fat, f, ok)
<1>1. w.fat \in FatType /\ w.fcb \in jdfcb
  BY WriteClusterTyped
<1>2. alloc_new_cluster(w.fcb) \in jdfcb
  BY <1>1, NewClusterTyped
<1>3. w = [res |-> w.res, fat |-> w.fat, fcb |-> w.fcb, written |-> w.written]
  BY DEF nkcfs_write_cluster
<1> HIDE DEF w
<1>4. CASE f.crpos = CLUSTERSIZE /\ w.res = "ok"
  <2>1. Flushed(f, ok) = [w EXCEPT !.fcb = alloc_new_cluster(w.fcb)]
    BY <1>4 DEF Flushed, w
  <2> QED BY <2>1, <1>1, <1>2, <1>3
<1>5. CASE f.crpos = CLUSTERSIZE /\ w.res # "ok"
  BY <1>1, <1>5 DEF Flushed, w
<1>6. CASE f.crpos # CLUSTERSIZE
  BY <1>6 DEF Flushed
<1> QED BY <1>4, <1>5, <1>6

LEMMA PositionedTyped ==
  ASSUME NEW f \in jdfcb, NEW p \in Int, Quot(p) >= 0
  PROVE  Positioned(f, p) \in jdfcb
<1>1. p % CLUSTERSIZE \in Int /\ p \div CLUSTERSIZE \in Int
  BY Geometry
<1>2. Rem(p) \in Int /\ Quot(p) + 1 \in Nat
  BY <1>1 DEF Rem, Quot
<1>3. \A r \in Int, c \in Nat : [f EXCEPT !.pos = p, !.crpos = r, !.crcluster = c] \in jdfcb
  BY DEF jdfcb
<1> QED BY <1>2, <1>3, Zenon DEF Positioned

LEMMA SoughtTyped ==
  ASSUME data \in [Addrs -> Tags \cup {NULL}], NEW f \in jdfcb, NEW p \in Int,
         Quot(p) >= 0, NEW ok \in BOOLEAN
  PROVE  Sought(f, p, ok) \subseteq jdfcb
<1>1. nkcfs_read_cluster(fat, data, f, ok).fcb \in jdfcb
  BY ReadClusterTyped
<1>2. [f EXCEPT !.eof = TRUE] \in jdfcb
  BY DEF jdfcb
<1> QED BY <1>1, <1>2, PositionedTyped, Zenon DEF Sought

LEMMA UpdateDirTyped ==
  ASSUME NEW d \in [Slots -> jddir], StartsTyped(d), NEW f \in jdfcb
  PROVE  update_dir(d, f) \in [Slots -> jddir] /\ StartsTyped(update_dir(d, f))
<1> DEFINE e == [id |-> VALID, name |-> f.name, starttrack |-> f.starttrack,
                 endcluster |-> f.endcluster, length |-> f.length]
<1>1. e \in jddir /\ e.starttrack \in Tracks
  BY DEF jddir, jdfcb
<1>2. f.dir_index \in Slots
  BY DEF jdfcb
<1>3. update_dir(d, f) = [d EXCEPT ![f.dir_index] = e]
  BY DEF update_dir
<1> HIDE DEF e
<1> QED BY <1>1, <1>2, <1>3 DEF StartsTyped, Valid
-----------------------------------------------------------------------------
(* Types *)

LEMMA OpenedTyped ==
  ASSUME TypeOK, NEW n \in Names, NEW flags \in OpenFlags, NEW s \in Valid(dir),
         NEW ok \in BOOLEAN
  PROVE  OpenedFcb(n, flags, s, ok) \in jdfcb
<1> DEFINE e == dir[s]
           g == [name |-> n, flags |-> flags, dir_index |-> s,
                 starttrack |-> e.starttrack,
                 endcluster |-> (e.endcluster + 65535) % 65536,
                 length |-> e.length, curtrack |-> e.starttrack, curcluster |-> 0,
                 lasttrack |-> 0, crpos |-> 0, crcluster |-> 0, pos |-> 0,
                 omode |-> IF "READ" \in Granted(n, flags) THEN "E4" ELSE "E5",
                 eof |-> FALSE, buf |-> NULL]
<1>1. s \in Slots /\ e \in jddir /\ e.starttrack \in Tracks
  BY DEF TypeOK, Valid, StartsTyped
<1>2. (e.endcluster + 65535) % 65536 \in Nat /\ e.length \in Nat
  BY <1>1 DEF jddir
<1>3. flags \in SUBSET {"READ", "WRIT", "CREATE"}
  BY ClientAssumption
<1> HIDE DEF e
<1>4. g \in jdfcb
  BY <1>1, <1>2, <1>3 DEF jdfcb
<1>5. Held(data, g) \in Tags \cup {NULL}
  BY HeldTyped DEF TypeOK
<1>6. OpenedFcb(n, flags, s, ok) = [g EXCEPT !.buf = IF ok THEN Held(data, g) ELSE NULL]
  BY DEF OpenedFcb, e
<1> HIDE DEF g
<1> QED BY <1>4, <1>5, <1>6 DEF jdfcb

LEMMA CreatedTyped ==
  ASSUME NEW n \in Names, NEW flags \in OpenFlags, NEW t \in Tracks, NEW s \in Slots
  PROVE  CreatedFcb(n, flags, t, s) \in jdfcb
BY ClientAssumption DEF CreatedFcb, jdfcb

LEMMA StoredTyped ==
  ASSUME data \in [Addrs -> Tags \cup {NULL}], NEW w, NEW tag \in Tags \cup {NULL}
  PROVE  Stored(w, tag) \in [Addrs -> Tags \cup {NULL}]
BY DEF Stored

LEMMA MediaTyped == Media \subseteq BOOLEAN
BY DEF Media

\* A table written in part has an entry of the old or of the new one everywhere.
LEMMA TornEntries ==
  ASSUME NEW old, NEW new, NEW sector, NEW t \in Torn(old, new, sector)
  PROVE  /\ t = [i \in DOMAIN old |-> t[i]]
         /\ \A i \in DOMAIN old : t[i] \in {old[i], new[i]}
BY DEF Torn

LEMMA TornTyped ==
  ASSUME NEW D, NEW E, NEW old \in [D -> E], NEW new \in [D -> E], NEW sector,
         NEW t \in Torn(old, new, sector)
  PROVE  t \in [D -> E] /\ \A i \in D : t[i] \in {old[i], new[i]}
BY TornEntries

\* A table of one sector is written wholly or not at all.
LEMMA TornWhole ==
  ASSUME NEW N \in Nat, NEW sector \in Nat \ {0}, N <= sector, NEW E,
         NEW old \in [0 .. N - 1 -> E], NEW new \in [0 .. N - 1 -> E],
         NEW t \in Torn(old, new, sector)
  PROVE  t \in {old, new}
<1>1. \A i \in 0 .. N - 1 : i \div sector = 0
  OBVIOUS
<1>2. PICK done : t = [i \in DOMAIN old |-> IF i \div sector \in done THEN new[i] ELSE old[i]]
  BY DEF Torn
<1>3. t = [i \in 0 .. N - 1 |-> IF 0 \in done THEN new[i] ELSE old[i]]
  BY <1>1, <1>2
<1> QED BY <1>3

LEMMA InitTyped == Init => TypeOK
<1> SUFFICES ASSUME Init PROVE TypeOK
  OBVIOUS
<1>1. fat \in [0 .. FAT_ENTRIES - 1 -> FATentry]
  BY DEF Init, FATentry, Link
<1>2. dir \in [Slots -> jddir]
  BY DEF Init, jddir
<1>3. Valid(dir) = {}
  BY DEF Init, Valid, FREE, VALID
<1>4. call \in [op : Phases, fd : Fds \cup {NULL}, count : Nat, bp : Int] /\ call.op \notin OnHandle
  BY DEF Init, Idle, Phases, OnHandle
<1> QED BY <1>1, <1>2, <1>3, <1>4 DEF Init, TypeOK, StartsTyped
\* What a step that touches neither media nor history needs to show.
LEMMA TypedByParts ==
  ASSUME TypeOK, UNCHANGED <<mfat, mdir>>,
         fat' \in FatType, dir' \in [Slots -> jddir], StartsTyped(dir'),
         data' \in [Addrs -> Tags \cup {NULL}], fcb' \in [Fds -> jdfcb \cup {NULL}],
         call' \in [op : Phases, fd : Fds \cup {NULL}, count : Nat, bp : Int],
         call'.op \in OnHandle => call'.fd \in Fds /\ fcb'[call'.fd] \in jdfcb,
         size' \in [Slots -> Int]
  PROVE  TypeOK'
BY DEF TypeOK, StartsTyped, Valid, FatType

LEMMA TypeStepOpen ==
  ASSUME TypeOK, NEW h \in Fds, NEW n \in Names, NEW flags \in OpenFlags,
         OpenExisting(h, n, flags) \/ OpenNew(h, n, flags)
  PROVE  TypeOK'
<1>1. CASE OpenExisting(h, n, flags)
  <2>1. PICK ok \in BOOLEAN :
          fcb' = [fcb EXCEPT ![h] = OpenedFcb(n, flags, Least(find_file(dir, n)), ok)]
    BY <1>1, MediaTyped DEF OpenExisting
  <2>2. Least(find_file(dir, n)) \in Valid(dir)
    BY <1>1, FoundSlot DEF OpenExisting
  <2>3. OpenedFcb(n, flags, Least(find_file(dir, n)), ok) \in jdfcb
    BY <2>2, OpenedTyped
  <2> QED BY <1>1, <2>1, <2>3 DEF OpenExisting, TypeOK, Ready, StartsTyped, Valid, OnHandle
<1>2. CASE OpenNew(h, n, flags)
  <2> DEFINE t == Least(FreeTracks(fat))
             s == Least(Vacant(dir))
             f == CreatedFcb(n, flags, t, s)
  <2>1. t \in Tracks /\ s \in Slots
    BY <1>2, FreeTrack, VacantSlot DEF OpenNew
  <2>2. f \in jdfcb
    BY <2>1, CreatedTyped
  <2>3. /\ fat' = [fat EXCEPT ![t] = [ancestor |-> NONE, successor |-> NONE]]
        /\ dir' = update_dir(dir, f)
        /\ fcb' = [fcb EXCEPT ![h] = f]
        /\ size' = [size EXCEPT ![s] = 0]
        /\ call.op = "idle"
        /\ UNCHANGED <<mfat, mdir, data, call>>
    BY <1>2 DEF OpenNew, Ready
  <2> HIDE DEF t, s, f
  <2>4. fat' \in FatType
    BY <2>1, <2>3, Geometry DEF TypeOK, FatType, FATentry, Link
  <2>5. dir' \in [Slots -> jddir] /\ StartsTyped(dir')
    BY <2>2, <2>3, UpdateDirTyped DEF TypeOK
  <2>6. fcb' \in [Fds -> jdfcb \cup {NULL}]
    BY <2>2, <2>3 DEF TypeOK
  <2>7. size' \in [Slots -> Int]
    BY <2>1, <2>3 DEF TypeOK
  <2> QED BY <2>3, <2>4, <2>5, <2>6, <2>7, TypedByParts DEF TypeOK, OnHandle
<1> QED BY <1>1, <1>2

LEMMA TypeStepClient ==
  ASSUME TypeOK, Client
  PROVE  TypeOK'
<1>1. CASE OpenCall
  BY <1>1, TypeStepOpen DEF OpenCall
<1>2. ASSUME NEW h \in Fds, NEW n \in Requests, Write(h, n) \/ Read(h, n)
      PROVE  TypeOK'
  <2>1. n \in Nat
    BY ClientAssumption
  <2>2. fcb[h] \in jdfcb
    BY <1>2 DEF TypeOK, Write, Read, IsOpen
  <2>3. call' \in {call, Begin("read", h, n), Begin("write", h, n)}
    BY <1>2 DEF Write, Read
  <2>4. call.op = "idle" /\ UNCHANGED <<fat, dir, mfat, mdir, data, fcb, size>>
    BY <1>2 DEF Write, Read, Ready
  <2>5. call' \in [op : Phases, fd : Fds \cup {NULL}, count : Nat, bp : Int]
    BY <2>1, <2>3 DEF TypeOK, Begin, Phases
  <2>6. call'.op \in OnHandle => call'.fd = h
    BY <2>3, <2>4 DEF Begin, OnHandle
  <2> QED BY <2>2, <2>4, <2>5, <2>6, TypedByParts DEF TypeOK, FatType
<1>3. ASSUME NEW h \in Fds, NEW a \in SeekArgs, Seek(h, a[1], a[2])
      PROVE  TypeOK'
  <2> DEFINE p == Target(fcb[h], a[1], a[2])
  <2>1. fcb[h] \in jdfcb
    BY <1>3 DEF TypeOK, Seek, IsOpen
  <2>2. a \in Int \X {"SET", "CUR", "END"}
    BY ClientAssumption
  <2>3. fcb[h].length * CLUSTERSIZE \in Int
    BY <2>1, FcbFields, Geometry
  <2>4. p \in Int
    BY <2>1, <2>2, <2>3, FcbFields DEF Target
  <2>5. PICK ok \in BOOLEAN : \E f \in Sought(fcb[h], p, ok) : fcb' = [fcb EXCEPT ![h] = f]
    BY <1>3, MediaTyped DEF Seek
  <2>6. Quot(p) >= 0 /\ call.op = "idle" /\ UNCHANGED <<fat, dir, mfat, mdir, data, call, size>>
    BY <1>3 DEF Seek, Ready
  <2> HIDE DEF p
  <2>7. Sought(fcb[h], p, ok) \subseteq jdfcb
    BY <2>1, <2>4, <2>6, SoughtTyped DEF TypeOK
  <2>8. fcb' \in [Fds -> jdfcb \cup {NULL}]
    BY <2>5, <2>7 DEF TypeOK
  <2> QED BY <2>6, <2>8, TypedByParts DEF TypeOK, FatType, OnHandle
<1>4. ASSUME NEW h \in Fds, CloseReader(h)
      PROVE  TypeOK'
  BY <1>4, TypedByParts DEF CloseReader, Ready, TypeOK, FatType, OnHandle
<1>5. ASSUME NEW h \in Fds, CloseWriter(h)
      PROVE  TypeOK'
  <2> DEFINE f == OneIndexed(fcb[h])
             w(ok) == IF f.crpos = 0
                      THEN [fat |-> fat, fcb |-> f, written |-> {}]
                      ELSE nkcfs_write_cluster(fat, f, ok)
  <2>1. fcb[h] \in jdfcb
    BY <1>5 DEF TypeOK, CloseWriter, IsOpen
  <2>2. (fcb[h].endcluster + 1) % 65536 \in Nat
    BY <2>1, FcbFields
  <2>3. f \in jdfcb
    BY <2>1, <2>2 DEF OneIndexed, jdfcb
  <2>4. PICK ok \in BOOLEAN :
          /\ fat'  = w(ok).fat
          /\ data' = Stored(w(ok).written, f.buf)
          /\ dir'  = update_dir(dir, w(ok).fcb)
          /\ fcb'  = [fcb EXCEPT ![h] = w(ok).fcb]
    BY <1>5, MediaTyped DEF CloseWriter
  <2>5. call' = Begin("closeFat", h, 0) /\ UNCHANGED <<mfat, mdir, size>>
    BY <1>5 DEF CloseWriter
  <2> HIDE DEF f
  <2>6. w(ok).fat \in FatType /\ w(ok).fcb \in jdfcb
    BY <2>3, WriteClusterTyped DEF TypeOK, FatType
  <2> HIDE DEF w
  <2>7. dir' \in [Slots -> jddir] /\ StartsTyped(dir')
    BY <2>4, <2>6, UpdateDirTyped DEF TypeOK
  <2>8. data' \in [Addrs -> Tags \cup {NULL}]
    BY <2>3, <2>4, FcbFields, StoredTyped DEF TypeOK
  <2>9. fcb' \in [Fds -> jdfcb \cup {NULL}] /\ fcb'[h] \in jdfcb
    BY <2>4, <2>6 DEF TypeOK
  <2>10. call' \in [op : Phases, fd : Fds \cup {NULL}, count : Nat, bp : Int] /\ call'.fd = h
    BY <2>5 DEF Begin, Phases
  <2> QED BY <2>4, <2>5, <2>6, <2>7, <2>8, <2>9, <2>10, TypedByParts DEF TypeOK
<1>6. ASSUME NEW n \in Names, Remove(n)
      PROVE  TypeOK'
  <2> DEFINE s == Least(find_file(dir, n))
             e == [ancestor |-> FREE, successor |-> FREE]
  <2>1. s \in Slots
    BY <1>6, FoundSlot DEF Remove
  <2>2. fat' = [t \in DOMAIN fat |-> IF t \in Chain(fat, dir[s].starttrack) THEN e ELSE fat[t]]
    BY <1>6 DEF Remove
  <2>3. dir' = [dir EXCEPT ![s].id = NONE] /\ call' = [Idle EXCEPT !.op = "removeFat"]
        /\ UNCHANGED <<mfat, mdir, data, fcb, size>>
    BY <1>6 DEF Remove
  <2>4. e \in FATentry
    BY DEF FATentry, Link
  <2> HIDE DEF s, e
  <2>5. fat' \in FatType
    BY <2>2, <2>4 DEF TypeOK, FatType
  <2>6. dir' \in [Slots -> jddir]
    BY <2>1, <2>3, ZenonT(60) DEF TypeOK, jddir
  <2>7. StartsTyped(dir')
    BY <2>1, <2>3 DEF TypeOK, StartsTyped, Valid, jddir, VALID, NONE
  <2>8. call' \in [op : Phases, fd : Fds \cup {NULL}, count : Nat, bp : Int] /\ call'.op \notin OnHandle
    BY <2>3 DEF Idle, Phases, OnHandle
  <2> QED BY <2>3, <2>5, <2>6, <2>7, <2>8, TypedByParts DEF TypeOK
<1>7. ASSUME NEW old \in Names, NEW new \in Names, Rename(old, new)
      PROVE  TypeOK'
  <2> DEFINE s == Least(find_file(dir, old))
  <2>1. s \in Slots
    BY <1>7, FoundSlot DEF Rename
  <2>2. dir' = [dir EXCEPT ![s].name = new] /\ call' = [Idle EXCEPT !.op = "renameDir"]
        /\ UNCHANGED <<fat, mfat, mdir, data, fcb, size>>
    BY <1>7 DEF Rename
  <2> HIDE DEF s
  <2>3. dir' \in [Slots -> jddir]
    <3>1. dir[s] \in jddir
      BY <2>1 DEF TypeOK
    <3>2. [dir[s] EXCEPT !.name = new] \in jddir
      BY <3>1 DEF jddir
    <3>3. dir' = [dir EXCEPT ![s] = [dir[s] EXCEPT !.name = new]]
      BY <2>2
    <3> QED BY <2>1, <3>2, <3>3 DEF TypeOK
  <2>4. \A r \in Slots : dir'[r].id = dir[r].id /\ dir'[r].starttrack = dir[r].starttrack
    BY <2>1, <2>2 DEF TypeOK, jddir
  <2>5. StartsTyped(dir')
    BY <2>4 DEF TypeOK, StartsTyped, Valid
  <2>6. call' \in [op : Phases, fd : Fds \cup {NULL}, count : Nat, bp : Int] /\ call'.op \notin OnHandle
    BY <2>2 DEF Idle, Phases, OnHandle
  <2> QED BY <2>2, <2>3, <2>5, <2>6, TypedByParts DEF TypeOK, FatType
<1>8. CASE nkcfs_getfree
  BY <1>8, TypedByParts DEF nkcfs_getfree, TypeOK, FatType
<1>9. CASE Remount
  BY <1>9 DEF Remount, Mount, Ready, TypeOK, StartsTyped, Valid, OnHandle
<1> QED BY <1>1, <1>2, <1>3, <1>4, <1>5, <1>6, <1>7, <1>8, <1>9
     DEF Client, WriteCall, ReadCall, SeekCall, CloseCall, RemoveCall, RenameCall
LEMMA CallAdvances ==
  ASSUME TypeOK, NEW c \in Nat, NEW b \in Int,
         call' = Idle \/ call' = [call EXCEPT !.count = c, !.bp = b]
  PROVE  /\ call' \in [op : Phases, fd : Fds \cup {NULL}, count : Nat, bp : Int]
         /\ call'.op \in OnHandle => call'.fd = call.fd
<1>1. CASE call' = Idle
  BY <1>1 DEF Idle, Phases, OnHandle
<1>2. CASE call' = [call EXCEPT !.count = c, !.bp = b]
  <2>1. call \in [op : Phases, fd : Fds \cup {NULL}, count : Nat, bp : Int]
    BY DEF TypeOK
  <2> QED BY <1>2, <2>1
<1> QED BY <1>1, <1>2

LEMMA TypeStepWrite ==
  ASSUME TypeOK, WriteStep
  PROVE  TypeOK'
<1> DEFINE h == call.fd
<1>1. h \in Fds /\ fcb[h] \in jdfcb /\ call.count \in Nat /\ call.bp \in Int
  BY DEF WriteStep, TypeOK, OnHandle
<1>2. PICK ok \in BOOLEAN :
        LET w == Flushed(fcb[h], ok)
            n == Smaller(call.count, CLUSTERSIZE - w.fcb.crpos)
            ends == n = call.count
        IN /\ fat'  = w.fat
           /\ data' = Stored(w.written, fcb[h].buf)
           /\ fcb'  = [fcb EXCEPT ![h] = Fill(w.fcb, n)]
           /\ call' = IF ends THEN Idle
                      ELSE [call EXCEPT !.count = @ - n, !.bp = @ + n]
           /\ size' = IF fcb[h].omode = "E5"
                      THEN [size EXCEPT ![fcb[h].dir_index] = Larger(@, fcb[h].pos + n)]
                      ELSE size
  BY MediaTyped DEF WriteStep
<1> DEFINE w == Flushed(fcb[h], ok)
           n == Smaller(call.count, CLUSTERSIZE - w.fcb.crpos)
<1>3. w.fat \in FatType /\ w.fcb \in jdfcb
  BY <1>1, FlushedTyped DEF TypeOK, FatType
<1>4. n \in Int /\ n <= call.count
  BY <1>1, <1>3, FcbFields, Geometry DEF Smaller
<1>5. /\ fat' = w.fat /\ data' = Stored(w.written, fcb[h].buf)
      /\ fcb' = [fcb EXCEPT ![h] = Fill(w.fcb, n)]
      /\ call' = IF n = call.count THEN Idle
                 ELSE [call EXCEPT !.count = @ - n, !.bp = @ + n]
      /\ size' = IF fcb[h].omode = "E5"
                 THEN [size EXCEPT ![fcb[h].dir_index] = Larger(@, fcb[h].pos + n)]
                 ELSE size
      /\ UNCHANGED <<dir, mfat, mdir>>
  BY <1>2 DEF WriteStep
<1> HIDE DEF w, n
<1>6. fcb' \in [Fds -> jdfcb \cup {NULL}] /\ fcb'[h] \in jdfcb
  BY <1>1, <1>3, <1>4, <1>5, FillTyped DEF TypeOK
<1>7. data' \in [Addrs -> Tags \cup {NULL}]
  <2>1. fcb[h].buf \in Tags \cup {NULL} /\ data \in [Addrs -> Tags \cup {NULL}]
    BY <1>1, FcbFields DEF TypeOK
  <2> QED BY <1>5, <2>1, StoredTyped, Zenon
<1>8. call.count - n \in Nat /\ call.bp + n \in Int
  BY <1>1, <1>4
<1>9. call' \in [op : Phases, fd : Fds \cup {NULL}, count : Nat, bp : Int]
      /\ (call'.op \in OnHandle => call'.fd = h)
  BY <1>5, <1>8, CallAdvances
<1>10. size' \in [Slots -> Int]
  <2>1. \A x \in Int : Larger(x, fcb[h].pos + n) \in Int
    BY <1>1, <1>4, FcbFields DEF Larger
  <2> QED BY <1>5, <2>1 DEF TypeOK
<1> QED BY <1>1, <1>3, <1>5, <1>6, <1>7, <1>9, <1>10, TypedByParts DEF TypeOK

LEMMA TypeStepRead ==
  ASSUME TypeOK, ReadStep
  PROVE  TypeOK'
<1> DEFINE h == call.fd
           n == Smaller(call.count, CLUSTERSIZE - fcb[h].crpos)
           f == [fcb[h] EXCEPT !.crpos = @ + n, !.pos = @ + n]
           moved == call.bp + n
<1>1. h \in Fds /\ fcb[h] \in jdfcb /\ call.count \in Nat /\ call.bp \in Int
  BY DEF ReadStep, TypeOK, OnHandle
<1>2. n \in Int /\ n <= call.count
  BY <1>1, FcbFields, Geometry DEF Smaller
<1>3. f \in jdfcb
  <2>1. fcb[h].crpos + n \in Int /\ fcb[h].pos + n \in Int
    BY <1>1, <1>2, FcbFields
  <2>2. \A p, q \in Int : [fcb[h] EXCEPT !.crpos = p, !.pos = q] \in jdfcb
    BY <1>1 DEF jdfcb
  <2> QED BY <2>1, <2>2, Zenon
<1>4. PICK g \in jdfcb : fcb' = [fcb EXCEPT ![h] = g]
                         /\ call' \in {Idle, [call EXCEPT !.count = @ - n, !.bp = moved]}
  <2>1. \A ok \in BOOLEAN : nkcfs_read_cluster(fat, data, f, ok).fcb \in jdfcb
    BY <1>3, ReadClusterTyped DEF TypeOK
  <2>2. \A g \in jdfcb : [g EXCEPT !.eof = TRUE] \in jdfcb
    BY DEF jdfcb
  <2>3. \/ \E value : ReadEnds(f, moved, value)
        \/ \E ok \in BOOLEAN :
             LET r == nkcfs_read_cluster(fat, data, f, ok) IN
             \/ fcb' = [fcb EXCEPT ![h] = r.fcb] /\ call' = [call EXCEPT !.count = @ - n, !.bp = moved]
             \/ ReadEnds([r.fcb EXCEPT !.eof = TRUE], moved, moved)
             \/ ReadEnds(r.fcb, moved, moved)
    BY MediaTyped DEF ReadStep
  <2> HIDE DEF n, f, moved
  <2> QED BY <1>3, <2>1, <2>2, <2>3 DEF ReadEnds
<1>5. UNCHANGED <<fat, dir, mfat, mdir, data, size>>
  BY DEF ReadStep
<1> HIDE DEF n, f
<1>6. call.count - n \in Nat /\ moved \in Int
  BY <1>1, <1>2
<1>7. call' \in [op : Phases, fd : Fds \cup {NULL}, count : Nat, bp : Int]
      /\ (call'.op \in OnHandle => call'.fd = h)
  BY <1>4, <1>6, CallAdvances
<1>8. fcb' \in [Fds -> jdfcb \cup {NULL}] /\ fcb'[h] \in jdfcb
  BY <1>1, <1>4 DEF TypeOK
<1> QED BY <1>1, <1>5, <1>7, <1>8, TypedByParts DEF TypeOK, FatType

LEMMA TornDirTyped ==
  ASSUME TypeOK, NEW d \in Torn(mdir, dir, DIR_SECTOR)
  PROVE  d \in [Slots -> jddir] /\ StartsTyped(d)
<1>1. d \in [Slots -> jddir] /\ \A i \in Slots : d[i] \in {mdir[i], dir[i]}
  BY TornTyped DEF TypeOK
<1> QED BY <1>1 DEF TypeOK, StartsTyped, Valid

LEMMA TypeStepSave ==
  ASSUME TypeOK,
         CloseFat \/ CloseDir \/ RemoveFat \/ RemoveDir \/ RenameDir
  PROVE  TypeOK'
<1>1. CASE CloseFat \/ RemoveFat
  <2>1. /\ mfat' = fat \/ mfat' \in Torn(mfat, fat, FAT_SECTOR)
        /\ UNCHANGED <<fat, dir, mdir, data, fcb, size>>
        /\ \/ call' = [call EXCEPT !.op = "closeDir"] /\ call.op = "closeFat"
           \/ call' = [call EXCEPT !.op = "removeDir"]
    BY <1>1 DEF CloseFat, RemoveFat, SaveFat
  <2>2. call' \in [op : Phases, fd : Fds \cup {NULL}, count : Nat, bp : Int]
    BY <2>1 DEF TypeOK, Phases
  <2>3. call'.op \in OnHandle => call'.fd \in Fds /\ fcb[call'.fd] \in jdfcb
    BY <2>1 DEF TypeOK, OnHandle
  <2>4. mfat' \in [0 .. FAT_ENTRIES - 1 -> FATentry]
    BY <2>1, TornTyped DEF TypeOK
  <2> QED BY <2>1, <2>2, <2>3, <2>4 DEF TypeOK, StartsTyped, Valid
<1>2. CASE CloseDir \/ RemoveDir \/ RenameDir
  <2>1. /\ mdir' = dir \/ mdir' \in Torn(mdir, dir, DIR_SECTOR)
        /\ UNCHANGED <<fat, dir, mfat, data, size>>
        /\ call' = Idle
        /\ fcb' = fcb \/ fcb' = [fcb EXCEPT ![call.fd] = NULL]
    BY <1>2 DEF CloseDir, RemoveDir, RenameDir, SaveDir
  <2>2. call' \in [op : Phases, fd : Fds \cup {NULL}, count : Nat, bp : Int] /\ call'.op \notin OnHandle
    BY <2>1 DEF Idle, Phases, OnHandle
  <2>3. fcb' \in [Fds -> jdfcb \cup {NULL}]
    BY <2>1 DEF TypeOK
  <2>4. mdir' \in [Slots -> jddir] /\ StartsTyped(mdir')
    BY <2>1, TornDirTyped DEF TypeOK
  <2> QED BY <2>1, <2>2, <2>3, <2>4 DEF TypeOK, StartsTyped, Valid
<1> QED BY <1>1, <1>2

LEMMA TypeStepPower ==
  ASSUME TypeOK, PowerFail
  PROVE  TypeOK'
<1>1. mfat' \in [0 .. FAT_ENTRIES - 1 -> FATentry]
  BY TornTyped DEF PowerFail, FatsLeft, TypeOK
<1>2. mdir' \in [Slots -> jddir] /\ StartsTyped(mdir')
  BY TornDirTyped DEF PowerFail, DirsLeft, TypeOK
<1>3. fat' = mfat' /\ dir' = mdir' /\ UNCHANGED <<data, size>>
  BY DEF PowerFail, Mount
<1>4. fcb' = [h \in Fds |-> NULL] /\ call' = Idle
  BY DEF PowerFail
<1> QED BY <1>1, <1>2, <1>3, <1>4 DEF TypeOK, StartsTyped, Valid, Idle, Phases, OnHandle

LEMMA TypeStep ==
  ASSUME TypeOK, [Next]_vars
  PROVE  TypeOK'
<1>1. CASE Client
  BY <1>1, TypeStepClient
<1>2. CASE Driver
  BY <1>2, TypeStepWrite, TypeStepRead, TypeStepSave DEF Driver
<1>3. CASE PowerFail
  BY <1>3, TypeStepPower
<1>4. CASE UNCHANGED vars
  BY <1>4 DEF vars, TypeOK, StartsTyped, Valid
<1> QED BY <1>1, <1>2, <1>3, <1>4 DEF Next

\* Types hold in every behaviour: no operation of the driver ever indexes the
\* track table or the directory with something that is no track or no slot.
THEOREM TypeCorrect == Spec => []TypeOK
<1>1. Init => TypeOK
  BY InitTyped
<1>2. TypeOK /\ [Next]_vars => TypeOK'
  BY TypeStep
<1> QED BY <1>1, <1>2, PTL DEF Spec

-----------------------------------------------------------------------------
(* The track table and the directory *)

VolumeInv ==
  /\ TypeOK
  /\ VolumeConsistent
  /\ HandlesAnchored

\* What ChainsOnlyGrow says of one step.
Grows ==
  \A s \in Valid(dir) :
    s \in Valid(dir') /\ dir[s].starttrack = dir'[s].starttrack
      => Chain(fat, dir[s].starttrack) \subseteq Chain(fat', dir[s].starttrack)

\* What every step of a mounted volume keeps.
Keeps == VolumeInv' /\ (NoLostTracks => NoLostTracks') /\ Grows

-----------------------------------------------------------------------------
(* Chains *)

LEMMA ChainHere ==
  ASSUME NEW ft, NEW t \in Tracks
  PROVE  t \in Chain(ft, t) /\ Chain(ft, t) \subseteq Tracks
BY DEF Chain

LEMMA ChainClosed ==
  ASSUME NEW ft, NEW t, NEW u \in Chain(ft, t), ft[u].successor \in Tracks
  PROVE  ft[u].successor \in Chain(ft, t)
BY DEF Chain, Linked

LEMMA ChainLeast ==
  ASSUME NEW ft, NEW t, NEW S \in SUBSET Tracks, t \in S,
         \A v \in S : ft[v].successor \in Tracks => ft[v].successor \in S
  PROVE  Chain(ft, t) \subseteq S
BY DEF Chain, Linked

\* The tracks of a chain but its first have their ancestor in the chain.
LEMMA ChainBack ==
  ASSUME NEW ft, TracksMirror(ft), NEW t \in Tracks, NEW u \in Chain(ft, t), u # t
  PROVE  ft[u].ancestor \in Chain(ft, t)
<1> DEFINE S == {x \in Chain(ft, t) : x = t \/ ft[x].ancestor \in Chain(ft, t)}
<1>1. S \in SUBSET Tracks /\ t \in S
  BY ChainHere
<1>2. ASSUME NEW v \in S, ft[v].successor \in Tracks
      PROVE  ft[v].successor \in S
  <2>1. ft[v].successor \in Chain(ft, t)
    BY <1>2, ChainClosed
  <2>2. ft[ft[v].successor].ancestor = v
    BY <1>1, <1>2 DEF TracksMirror, Linked
  <2> QED BY <2>1, <2>2
<1> HIDE DEF S
<1>3. Chain(ft, t) \subseteq S
  BY <1>1, <1>2, ChainLeast
<1> QED BY <1>3 DEF S

\* Chains that start on different tracks share no track.
LEMMA ChainsApart ==
  ASSUME NEW ft, TracksMirror(ft), NEW t \in Tracks, NEW r \in Tracks, t # r,
         ft[t].ancestor = NONE, ft[r].ancestor = NONE
  PROVE  Chain(ft, t) \cap Chain(ft, r) = {}
<1> DEFINE S == Chain(ft, t) \ Chain(ft, r)
<1>1. t \in S
  <2>1. t \in Chain(ft, r) => ft[t].ancestor \in Tracks
    BY ChainBack, ChainHere
  <2> QED BY <2>1, ChainHere, Geometry
<1>2. ASSUME NEW v \in S, ft[v].successor \in Tracks
      PROVE  ft[v].successor \in S
  <2> DEFINE w == ft[v].successor
  <2>1. w \in Chain(ft, t)
    BY <1>2, ChainClosed
  <2>2. v \in Tracks
    BY ChainHere
  <2>3. ft[w].ancestor = v
    BY <1>2, <2>2 DEF TracksMirror, Linked
  <2>4. w \in Chain(ft, r) => w = r \/ v \in Chain(ft, r)
    BY <2>3, ChainBack
  <2>5. w # r
    BY <2>2, <2>3, Geometry
  <2> QED BY <2>1, <2>4, <2>5
<1>3. S \in SUBSET Tracks
  BY ChainHere
<1> HIDE DEF S
<1>4. Chain(ft, t) \subseteq S
  BY <1>1, <1>2, <1>3, ChainLeast
<1> QED BY <1>4 DEF S

LEMMA ChainAllocated ==
  ASSUME NEW ft, TracksMirror(ft), NEW t \in Tracks, ft[t].ancestor = NONE,
         NEW u \in Chain(ft, t)
  PROVE  ft[u].successor # FREE
<1> DEFINE S == {x \in Chain(ft, t) : ft[x].successor # FREE}
<1>1. S \in SUBSET Tracks
  BY ChainHere
<1>2. t \in S
  BY ChainHere, Geometry DEF TracksMirror
<1>3. ASSUME NEW v \in S, ft[v].successor \in Tracks
      PROVE  ft[v].successor \in S
  <2> DEFINE w == ft[v].successor
  <2>1. w \in Chain(ft, t)
    BY <1>3, ChainClosed
  <2>2. v \in Tracks /\ w \in Tracks /\ ft[w].ancestor = v
    BY <1>1, <1>3 DEF TracksMirror, Linked
  <2>3. ft[w].ancestor # FREE
    BY <2>2, Geometry
  <2>4. ft[w].successor # FREE
    BY <2>2, <2>3 DEF TracksMirror
  <2> QED BY <2>1, <2>4
<1> HIDE DEF S
<1>4. Chain(ft, t) \subseteq S
  BY <1>1, <1>2, <1>3, ChainLeast
<1> QED BY <1>4 DEF S

\* A table that keeps every link keeps every chain.
LEMMA ChainKept ==
  ASSUME NEW ft, NEW gt, NEW t \in Tracks,
         \A v \in Chain(ft, t) : ft[v].successor \in Tracks => gt[v].successor = ft[v].successor
  PROVE  Chain(ft, t) \subseteq Chain(gt, t)
<1> DEFINE S == Chain(ft, t) \cap Chain(gt, t)
<1>1. S \in SUBSET Tracks /\ t \in S
  BY ChainHere
<1>2. ASSUME NEW v \in S, ft[v].successor \in Tracks
      PROVE  ft[v].successor \in S
  <2>1. ft[v].successor \in Chain(ft, t)
    BY <1>2, ChainClosed
  <2>2. gt[v].successor = ft[v].successor
    BY <1>2
  <2>3. gt[v].successor \in Chain(gt, t)
    BY <1>2, <2>2, ChainClosed
  <2> QED BY <2>1, <2>2, <2>3
<1> HIDE DEF S
<1>3. Chain(ft, t) \subseteq S
  BY <1>1, <1>2, ChainLeast
<1> QED BY <1>3 DEF S
-----------------------------------------------------------------------------
(* How an open handle moves *)

Same(f, g) == g.name = f.name /\ g.dir_index = f.dir_index /\ g.starttrack = f.starttrack

\* Along the chain, by one track at most.
Follows(ft, f, g) ==
  /\ Same(f, g)
  /\ \/ g.curtrack = f.curtrack
     \/ ft[f.curtrack].successor \in Tracks /\ g.curtrack = ft[f.curtrack].successor

Grown(ft, c, i) ==
  [ft EXCEPT ![i] = [ancestor |-> c, successor |-> NONE], ![c].successor = i]

\* To a free track appended to the end of the chain.
Extends(ft, f, gt, g) ==
  /\ Same(f, g)
  /\ ft[f.curtrack].successor \notin Tracks
  /\ g.curtrack \in Tracks /\ ft[g.curtrack].successor = FREE
  /\ gt = Grown(ft, f.curtrack, g.curtrack)

Moves(ft, f, gt, g) == (gt = ft /\ Follows(ft, f, g)) \/ Extends(ft, f, gt, g)

LEMMA EnterMoves ==
  ASSUME NEW ft \in FatType, NEW f \in jdfcb
  PROVE  Moves(ft, f, EnterTrack(ft, f).fat, EnterTrack(ft, f).fcb)
<1> DEFINE next == get_next_track(ft, f)
           moved(g) == [g EXCEPT !.curcluster = 0, !.crcluster = @ + 1, !.crpos = 0]
<1>0. /\ \A g \in jdfcb : moved(g).curtrack = g.curtrack /\ Same(g, moved(g))
      /\ \A t : LET g == [f EXCEPT !.curtrack = t] IN g.curtrack = t /\ Same(f, g)
  BY DEF jdfcb, Same
<1>1. CASE f.curcluster # TRACK_SIZE
  BY <1>1 DEF EnterTrack, Moves, Follows, Same
<1>2. CASE f.curcluster = TRACK_SIZE /\ Linked(next)
  <2> DEFINE g == [f EXCEPT !.curtrack = next]
  <2>1. EnterTrack(ft, f) = [res |-> "ok", fat |-> ft, fcb |-> moved(g)]
    BY <1>2 DEF EnterTrack
  <2>2. g \in jdfcb
    BY <1>2 DEF jdfcb, Linked
  <2>3. g.curtrack = next /\ Same(f, g)
    BY <1>0
  <2> HIDE DEF g
  <2>4. moved(g).curtrack = next /\ Same(f, moved(g))
    BY <1>0, <2>2, <2>3 DEF Same
  <2>5. Follows(ft, f, moved(g))
    BY <1>2, <2>4 DEF Follows, Linked, get_next_track
  <2>6. EnterTrack(ft, f).fat = ft /\ EnterTrack(ft, f).fcb = moved(g)
    BY <2>1
  <2> QED BY <2>5, <2>6, Zenon DEF Moves
<1>3. CASE f.curcluster = TRACK_SIZE /\ ~Linked(next) /\ FreeTracks(ft) = {}
  <2>1. EnterTrack(ft, f) = [res |-> "full", fat |-> ft, fcb |-> [f EXCEPT !.eof = TRUE]]
    BY <1>3 DEF EnterTrack
  <2> QED BY <2>1 DEF Moves, Follows, Same, jdfcb
<1>4. CASE f.curcluster = TRACK_SIZE /\ ~Linked(next) /\ FreeTracks(ft) # {}
  <2> DEFINE a == alloc_new_track(ft, f)
             i == Least(FreeTracks(ft))
             b == [a.fcb EXCEPT !.endcluster = 0, !.eof = TRUE]
  <2>1. EnterTrack(ft, f) = [res |-> "ok", fat |-> a.fat, fcb |-> moved(b)]
    BY <1>4 DEF EnterTrack
  <2>2. a.fat = Grown(ft, f.curtrack, i)
    BY DEF alloc_new_track, Grown
  <2>3. a.fcb.curtrack = i /\ Same(f, a.fcb)
    BY DEF alloc_new_track, Same, jdfcb
  <2>4. a.fcb \in jdfcb
    BY <1>4, AllocTyped
  <2>5. i \in Tracks /\ ft[i].successor = FREE
    BY <1>4, FreeTrack
  <2> HIDE DEF a, i
  <2>6. b \in jdfcb /\ b.curtrack = i /\ Same(f, b)
    BY <2>3, <2>4 DEF jdfcb, Same
  <2> HIDE DEF b
  <2>7. moved(b).curtrack = i /\ Same(f, moved(b))
    BY <1>0, <2>6 DEF Same
  <2>8. ft[f.curtrack].successor \notin Tracks
    BY <1>4 DEF Linked, get_next_track
  <2>9. Extends(ft, f, a.fat, moved(b))
    BY <2>2, <2>5, <2>7, <2>8, Zenon DEF Extends
  <2>10. EnterTrack(ft, f).fat = a.fat /\ EnterTrack(ft, f).fcb = moved(b)
    BY <2>1
  <2> QED BY <2>9, <2>10, Zenon DEF Moves
<1> QED BY <1>1, <1>2, <1>3, <1>4

LEMMA WriteClusterMoves ==
  ASSUME NEW ft \in FatType, NEW f \in jdfcb, NEW ok
  PROVE  Moves(ft, f, nkcfs_write_cluster(ft, f, ok).fat, nkcfs_write_cluster(ft, f, ok).fcb)
BY EnterMoves DEF nkcfs_write_cluster

\* A change that leaves the handle's file and track alone.
Stays(f, g) == Same(f, g) /\ g.curtrack = f.curtrack

LEMMA MovesStays ==
  ASSUME NEW ft, NEW f, NEW gt, NEW g, NEW k, Moves(ft, f, gt, g), Stays(g, k)
  PROVE  Moves(ft, f, gt, k)
BY DEF Moves, Follows, Extends, Same, Stays

LEMMA StaysMoves ==
  ASSUME NEW ft, NEW f, NEW gt, NEW g, NEW k, Stays(k, f), Moves(ft, f, gt, g)
  PROVE  Moves(ft, k, gt, g)
BY DEF Moves, Follows, Extends, Same, Stays

LEMMA NewClusterStays ==
  ASSUME NEW f \in jdfcb
  PROVE  Stays(f, alloc_new_cluster(f))
BY DEF alloc_new_cluster, Stays, Same, jdfcb

LEMMA FillStays ==
  ASSUME NEW f \in jdfcb, NEW n
  PROVE  Stays(f, Fill(f, n))
BY DEF Fill, Stays, Same, jdfcb

LEMMA ReadMoves ==
  ASSUME NEW ft, NEW dt, NEW f \in jdfcb, NEW ok
  PROVE  Moves(ft, f, ft, nkcfs_read_cluster(ft, dt, f, ok).fcb)
<1> DEFINE n == NextCluster(ft, f)
<1>1. Follows(ft, f, n.fcb)
  BY DEF NextCluster, Follows, Same, Linked, get_next_track, jdfcb
<1>2. n.fcb \in jdfcb
  BY NextTyped
<1> HIDE DEF n
<1>3. nkcfs_read_cluster(ft, dt, f, ok).fcb \in {n.fcb, [n.fcb EXCEPT !.buf = Held(dt, n.fcb)]}
  BY DEF nkcfs_read_cluster, n
<1>4. Stays(n.fcb, [n.fcb EXCEPT !.buf = Held(dt, n.fcb)]) /\ Stays(n.fcb, n.fcb)
  BY <1>2 DEF Stays, Same, jdfcb
<1> QED BY <1>1, <1>3, <1>4 DEF Moves, Follows, Stays, Same

LEMMA PositionedStays ==
  ASSUME NEW f \in jdfcb, NEW p
  PROVE  Stays(f, Positioned(f, p)) /\ Stays(f, [f EXCEPT !.eof = TRUE]) /\ Stays(f, f)
BY DEF Positioned, Stays, Same, jdfcb

LEMMA SoughtMoves ==
  ASSUME data \in [Addrs -> Tags \cup {NULL}], NEW f \in jdfcb, NEW p \in Int,
         NEW ok \in BOOLEAN, NEW g \in Sought(f, p, ok)
  PROVE  Moves(fat, f, fat, g)
<1> DEFINE r == nkcfs_read_cluster(fat, data, f, ok).fcb
           e == [f EXCEPT !.eof = TRUE]
<1>1. r \in jdfcb /\ Moves(fat, f, fat, r)
  BY ReadClusterTyped, ReadMoves
<1>2. e \in jdfcb
  BY DEF jdfcb
<1>3. g \in {e, f, Positioned(f, p), Positioned(r, p), Positioned(e, p)}
  BY DEF Sought
<1> HIDE DEF r, e
<1>4. Stays(f, e)
  BY PositionedStays DEF e
<1>5. Stays(f, Positioned(f, p)) /\ Stays(f, f) /\ Stays(r, Positioned(r, p)) /\ Stays(e, Positioned(e, p))
  BY <1>1, <1>2, PositionedStays
<1>6. \A k : Stays(f, k) => Moves(fat, f, fat, k)
  BY DEF Moves, Follows, Stays
<1> QED BY <1>1, <1>3, <1>4, <1>5, <1>6, MovesStays DEF Stays, Same

LEMMA FlushedMoves ==
  ASSUME fat \in FatType, NEW f \in jdfcb, NEW ok \in BOOLEAN
  PROVE  Moves(fat, f, Flushed(f, ok).fat, Flushed(f, ok).fcb)
<1> DEFINE w == nkcfs_write_cluster(fat, f, ok)
<1>1. w.fcb \in jdfcb /\ Moves(fat, f, w.fat, w.fcb)
  BY WriteClusterTyped, WriteClusterMoves
<1>2. Stays(w.fcb, alloc_new_cluster(w.fcb))
  BY <1>1, NewClusterStays
<1>3. Moves(fat, f, w.fat, alloc_new_cluster(w.fcb))
  BY <1>1, <1>2, MovesStays
<1>4. w = [res |-> w.res, fat |-> w.fat, fcb |-> w.fcb, written |-> w.written]
  BY DEF nkcfs_write_cluster
<1> HIDE DEF w
<1>5. CASE f.crpos = CLUSTERSIZE /\ w.res = "ok"
  <2>1. Flushed(f, ok) = [w EXCEPT !.fcb = alloc_new_cluster(w.fcb)]
    BY <1>5 DEF Flushed, w
  <2> QED BY <2>1, <1>3, <1>4
<1>6. CASE f.crpos = CLUSTERSIZE /\ w.res # "ok"
  BY <1>1, <1>6 DEF Flushed, w
<1>7. CASE f.crpos # CLUSTERSIZE
  BY <1>7 DEF Flushed, Moves, Follows, Same
<1> QED BY <1>5, <1>6, <1>7
-----------------------------------------------------------------------------
(* Appending a track *)

LEMMA GrownTable ==
  ASSUME NEW ft \in FatType, TracksMirror(ft), NEW c \in Tracks, NEW i \in Tracks,
         ft[c].successor \notin Tracks, ft[c].successor # FREE, ft[i].successor = FREE
  PROVE  LET gt == Grown(ft, c, i) IN
         /\ gt[c].successor = i /\ gt[i].successor = NONE /\ gt[i].ancestor = c
         /\ gt[c].ancestor = ft[c].ancestor
         /\ \A v \in Tracks : v # c /\ v # i => gt[v] = ft[v]
         /\ TracksMirror(gt)
<1> DEFINE gt == Grown(ft, c, i)
<1>0. c # i /\ c \in DOMAIN ft /\ i \in DOMAIN ft /\ \A v \in Tracks : v \in DOMAIN ft
  BY Geometry DEF FatType
<1>1. gt[c].successor = i /\ gt[c].ancestor = ft[c].ancestor
  BY <1>0 DEF Grown, FatType, FATentry
<1>2. gt[i].successor = NONE /\ gt[i].ancestor = c
  BY <1>0 DEF Grown
<1>3. \A v \in Tracks : v # c /\ v # i => gt[v] = ft[v]
  BY <1>0 DEF Grown
<1>4. ft[i].ancestor = FREE /\ ft[c].ancestor # FREE
  BY DEF TracksMirror
<1> HIDE DEF gt
<1>5. ASSUME NEW t \in Tracks
      PROVE  /\ gt[t].ancestor = FREE <=> gt[t].successor = FREE
             /\ gt[t].successor \in Tracks => gt[gt[t].successor].ancestor = t
             /\ gt[t].ancestor \in Tracks => gt[gt[t].ancestor].successor = t
  <2>1. CASE t = c
    <3>1. ft[c].ancestor \in Tracks => ft[c].ancestor # c /\ ft[c].ancestor # i
      BY <1>4, Geometry DEF TracksMirror, Linked
    <3>2. ft[c].ancestor \in Tracks => ft[ft[c].ancestor].successor = c
      BY DEF TracksMirror, Linked
    <3> QED BY <1>0, <1>1, <1>2, <1>3, <1>4, <2>1, <3>1, <3>2, Geometry
  <2>2. CASE t = i
    BY <1>1, <1>2, <2>2, Geometry
  <2>3. CASE t # c /\ t # i
    <3>1. ft[t].successor \in Tracks => ft[t].successor # i /\ ft[ft[t].successor].ancestor = t
      BY <1>4, Geometry DEF TracksMirror, Linked
    <3>2. ft[t].ancestor \in Tracks => ft[t].ancestor # i /\ ft[t].ancestor # c
                                       /\ ft[ft[t].ancestor].successor = t
      BY Geometry DEF TracksMirror, Linked
    <3>3. gt[t] = ft[t] /\ (ft[t].ancestor = FREE <=> ft[t].successor = FREE)
      BY <1>3, <2>3 DEF TracksMirror
    <3>4. ft[t].successor \in Tracks => gt[ft[t].successor].ancestor = t
      BY <1>1, <1>3, <3>1
    <3>5. ft[t].ancestor \in Tracks => gt[ft[t].ancestor].successor = t
      BY <1>3, <3>2
    <3> QED BY <3>3, <3>4, <3>5
  <2> QED BY <2>1, <2>2, <2>3
<1>6. TracksMirror(gt)
  BY <1>5 DEF TracksMirror, Linked
<1> QED BY <1>1, <1>2, <1>3, <1>6 DEF gt

LEMMA GrownChain ==
  ASSUME NEW ft \in FatType, TracksMirror(ft), NEW c \in Tracks, NEW i \in Tracks,
         ft[c].successor \notin Tracks, ft[c].successor # FREE, ft[i].successor = FREE,
         NEW t \in Tracks
  PROVE  /\ Chain(ft, t) \subseteq Chain(Grown(ft, c, i), t)
         /\ c \in Chain(ft, t) => i \in Chain(Grown(ft, c, i), t)
<1> DEFINE gt == Grown(ft, c, i)
<1>1. gt[c].successor = i /\ \A v \in Tracks : v # c /\ v # i => gt[v] = ft[v]
  BY GrownTable
<1> HIDE DEF gt
<1>2. \A v \in Chain(ft, t) : ft[v].successor \in Tracks => gt[v].successor = ft[v].successor
  BY <1>1, ChainHere, Geometry
<1>3. Chain(ft, t) \subseteq Chain(gt, t)
  BY <1>2, ChainKept
<1>4. c \in Chain(ft, t) => i \in Chain(gt, t)
  BY <1>1, <1>3, ChainClosed
<1> QED BY <1>3, <1>4 DEF gt

-----------------------------------------------------------------------------
(* A step of one open handle *)

SameFiles(d, e) ==
  /\ Valid(e) = Valid(d)
  /\ \A s \in Valid(d) : e[s].name = d[s].name /\ e[s].starttrack = d[s].starttrack

LEMMA FollowsAnchored ==
  ASSUME NEW ft, NEW d, NEW f \in jdfcb, NEW g, Anchored(ft, d, f), TracksMirror(ft),
         ft[f.starttrack].ancestor = NONE, Follows(ft, f, g)
  PROVE  Anchored(ft, d, g)
<1>1. f.starttrack \in Tracks
  BY FcbFields
<1>2. g.curtrack \in Chain(ft, f.starttrack)
  BY ChainClosed DEF Follows, Anchored
<1>3. ft[g.curtrack].successor # FREE
  BY <1>1, <1>2, ChainAllocated
<1> QED BY <1>2, <1>3 DEF Follows, Same, Anchored

\* What carries over to a table that keeps every chain and frees nothing.
LEMMA AnchorKept ==
  ASSUME NEW ft, NEW gt, NEW d, NEW e, NEW f \in jdfcb, Anchored(ft, d, f), SameFiles(d, e),
         Chain(ft, f.starttrack) \subseteq Chain(gt, f.starttrack),
         gt[f.curtrack].successor # FREE
  PROVE  Anchored(gt, e, f)
<1>1. f.dir_index \in Valid(d)
  BY FcbFields DEF Anchored, Valid
<1>2. e[f.dir_index].id = VALID
  BY <1>1 DEF SameFiles, Valid
<1> QED BY <1>1, <1>2 DEF Anchored, SameFiles
\* The parts of the invariant besides types, by the values they speak of.
Consistent(ft, d) == TracksMirror(ft) /\ FilesStart(ft, d) /\ StartsDiffer(d)

NoneLost(ft, d) ==
  \A t \in Tracks : ft[t].successor # FREE =>
    \E s \in Valid(d) : t \in Chain(ft, d[s].starttrack)

AllAnchored(ft, d, fc) == \A h \in Fds : fc[h] # NULL => Anchored(ft, d, fc[h])

LEMMA InvParts ==
  /\ VolumeInv <=> TypeOK /\ Consistent(fat, dir) /\ AllAnchored(fat, dir, fcb)
  /\ VolumeInv' <=> TypeOK' /\ Consistent(fat', dir') /\ AllAnchored(fat', dir', fcb')
  /\ NoLostTracks <=> NoneLost(fat, dir)
  /\ NoLostTracks' <=> NoneLost(fat', dir')
BY DEF VolumeInv, VolumeConsistent, Consistent, HandlesAnchored, AllAnchored, IsOpen,
       NoLostTracks, NoneLost

LEMMA SameFilesKept ==
  ASSUME NEW ft, NEW d, NEW e, SameFiles(d, e)
  PROVE  /\ Consistent(ft, d) => Consistent(ft, e)
         /\ NoneLost(ft, d) => NoneLost(ft, e)
<1>1. Consistent(ft, d) => FilesStart(ft, e) /\ StartsDiffer(e)
  BY DEF SameFiles, Consistent, FilesStart, StartsDiffer
<1>2. NoneLost(ft, d) => NoneLost(ft, e)
  BY DEF SameFiles, NoneLost
<1> QED BY <1>1, <1>2 DEF Consistent

\* An open handle that moves, and nothing else, keeps the invariant.
LEMMA MoveKeeps ==
  ASSUME VolumeInv, NEW h \in Fds, fcb[h] # NULL, NEW gt, NEW e, NEW g \in jdfcb,
         Moves(fat, fcb[h], gt, g), SameFiles(dir, e)
  PROVE  /\ Consistent(gt, e)
         /\ AllAnchored(gt, e, [fcb EXCEPT ![h] = g])
         /\ NoneLost(fat, dir) => NoneLost(gt, e)
         /\ \A t \in Tracks : Chain(fat, t) \subseteq Chain(gt, t)
<1> DEFINE f == fcb[h]
           c == f.curtrack
           fc == [fcb EXCEPT ![h] = g]
<1>0. /\ TypeOK /\ Consistent(fat, dir) /\ AllAnchored(fat, dir, fcb)
      /\ fat \in FatType
  BY InvParts DEF TypeOK, FatType
<1>1. f \in jdfcb /\ c \in Tracks /\ f.starttrack \in Tracks /\ f.dir_index \in Slots
  BY <1>0, FcbFields DEF TypeOK
<1>2. Anchored(fat, dir, f) /\ TracksMirror(fat)
  BY <1>0 DEF AllAnchored, Consistent
<1>3. \A k \in Fds : fcb[k] # NULL => fcb[k] \in jdfcb /\ fcb[k].starttrack \in Tracks
                                     /\ fcb[k].curtrack \in Tracks /\ Anchored(fat, dir, fcb[k])
  BY <1>0, FcbFields DEF TypeOK, AllAnchored
<1>4. \A s \in Valid(dir) : dir[s].starttrack \in Tracks /\ fat[dir[s].starttrack].ancestor = NONE
  BY <1>0 DEF Consistent, FilesStart
<1>5. f.dir_index \in Valid(dir) /\ fat[f.starttrack].ancestor = NONE
  BY <1>1, <1>2, <1>4 DEF Anchored, Valid
<1>6. fcb \in [Fds -> jdfcb \cup {NULL}]
  BY <1>0 DEF TypeOK
<1>7. CASE gt = fat /\ Follows(fat, f, g)
  <2>1. Anchored(fat, dir, g)
    BY <1>1, <1>2, <1>5, <1>7, FollowsAnchored
  <2>2. ASSUME NEW k \in Fds, fc[k] # NULL PROVE Anchored(fat, e, fc[k])
    <3>1. fc[k] \in jdfcb /\ Anchored(fat, dir, fc[k])
      BY <1>3, <1>6, <2>1, <2>2
    <3>2. fat[fc[k].curtrack].successor # FREE
      BY <3>1 DEF Anchored
    <3> HIDE DEF fc
    <3> QED BY <3>1, <3>2, AnchorKept
  <2>3. Consistent(fat, e) /\ (NoneLost(fat, dir) => NoneLost(fat, e))
    BY <1>0, SameFilesKept
  <2> QED BY <1>7, <2>2, <2>3 DEF AllAnchored
<1>8. CASE Extends(fat, f, gt, g)
  <2> DEFINE i == g.curtrack
  <2>1. /\ i \in Tracks /\ fat[i].successor = FREE /\ gt = Grown(fat, c, i) /\ Same(f, g)
        /\ fat[c].successor \notin Tracks /\ fat[c].successor # FREE
    BY <1>2, <1>8 DEF Extends, Anchored
  <2>2. /\ gt[c].successor = i /\ gt[i].successor = NONE /\ gt[i].ancestor = c
        /\ gt[c].ancestor = fat[c].ancestor
        /\ \A v \in Tracks : v # c /\ v # i => gt[v] = fat[v]
        /\ TracksMirror(gt)
    BY <1>0, <1>1, <1>2, <2>1, GrownTable
  <2>3. \A t \in Tracks : Chain(fat, t) \subseteq Chain(gt, t)
                         /\ (c \in Chain(fat, t) => i \in Chain(gt, t))
    BY <1>0, <1>1, <1>2, <2>1, GrownChain
  <2>4. \A v \in Tracks : fat[v].successor # FREE => gt[v].successor # FREE
    BY <2>1, <2>2, Geometry
  <2>5. Consistent(gt, dir)
    <3>1. fat[i].ancestor = FREE
      BY <1>2, <2>1 DEF TracksMirror
    <3>2. \A s \in Valid(dir) : gt[dir[s].starttrack].ancestor = NONE
      BY <1>4, <2>1, <2>2, <3>1, Geometry, ZenonT(60)
    <3> QED BY <1>0, <1>4, <2>2, <3>2 DEF Consistent, FilesStart
  <2>6. ASSUME NoneLost(fat, dir) PROVE NoneLost(gt, dir)
    <3>1. ASSUME NEW t \in Tracks, gt[t].successor # FREE
          PROVE  \E s \in Valid(dir) : t \in Chain(gt, dir[s].starttrack)
      <4>1. CASE t = i
        <5>1. i \in Chain(gt, f.starttrack)
          BY <1>1, <1>2, <2>3 DEF Anchored
        <5>2. dir[f.dir_index].starttrack = f.starttrack
          BY <1>2 DEF Anchored
        <5> QED BY <1>5, <4>1, <5>1, <5>2
      <4>2. CASE t # i
        <5>1. fat[t].successor # FREE
          BY <2>1, <2>2, <3>1, <4>2
        <5>2. PICK s \in Valid(dir) : t \in Chain(fat, dir[s].starttrack)
          BY <2>6, <5>1 DEF NoneLost
        <5> QED BY <1>4, <2>3, <5>2
      <4> QED BY <4>1, <4>2
    <3> QED BY <3>1 DEF NoneLost
  <2>7. ASSUME NEW k \in Fds, fc[k] # NULL PROVE Anchored(gt, e, fc[k])
    <3>1. CASE k = h
      <4>1. fc[k] = g
        BY <1>6, <3>1
      <4>2. i \in Chain(gt, f.starttrack) /\ gt[i].successor # FREE
        BY <1>1, <1>2, <2>2, <2>3, Geometry DEF Anchored
      <4>3. Anchored(gt, dir, g)
        BY <1>2, <2>1, <4>2 DEF Anchored, Same
      <4>4. Chain(gt, g.starttrack) \subseteq Chain(gt, g.starttrack) /\ gt[g.curtrack].successor # FREE
        BY <4>2
      <4> QED BY <4>1, <4>3, <4>4, AnchorKept
    <3>2. CASE k # h
      <4>1. fc[k] = fcb[k] /\ fcb[k] # NULL
        BY <1>6, <2>7, <3>2
      <4>2. fcb[k] \in jdfcb /\ Anchored(fat, dir, fcb[k])
        BY <1>3, <4>1
      <4>3. Chain(fat, fcb[k].starttrack) \subseteq Chain(gt, fcb[k].starttrack)
        BY <1>3, <2>3, <4>1
      <4>4. gt[fcb[k].curtrack].successor # FREE
        BY <1>3, <2>4, <4>1, <4>2 DEF Anchored
      <4> QED BY <4>1, <4>2, <4>3, <4>4, AnchorKept
    <3> QED BY <3>1, <3>2
  <2> QED BY <2>3, <2>5, <2>6, <2>7, SameFilesKept DEF AllAnchored
<1> QED BY <1>7, <1>8 DEF Moves

-----------------------------------------------------------------------------
(* The actions *)

\* What an action has to show besides types.
LEMMA KeepsByParts ==
  ASSUME VolumeInv, TypeOK', Consistent(fat', dir'), AllAnchored(fat', dir', fcb'),
         NoneLost(fat, dir) => NoneLost(fat', dir'), Grows
  PROVE  Keeps
BY InvParts DEF Keeps

\* Slots in use name tracks, and a table that keeps all chains grows.
LEMMA GrowsAll ==
  ASSUME VolumeInv, \A t \in Tracks : Chain(fat, t) \subseteq Chain(fat', t)
  PROVE  Grows
<1>1. \A s \in Valid(dir) : dir[s].starttrack \in Tracks
  BY DEF VolumeInv, VolumeConsistent, FilesStart
<1> QED BY <1>1 DEF Grows

LEMMA SameFilesSelf == \A d : SameFiles(d, d)
BY DEF SameFiles

\* A handle that is let go.
LEMMA LetGo ==
  ASSUME VolumeInv, NEW h
  PROVE  AllAnchored(fat, dir, [fcb EXCEPT ![h] = NULL])
BY InvParts DEF AllAnchored, TypeOK

\* A step on one handle: it moves on its file, and at most writes its slot.
HandleMove ==
  \E h \in Fds, g \in jdfcb :
    /\ fcb[h] \in jdfcb /\ fcb[h] # NULL
    /\ Moves(fat, fcb[h], fat', g)
    /\ fcb' = [fcb EXCEPT ![h] = g]
    /\ dir' \in {dir, update_dir(dir, g)}

LEMMA SameSlot ==
  ASSUME dir \in [Slots -> jddir], NEW f \in jdfcb, NEW g, Same(f, g),
         dir[f.dir_index].id = VALID, dir[f.dir_index].name = f.name,
         dir[f.dir_index].starttrack = f.starttrack
  PROVE  SameFiles(dir, update_dir(dir, g))
<1>1. f.dir_index \in Slots
  BY FcbFields
<1>2. \A s \in Slots : LET e == update_dir(dir, g) IN
        /\ e[s].id = VALID <=> dir[s].id = VALID
        /\ e[s].name = dir[s].name /\ e[s].starttrack = dir[s].starttrack
  BY <1>1 DEF update_dir, Same
<1> QED BY <1>2 DEF SameFiles, Valid

LEMMA HandleStep ==
  ASSUME VolumeInv, TypeOK', HandleMove
  PROVE  Keeps
<1>1. PICK h \in Fds, g \in jdfcb :
        /\ fcb[h] \in jdfcb /\ fcb[h] # NULL
        /\ Moves(fat, fcb[h], fat', g)
        /\ fcb' = [fcb EXCEPT ![h] = g]
        /\ dir' \in {dir, update_dir(dir, g)}
  BY DEF HandleMove
<1>2. dir \in [Slots -> jddir] /\ Anchored(fat, dir, fcb[h])
  BY <1>1, InvParts DEF TypeOK, AllAnchored
<1>3. Same(fcb[h], g)
  BY <1>1 DEF Moves, Follows, Extends
<1>4. SameFiles(dir, update_dir(dir, g))
  BY <1>1, <1>2, <1>3, SameSlot DEF Anchored
<1>5. SameFiles(dir, dir')
  BY <1>1, <1>4, SameFilesSelf
<1>6. /\ Consistent(fat', dir') /\ AllAnchored(fat', dir', fcb')
      /\ NoneLost(fat, dir) => NoneLost(fat', dir')
      /\ \A t \in Tracks : Chain(fat, t) \subseteq Chain(fat', t)
  BY <1>1, <1>5, MoveKeeps
<1>7. Grows
  BY <1>6, GrowsAll
<1> QED BY <1>6, <1>7, KeepsByParts

\* A step that leaves the volume in memory and the handles alone.
LEMMA QuietStep ==
  ASSUME VolumeInv, TypeOK', UNCHANGED <<fat, dir, fcb>>
  PROVE  Keeps
BY InvParts, KeepsByParts DEF Grows

LEMMA InitVolume == Init => VolumeInv /\ NoLostTracks
<1> SUFFICES ASSUME Init PROVE VolumeInv /\ NoLostTracks
  OBVIOUS
<1>1. TypeOK
  BY InitTyped
<1>2. Valid(dir) = {}
  BY DEF Init, Valid, FREE, VALID
<1>3. \A t \in Tracks : fat[t].ancestor = FREE /\ fat[t].successor = FREE
  BY Geometry DEF Init
<1>4. Consistent(fat, dir)
  BY <1>2, <1>3, Geometry DEF Consistent, TracksMirror, FilesStart, StartsDiffer, Linked
<1>5. AllAnchored(fat, dir, fcb) /\ NoneLost(fat, dir)
  BY <1>3 DEF AllAnchored, NoneLost, Init
<1> QED BY <1>1, <1>4, <1>5, InvParts

\* Opening a file that exists: the handle stands on the first track.
LEMMA OpenExistingKeeps ==
  ASSUME VolumeInv, TypeOK', NEW h \in Fds, NEW n \in Names, NEW flags \in OpenFlags,
         OpenExisting(h, n, flags)
  PROVE  Keeps
<1> DEFINE s == Least(find_file(dir, n))
<1>1. s \in Valid(dir) /\ s \in Slots /\ dir[s].name = n
  BY FoundSlot DEF OpenExisting
<1>2. PICK ok \in BOOLEAN : fcb' = [fcb EXCEPT ![h] = OpenedFcb(n, flags, s, ok)]
  BY MediaTyped DEF OpenExisting
<1> DEFINE g == OpenedFcb(n, flags, s, ok)
           t == dir[s].starttrack
<1>3. g.name = n /\ g.dir_index = s /\ g.starttrack = t /\ g.curtrack = t
  BY DEF OpenedFcb
<1>4. TypeOK /\ Consistent(fat, dir) /\ AllAnchored(fat, dir, fcb)
  BY InvParts
<1>5. t \in Tracks /\ fat[t].ancestor = NONE /\ dir[s].id = VALID
  BY <1>1, <1>4 DEF Consistent, FilesStart, Valid
<1>6. t \in Chain(fat, t) /\ fat[t].successor # FREE
  BY <1>4, <1>5, ChainHere, ChainAllocated DEF Consistent
<1> HIDE DEF g, s, t
<1>7. Anchored(fat, dir, g)
  BY <1>1, <1>3, <1>5, <1>6 DEF Anchored, t
<1>8. UNCHANGED <<fat, dir>>
  BY DEF OpenExisting
<1>9. AllAnchored(fat, dir, fcb')
  BY <1>2, <1>4, <1>7 DEF AllAnchored, TypeOK, g, s
<1>10. Grows
  BY <1>8 DEF Grows
<1> QED BY <1>4, <1>8, <1>9, <1>10, KeepsByParts

\* A free track that becomes the first of a chain.
Started(ft, t) == [ft EXCEPT ![t] = [ancestor |-> NONE, successor |-> NONE]]

LEMMA StartedTable ==
  ASSUME NEW ft \in FatType, TracksMirror(ft), NEW t \in Tracks, ft[t].successor = FREE
  PROVE  LET gt == Started(ft, t) IN
         /\ gt[t].ancestor = NONE /\ gt[t].successor = NONE
         /\ \A v \in Tracks : v # t => gt[v] = ft[v]
         /\ TracksMirror(gt)
         /\ \A r \in Tracks : Chain(ft, r) \subseteq Chain(gt, r)
<1> DEFINE gt == Started(ft, t)
<1>1. t \in DOMAIN ft
  BY Geometry DEF FatType
<1>2. gt[t].ancestor = NONE /\ gt[t].successor = NONE /\ \A v \in Tracks : v # t => gt[v] = ft[v]
  BY <1>1, Geometry DEF FatType, Started
<1> HIDE DEF gt
<1>3. ft[t].ancestor = FREE
  BY DEF TracksMirror
<1>4. ASSUME NEW u \in Tracks
      PROVE  /\ gt[u].ancestor = FREE <=> gt[u].successor = FREE
             /\ gt[u].successor \in Tracks => gt[gt[u].successor].ancestor = u
             /\ gt[u].ancestor \in Tracks => gt[gt[u].ancestor].successor = u
  <2>1. CASE u = t
    BY <1>2, <2>1, Geometry
  <2>2. CASE u # t
    <3>1. gt[u] = ft[u] /\ (ft[u].ancestor = FREE <=> ft[u].successor = FREE)
      BY <1>2, <2>2 DEF TracksMirror
    <3>2. ft[u].successor \in Tracks => ft[u].successor # t /\ ft[ft[u].successor].ancestor = u
      BY <1>3, Geometry DEF TracksMirror, Linked
    <3>3. ft[u].ancestor \in Tracks => ft[u].ancestor # t /\ ft[ft[u].ancestor].successor = u
      BY Geometry DEF TracksMirror, Linked
    <3> QED BY <1>2, <3>1, <3>2, <3>3
  <2> QED BY <2>1, <2>2
<1>5. TracksMirror(gt)
  BY <1>4 DEF TracksMirror, Linked
<1>6. ASSUME NEW r \in Tracks PROVE Chain(ft, r) \subseteq Chain(gt, r)
  <2>1. \A v \in Chain(ft, r) : ft[v].successor \in Tracks => gt[v].successor = ft[v].successor
    BY <1>2, ChainHere, Geometry
  <2> QED BY <2>1, ChainKept
<1> QED BY <1>2, <1>5, <1>6 DEF gt

\* Creating a file: its chain is a track that was free, its slot one that
\* was vacant.
LEMMA OpenNewKeeps ==
  ASSUME VolumeInv, TypeOK', NEW h \in Fds, NEW n \in Names, NEW flags \in OpenFlags,
         OpenNew(h, n, flags)
  PROVE  Keeps
<1> DEFINE t == Least(FreeTracks(fat))
           s == Least(Vacant(dir))
           g == CreatedFcb(n, flags, t, s)
<1>1. /\ t \in Tracks /\ fat[t].successor = FREE /\ s \in Slots /\ dir[s].id # VALID
  BY FreeTrack, VacantSlot DEF OpenNew
<1>2. /\ fat' = Started(fat, t)
      /\ dir' = update_dir(dir, g)
      /\ fcb' = [fcb EXCEPT ![h] = g]
  BY DEF OpenNew, Started
<1>3. g.name = n /\ g.dir_index = s /\ g.starttrack = t /\ g.curtrack = t
  BY DEF CreatedFcb
<1> HIDE DEF t, s, g
<1>4. /\ TypeOK /\ Consistent(fat, dir) /\ AllAnchored(fat, dir, fcb)
      /\ fat \in FatType /\ dir \in [Slots -> jddir] /\ fcb \in [Fds -> jdfcb \cup {NULL}]
  BY InvParts DEF TypeOK, FatType
<1>5. /\ fat'[t].ancestor = NONE /\ fat'[t].successor = NONE
      /\ \A v \in Tracks : v # t => fat'[v] = fat[v]
      /\ TracksMirror(fat')
      /\ \A r \in Tracks : Chain(fat, r) \subseteq Chain(fat', r)
  BY <1>1, <1>2, <1>4, StartedTable DEF Consistent
<1>6. /\ dir'[s].id = VALID /\ dir'[s].name = n /\ dir'[s].starttrack = t
      /\ \A r \in Slots : r # s => dir'[r] = dir[r]
  BY <1>1, <1>2, <1>3, <1>4 DEF update_dir
<1>7. s \notin Valid(dir) /\ Valid(dir') = Valid(dir) \cup {s}
  BY <1>1, <1>6 DEF Valid
<1>8. fat[t].ancestor = FREE
  BY <1>1, <1>4 DEF Consistent, TracksMirror
<1>9. \A r \in Valid(dir) : /\ r \in Slots /\ r # s /\ dir'[r] = dir[r]
                            /\ dir[r].starttrack \in Tracks /\ dir[r].starttrack # t
                            /\ fat[dir[r].starttrack].ancestor = NONE
                            /\ fat'[dir[r].starttrack].ancestor = NONE
  BY <1>4, <1>5, <1>6, <1>7, <1>8, Geometry, ZenonT(60) DEF Consistent, FilesStart, Valid
<1>10. Consistent(fat', dir')
  <2>1. FilesStart(fat', dir')
    BY <1>1, <1>5, <1>6, <1>7, <1>9 DEF FilesStart
  <2>2. StartsDiffer(dir')
    BY <1>4, <1>6, <1>7, <1>9 DEF StartsDiffer, Consistent
  <2> QED BY <1>5, <2>1, <2>2 DEF Consistent
<1>11. ASSUME NoneLost(fat, dir) PROVE NoneLost(fat', dir')
  <2>1. ASSUME NEW u \in Tracks, fat'[u].successor # FREE
        PROVE  \E r \in Valid(dir') : u \in Chain(fat', dir'[r].starttrack)
    <3>1. CASE u = t
      BY <1>1, <1>6, <1>7, <3>1, ChainHere
    <3>2. CASE u # t
      <4>1. PICK r \in Valid(dir) : u \in Chain(fat, dir[r].starttrack)
        BY <1>11, <1>5, <2>1, <3>2 DEF NoneLost
      <4> QED BY <1>5, <1>7, <1>9, <4>1
    <3> QED BY <3>1, <3>2
  <2> QED BY <2>1 DEF NoneLost
<1>12. ASSUME NEW k \in Fds, fcb'[k] # NULL
       PROVE  Anchored(fat', dir', fcb'[k])
  <2>1. CASE k = h
    <3>1. fcb'[k] = g
      BY <1>2, <1>4, <2>1
    <3>2. t \in Chain(fat', t) /\ fat'[t].successor # FREE
      BY <1>1, <1>5, ChainHere, Geometry
    <3> QED BY <1>3, <1>6, <3>1, <3>2 DEF Anchored
  <2>2. CASE k # h
    <3>1. fcb'[k] = fcb[k] /\ fcb[k] \in jdfcb /\ Anchored(fat, dir, fcb[k])
      BY <1>2, <1>4, <1>12, <2>2 DEF AllAnchored
    <3>2. fcb[k].dir_index \in Valid(dir) /\ fcb[k].starttrack \in Tracks /\ fcb[k].curtrack \in Tracks
      BY <3>1, FcbFields DEF Anchored, Valid
    <3>3. fat'[fcb[k].curtrack].successor # FREE
      BY <1>5, <3>1, <3>2, Geometry DEF Anchored
    <3>4. dir'[fcb[k].dir_index] = dir[fcb[k].dir_index]
      BY <1>9, <3>2
    <3> QED BY <1>5, <3>1, <3>2, <3>3, <3>4 DEF Anchored
  <2> QED BY <2>1, <2>2
<1>13. Grows
  BY <1>5, GrowsAll
<1> QED BY <1>10, <1>11, <1>12, <1>13, KeepsByParts DEF AllAnchored


LEMMA WriteHandle ==
  ASSUME TypeOK, WriteStep
  PROVE  HandleMove
<1> DEFINE h == call.fd
<1>1. /\ h \in Fds /\ fcb[h] \in jdfcb /\ call.count \in Nat
      /\ fat \in FatType /\ fcb \in [Fds -> jdfcb \cup {NULL}]
  BY DEF WriteStep, TypeOK, OnHandle, FatType
<1>2. PICK ok \in BOOLEAN :
        LET w == Flushed(fcb[h], ok)
            n == Smaller(call.count, CLUSTERSIZE - w.fcb.crpos)
        IN fat' = w.fat /\ fcb' = [fcb EXCEPT ![h] = Fill(w.fcb, n)]
  BY MediaTyped DEF WriteStep
<1> DEFINE w == Flushed(fcb[h], ok)
           n == Smaller(call.count, CLUSTERSIZE - w.fcb.crpos)
<1>3. w.fcb \in jdfcb /\ Moves(fat, fcb[h], w.fat, w.fcb)
  BY <1>1, FlushedTyped, FlushedMoves
<1>4. n \in Int
  BY <1>1, <1>3, FcbFields, Geometry DEF Smaller
<1>5. fat' = w.fat /\ fcb' = [fcb EXCEPT ![h] = Fill(w.fcb, n)] /\ dir' = dir
  BY <1>2 DEF WriteStep
<1> HIDE DEF w, n
<1>6. Fill(w.fcb, n) \in jdfcb /\ Stays(w.fcb, Fill(w.fcb, n))
  BY <1>3, <1>4, FillTyped, FillStays
<1>7. Moves(fat, fcb[h], fat', Fill(w.fcb, n))
  BY <1>3, <1>5, <1>6, MovesStays
<1>8. fcb[h] # NULL
  BY <1>1, NullAssumption
<1> HIDE DEF h
<1> QED BY <1>1, <1>5, <1>6, <1>7, <1>8 DEF HandleMove

LEMMA ReadHandle ==
  ASSUME TypeOK, ReadStep
  PROVE  HandleMove
<1> DEFINE h == call.fd
           n == Smaller(call.count, CLUSTERSIZE - fcb[h].crpos)
           f == [fcb[h] EXCEPT !.crpos = @ + n, !.pos = @ + n]
           moved == call.bp + n
<1>1. /\ h \in Fds /\ fcb[h] \in jdfcb /\ call.count \in Nat
      /\ data \in [Addrs -> Tags \cup {NULL}]
  BY DEF ReadStep, TypeOK, OnHandle
<1>2. n \in Int
  BY <1>1, FcbFields, Geometry DEF Smaller
<1>3. f \in jdfcb
  <2>1. fcb[h].crpos + n \in Int /\ fcb[h].pos + n \in Int
    BY <1>1, <1>2, FcbFields
  <2>2. \A p, q \in Int : [fcb[h] EXCEPT !.crpos = p, !.pos = q] \in jdfcb
    BY <1>1 DEF jdfcb
  <2> QED BY <2>1, <2>2, Zenon
<1>4. Stays(fcb[h], f)
  BY <1>1 DEF Stays, Same, jdfcb
<1>5. \A ok \in BOOLEAN : LET r == nkcfs_read_cluster(fat, data, f, ok).fcb IN
        r \in jdfcb /\ Moves(fat, f, fat, r)
  BY <1>1, <1>3, ReadClusterTyped, ReadMoves
<1>6. \A g \in jdfcb : [g EXCEPT !.eof = TRUE] \in jdfcb /\ Stays(g, [g EXCEPT !.eof = TRUE])
  BY DEF Stays, Same, jdfcb
<1>7. \/ fcb' = [fcb EXCEPT ![h] = f]
      \/ \E ok \in BOOLEAN :
           LET r == nkcfs_read_cluster(fat, data, f, ok) IN
           fcb' = [fcb EXCEPT ![h] = r.fcb] \/ fcb' = [fcb EXCEPT ![h] = [r.fcb EXCEPT !.eof = TRUE]]
  BY MediaTyped DEF ReadStep, ReadEnds
<1> HIDE DEF n, f
<1>8. Moves(fat, f, fat, f)
  BY DEF Moves, Follows, Same
<1>9. \E g \in jdfcb : fcb' = [fcb EXCEPT ![h] = g] /\ Moves(fat, f, fat, g)
  <2>1. CASE fcb' = [fcb EXCEPT ![h] = f]
    BY <1>3, <1>8, <2>1
  <2>2. ASSUME NEW ok \in BOOLEAN, NEW r, r = nkcfs_read_cluster(fat, data, f, ok),
               fcb' = [fcb EXCEPT ![h] = r.fcb] \/ fcb' = [fcb EXCEPT ![h] = [r.fcb EXCEPT !.eof = TRUE]]
        PROVE  \E g \in jdfcb : fcb' = [fcb EXCEPT ![h] = g] /\ Moves(fat, f, fat, g)
    <3> DEFINE e == [r.fcb EXCEPT !.eof = TRUE]
    <3>1. r.fcb \in jdfcb /\ Moves(fat, f, fat, r.fcb)
      BY <1>5, <2>2
    <3>2. e \in jdfcb /\ Stays(r.fcb, e)
      BY <1>6, <3>1
    <3> HIDE DEF e
    <3>3. Moves(fat, f, fat, e)
      BY <3>1, <3>2, MovesStays
    <3> QED BY <2>2, <3>1, <3>2, <3>3 DEF e
  <2> QED BY <1>7, <2>1, <2>2
<1>10. PICK g \in jdfcb : fcb' = [fcb EXCEPT ![h] = g] /\ Moves(fat, f, fat, g)
  BY <1>9
<1>11. Moves(fat, fcb[h], fat, g)
  BY <1>4, <1>10, StaysMoves
<1>12. fat' = fat /\ dir' = dir /\ fcb[h] # NULL
  BY <1>1, NullAssumption DEF ReadStep
<1> HIDE DEF h
<1> QED BY <1>1, <1>10, <1>11, <1>12 DEF HandleMove

LEMMA SeekHandle ==
  ASSUME TypeOK, NEW h \in Fds, NEW a \in SeekArgs, Seek(h, a[1], a[2])
  PROVE  HandleMove
<1> DEFINE p == Target(fcb[h], a[1], a[2])
<1>1. fcb[h] \in jdfcb /\ data \in [Addrs -> Tags \cup {NULL}] /\ fcb[h] # NULL
  BY DEF Seek, IsOpen, TypeOK
<1>2. p \in Int
  BY <1>1, ClientAssumption, FcbFields, Geometry DEF Target
<1>3. PICK ok \in BOOLEAN : \E g \in Sought(fcb[h], p, ok) :
        Quot(p) >= 0 /\ fcb' = [fcb EXCEPT ![h] = g]
  BY MediaTyped DEF Seek
<1> HIDE DEF p
<1>4. PICK g \in jdfcb : Moves(fat, fcb[h], fat, g) /\ fcb' = [fcb EXCEPT ![h] = g]
  BY <1>1, <1>2, <1>3, SoughtTyped, SoughtMoves
<1>5. fat' = fat /\ dir' = dir
  BY DEF Seek
<1> QED BY <1>1, <1>4, <1>5 DEF HandleMove

\* Closing a handle that may write puts its file control block back into the
\* slot it came from.
LEMMA CloseHandle ==
  ASSUME TypeOK, NEW h \in Fds, CloseWriter(h)
  PROVE  HandleMove
<1> DEFINE f == OneIndexed(fcb[h])
<1>1. fcb[h] \in jdfcb /\ fcb[h] # NULL /\ fat \in FatType
  BY DEF CloseWriter, IsOpen, TypeOK, FatType
<1>2. f \in jdfcb /\ Stays(fcb[h], f)
  <2> DEFINE x == (fcb[h].endcluster + 1) % 65536
  <2>1. x \in Nat
    BY <1>1, FcbFields
  <2>2. f = [fcb[h] EXCEPT !.endcluster = x]
    BY DEF OneIndexed
  <2> HIDE DEF x, f
  <2>3. /\ [fcb[h] EXCEPT !.endcluster = x] \in jdfcb
        /\ Stays(fcb[h], [fcb[h] EXCEPT !.endcluster = x])
    BY <1>1, <2>1 DEF jdfcb, Stays, Same
  <2> QED BY <2>2, <2>3
<1>3. PICK ok \in BOOLEAN :
       LET w == IF f.crpos = 0
                THEN [fat |-> fat, fcb |-> f, written |-> {}]
                ELSE nkcfs_write_cluster(fat, f, ok)
       IN fat' = w.fat /\ dir' = update_dir(dir, w.fcb) /\ fcb' = [fcb EXCEPT ![h] = w.fcb]
  BY MediaTyped DEF CloseWriter
<1> HIDE DEF f
<1>4. PICK g \in jdfcb : /\ dir' = update_dir(dir, g) /\ fcb' = [fcb EXCEPT ![h] = g]
                         /\ Moves(fat, f, fat', g)
  <2>1. CASE f.crpos = 0
    BY <1>2, <1>3, <2>1 DEF Moves, Follows, Same
  <2>2. CASE f.crpos # 0
    BY <1>1, <1>2, <1>3, <2>2, WriteClusterTyped, WriteClusterMoves
  <2> QED BY <2>1, <2>2
<1>5. Moves(fat, fcb[h], fat', g)
  BY <1>2, <1>4, StaysMoves
<1> QED BY <1>1, <1>4, <1>5 DEF HandleMove

LEMMA CloseReaderKeeps ==
  ASSUME VolumeInv, TypeOK', NEW h \in Fds, CloseReader(h)
  PROVE  Keeps
<1>1. fcb' = [fcb EXCEPT ![h] = NULL] /\ UNCHANGED <<fat, dir>>
  BY DEF CloseReader
<1> QED BY <1>1, LetGo, InvParts, KeepsByParts DEF Grows


\* A whole chain that is given back.
Freed(ft, t) ==
  [u \in DOMAIN ft |-> IF u \in Chain(ft, t) THEN [ancestor |-> FREE, successor |-> FREE] ELSE ft[u]]

LEMMA FreedTable ==
  ASSUME NEW ft \in FatType, TracksMirror(ft), NEW t \in Tracks, ft[t].ancestor = NONE
  PROVE  LET gt == Freed(ft, t) IN
         /\ \A u \in Chain(ft, t) : gt[u].successor = FREE
         /\ \A u \in Tracks \ Chain(ft, t) : gt[u] = ft[u]
         /\ TracksMirror(gt)
         /\ \A r \in Tracks : Chain(ft, r) \cap Chain(ft, t) = {} => Chain(ft, r) \subseteq Chain(gt, r)
<1> DEFINE gt == Freed(ft, t)
           C == Chain(ft, t)
<1>1. \A u \in Tracks : u \in DOMAIN ft
  BY Geometry DEF FatType
<1>2. /\ \A u \in C : u \in Tracks /\ gt[u].successor = FREE /\ gt[u].ancestor = FREE
      /\ \A u \in Tracks \ C : gt[u] = ft[u]
  BY <1>1, ChainHere DEF Freed
<1> HIDE DEF gt
<1>3. ASSUME NEW u \in Tracks \ C
      PROVE  /\ gt[u].ancestor = FREE <=> gt[u].successor = FREE
             /\ gt[u].successor \in Tracks => gt[gt[u].successor].ancestor = u
             /\ gt[u].ancestor \in Tracks => gt[gt[u].ancestor].successor = u
  <2>1. gt[u] = ft[u] /\ (ft[u].ancestor = FREE <=> ft[u].successor = FREE)
    BY <1>2 DEF TracksMirror
  <2>2. ASSUME ft[u].successor \in Tracks
        PROVE  ft[u].successor \notin C /\ ft[ft[u].successor].ancestor = u
    <3>1. ft[ft[u].successor].ancestor = u
      BY <2>2 DEF TracksMirror, Linked
    <3>2. ft[u].successor \in C => ft[u].successor = t \/ u \in C
      BY <3>1, ChainBack
    <3> QED BY <3>1, <3>2, Geometry
  <2>3. ASSUME ft[u].ancestor \in Tracks
        PROVE  ft[u].ancestor \notin C /\ ft[ft[u].ancestor].successor = u
    <3>1. ft[ft[u].ancestor].successor = u
      BY <2>3 DEF TracksMirror, Linked
    <3> QED BY <3>1, ChainClosed
  <2> QED BY <1>2, <2>1, <2>2, <2>3
<1>4. TracksMirror(gt)
  BY <1>2, <1>3, Geometry, ZenonT(60) DEF TracksMirror, Linked
<1>5. ASSUME NEW r \in Tracks, Chain(ft, r) \cap C = {}
      PROVE  Chain(ft, r) \subseteq Chain(gt, r)
  <2>1. \A v \in Chain(ft, r) : v \in Tracks \ C
    BY <1>5, ChainHere
  <2>2. \A v \in Chain(ft, r) : ft[v].successor \in Tracks => gt[v].successor = ft[v].successor
    BY <1>2, <2>1
  <2> HIDE DEF C
  <2> QED BY <2>2, ChainKept
<1> QED BY <1>2, <1>4, <1>5 DEF gt

\* Removing a file: no other chain and no open handle touches what it frees.
LEMMA RemoveKeeps ==
  ASSUME VolumeInv, TypeOK', NEW n \in Names, Remove(n)
  PROVE  Keeps
<1> DEFINE s == Least(find_file(dir, n))
           t == dir[s].starttrack
<1>1. s \in Valid(dir) /\ s \in Slots /\ dir[s].name = n
  BY FoundSlot DEF Remove
<1>2. fat' = Freed(fat, t) /\ dir' = [dir EXCEPT ![s].id = NONE] /\ fcb' = fcb /\ OpenOn(n) = {}
  BY DEF Remove, Freed
<1> HIDE DEF s, t
<1>3. /\ TypeOK /\ Consistent(fat, dir) /\ AllAnchored(fat, dir, fcb)
      /\ fat \in FatType /\ dir \in [Slots -> jddir] /\ fcb \in [Fds -> jdfcb \cup {NULL}]
  BY InvParts DEF TypeOK, FatType
<1>4. \A r \in Valid(dir) : r \in Slots /\ dir[r].starttrack \in Tracks
                            /\ fat[dir[r].starttrack].ancestor = NONE
  BY <1>3 DEF Consistent, FilesStart, Valid
<1>5. t \in Tracks /\ fat[t].ancestor = NONE
  BY <1>1, <1>4 DEF t
<1>6. /\ \A u \in Chain(fat, t) : fat'[u].successor = FREE
      /\ \A u \in Tracks \ Chain(fat, t) : fat'[u] = fat[u]
      /\ TracksMirror(fat')
      /\ \A r \in Tracks : Chain(fat, r) \cap Chain(fat, t) = {} => Chain(fat, r) \subseteq Chain(fat', r)
  BY <1>2, <1>3, <1>5, FreedTable DEF Consistent
<1>7. Valid(dir') = Valid(dir) \ {s} /\ \A r \in Valid(dir') : dir'[r] = dir[r]
  BY <1>1, <1>2, <1>3 DEF Valid, jddir, VALID, NONE
<1>8. ASSUME NEW r \in Valid(dir), r # s
      PROVE  /\ Chain(fat, dir[r].starttrack) \cap Chain(fat, t) = {}
             /\ Chain(fat, dir[r].starttrack) \subseteq Chain(fat', dir[r].starttrack)
             /\ Chain(fat, dir[r].starttrack) \subseteq Tracks \ Chain(fat, t)
             /\ dir[r].starttrack \in Tracks \ Chain(fat, t)
  <2>1. dir[r].starttrack # t
    BY <1>1, <1>3, <1>8 DEF t, Consistent, StartsDiffer
  <2>2. Chain(fat, dir[r].starttrack) \cap Chain(fat, t) = {}
    BY <1>3, <1>4, <1>5, <2>1, ChainsApart DEF Consistent
  <2> QED BY <1>4, <1>6, <2>2, ChainHere
<1>9. Consistent(fat', dir')
  BY <1>3, <1>4, <1>6, <1>7, <1>8 DEF Consistent, FilesStart, StartsDiffer
<1>10. ASSUME NoneLost(fat, dir) PROVE NoneLost(fat', dir')
  <2>1. ASSUME NEW u \in Tracks, fat'[u].successor # FREE
        PROVE  \E r \in Valid(dir') : u \in Chain(fat', dir'[r].starttrack)
    <3>1. u \notin Chain(fat, t) /\ fat[u].successor # FREE
      BY <1>6, <2>1
    <3>2. PICK r \in Valid(dir) : u \in Chain(fat, dir[r].starttrack)
      BY <1>10, <3>1 DEF NoneLost
    <3>3. r # s
      BY <3>1, <3>2 DEF t
    <3> QED BY <1>7, <1>8, <3>2, <3>3
  <2> QED BY <2>1 DEF NoneLost
<1>11. ASSUME NEW k \in Fds, fcb[k] # NULL
       PROVE  Anchored(fat', dir', fcb[k])
  <2> DEFINE r == fcb[k].dir_index
  <2>1. fcb[k] \in jdfcb /\ Anchored(fat, dir, fcb[k]) /\ fcb[k].name # n
    BY <1>2, <1>3, <1>11 DEF AllAnchored, OpenOn, IsOpen
  <2>2. r \in Valid(dir) /\ r # s /\ dir[r].starttrack = fcb[k].starttrack
    BY <1>1, <2>1, FcbFields DEF Anchored, Valid
  <2>3. fcb[k].curtrack \in Tracks \ Chain(fat, t)
    BY <1>8, <2>1, <2>2 DEF Anchored
  <2>4. fat'[fcb[k].curtrack] = fat[fcb[k].curtrack]
    BY <1>6, <2>3
  <2>5. dir'[r] = dir[r]
    BY <1>7, <2>2
  <2>6. fcb[k].curtrack \in Chain(fat', fcb[k].starttrack)
    BY <1>8, <2>1, <2>2 DEF Anchored
  <2> QED BY <2>1, <2>4, <2>5, <2>6 DEF Anchored
<1>12. Grows
  BY <1>7, <1>8 DEF Grows
<1> QED BY <1>2, <1>9, <1>10, <1>11, <1>12, KeepsByParts DEF AllAnchored

\* Renaming a file: no open handle knows it by its old name.
LEMMA RenameKeeps ==
  ASSUME VolumeInv, TypeOK', NEW old \in Names, NEW new \in Names, Rename(old, new)
  PROVE  Keeps
<1> DEFINE s == Least(find_file(dir, old))
<1>1. s \in Slots /\ dir[s].name = old
  BY FoundSlot DEF Rename
<1>2. dir' = [dir EXCEPT ![s].name = new] /\ UNCHANGED <<fat, fcb>> /\ OpenOn(old) = {}
  BY DEF Rename
<1> HIDE DEF s
<1>3. /\ TypeOK /\ Consistent(fat, dir) /\ AllAnchored(fat, dir, fcb)
      /\ dir \in [Slots -> jddir] /\ fcb \in [Fds -> jdfcb \cup {NULL}]
  BY InvParts DEF TypeOK
<1>4. /\ \A r \in Slots : dir'[r].id = dir[r].id /\ dir'[r].starttrack = dir[r].starttrack
      /\ \A r \in Slots : r # s => dir'[r].name = dir[r].name
  BY <1>1, <1>2, <1>3 DEF jddir
<1>5. Valid(dir') = Valid(dir) /\ Valid(dir) \subseteq Slots
  BY <1>4 DEF Valid
<1>6. Consistent(fat', dir')
  <2>1. TracksMirror(fat') /\ FilesStart(fat', dir')
    BY <1>2, <1>3, <1>4, <1>5 DEF Consistent, FilesStart
  <2>2. StartsDiffer(dir')
    BY <1>3, <1>4, <1>5 DEF Consistent, StartsDiffer
  <2> QED BY <2>1, <2>2 DEF Consistent
<1>7. NoneLost(fat, dir) => NoneLost(fat', dir')
  BY <1>2, <1>4, <1>5 DEF NoneLost
<1>8. ASSUME NEW k \in Fds, fcb[k] # NULL
      PROVE  Anchored(fat, dir', fcb[k])
  <2>1. fcb[k] \in jdfcb /\ Anchored(fat, dir, fcb[k]) /\ fcb[k].name # old
    BY <1>2, <1>3, <1>8 DEF AllAnchored, OpenOn, IsOpen
  <2>2. fcb[k].dir_index \in Slots /\ fcb[k].dir_index # s
    BY <1>1, <2>1, FcbFields DEF Anchored
  <2> QED BY <1>4, <2>1, <2>2 DEF Anchored
<1>9. Grows
  BY <1>2 DEF Grows
<1> QED BY <1>2, <1>6, <1>7, <1>8, <1>9, KeepsByParts DEF AllAnchored

LEMMA SaveKeeps ==
  ASSUME VolumeInv, TypeOK',
         CloseFat \/ CloseDir \/ RemoveFat \/ RemoveDir \/ RenameDir
  PROVE  Keeps
<1>1. CASE CloseDir
  <2>1. UNCHANGED <<fat, dir>> /\ fcb' = [fcb EXCEPT ![call.fd] = NULL]
    BY <1>1 DEF CloseDir, SaveDir
  <2> QED BY <2>1, LetGo, InvParts, KeepsByParts DEF Grows
<1>2. CASE CloseFat \/ RemoveFat \/ RemoveDir \/ RenameDir
  BY <1>2, QuietStep DEF CloseFat, RemoveFat, RemoveDir, RenameDir, SaveFat, SaveDir
<1> QED BY <1>1, <1>2

-----------------------------------------------------------------------------
(* The theorems.  Mounting again reads what an interrupted or failed save   *)
(* left on the medium, so they are about one mount of the volume.           *)

OneMount == Calls \cap {"remount", "powerfail"} = {}

\* A handle moves in these calls, and in no other.
LEMMA HandleSteps ==
  ASSUME TypeOK, SeekCall \/ WriteStep \/ ReadStep \/ \E h \in Fds : CloseWriter(h)
  PROVE  HandleMove
BY WriteHandle, ReadHandle, SeekHandle, CloseHandle DEF SeekCall

\* Whatever happens besides mounting.
LEMMA VolumeStep ==
  ASSUME VolumeInv, [Next]_vars, ~Remount, ~PowerFail
  PROVE  Keeps
<1>1. TypeOK'
  BY TypeStep DEF VolumeInv
<1>2. CASE OpenCall
  BY <1>1, <1>2, OpenExistingKeeps, OpenNewKeeps DEF OpenCall
<1>3. CASE WriteCall \/ ReadCall \/ nkcfs_getfree
  BY <1>1, <1>3, QuietStep DEF WriteCall, ReadCall, Write, Read, nkcfs_getfree
<1>4. CASE SeekCall \/ WriteStep \/ ReadStep \/ \E h \in Fds : CloseWriter(h)
  BY <1>1, <1>4, HandleSteps, HandleStep DEF VolumeInv
<1>5. CASE \E h \in Fds : CloseReader(h)
  BY <1>1, <1>5, CloseReaderKeeps
<1>6. CASE RemoveCall \/ RenameCall
  BY <1>1, <1>6, RemoveKeeps, RenameKeeps DEF RemoveCall, RenameCall
<1>7. CASE CloseFat \/ CloseDir \/ RemoveFat \/ RemoveDir \/ RenameDir
  BY <1>1, <1>7, SaveKeeps
<1>8. CASE UNCHANGED vars
  BY <1>1, <1>8, QuietStep DEF vars
<1> QED BY <1>2, <1>3, <1>4, <1>5, <1>6, <1>7, <1>8 DEF Next, Client, Driver, CloseCall

\* Without remounting and power failures.
LEMMA OneMountStep ==
  ASSUME VolumeInv, [Next]_vars, OneMount
  PROVE  Keeps
<1>1. ~Remount /\ ~PowerFail
  BY DEF OneMount, Remount, PowerFail, Ready
<1> QED BY <1>1, VolumeStep

LEMMA OneMountHolds ==
  ASSUME OneMount
  PROVE  Spec => [](VolumeInv /\ NoLostTracks)
<1>1. Init => VolumeInv /\ NoLostTracks
  BY InitVolume
<1>2. VolumeInv /\ NoLostTracks /\ [Next]_vars => (VolumeInv /\ NoLostTracks)'
  BY OneMountStep DEF Keeps
<1> QED BY <1>1, <1>2, PTL DEF Spec

\* While the volume stays mounted its track table and directory agree:
\* successors and ancestors mirror each other and every file starts on an
\* allocated first track of its own, even when the medium fails or is full.
THEOREM VolumeStaysConsistent ==
  ASSUME OneMount
  PROVE  Spec => []VolumeConsistent
<1>1. VolumeInv /\ NoLostTracks => VolumeConsistent
  BY DEF VolumeInv
<1> QED BY <1>1, OneMountHolds, PTL

\* No open handle ever loses its file: it keeps its slot, its name and a
\* track of its chain until it is closed.
THEOREM HandlesStayAnchored ==
  ASSUME OneMount
  PROVE  Spec => []HandlesAnchored
<1>1. VolumeInv /\ NoLostTracks => HandlesAnchored
  BY DEF VolumeInv
<1> QED BY <1>1, OneMountHolds, PTL

\* No track is lost: an allocated track is on the chain of a file, so removing
\* all files gives back all tracks.
THEOREM TracksStayReachable ==
  ASSUME OneMount
  PROVE  Spec => []NoLostTracks
<1>1. VolumeInv /\ NoLostTracks => NoLostTracks
  OBVIOUS
<1> QED BY <1>1, OneMountHolds, PTL

\* No two files share a track.
THEOREM FilesStayDisjoint ==
  ASSUME OneMount
  PROVE  Spec => []ChainsDisjoint
<1>1. VolumeInv /\ NoLostTracks => ChainsDisjoint
  <2> SUFFICES ASSUME VolumeConsistent, NEW s \in Valid(dir), NEW r \in Valid(dir), s # r
               PROVE  Chain(fat, dir[s].starttrack) \cap Chain(fat, dir[r].starttrack) = {}
    BY DEF VolumeInv, ChainsDisjoint, Disjoint
  <2> QED BY ChainsApart DEF VolumeConsistent, FilesStart, StartsDiffer
<1> QED BY <1>1, OneMountHolds, PTL

\* While a file keeps its slot nobody else's call takes a track out of its
\* chain: chains only grow.
THEOREM ChainsNeverShrink ==
  ASSUME OneMount
  PROVE  Spec => ChainsOnlyGrow
<1>1. (VolumeInv /\ NoLostTracks) /\ [Next]_vars => [Grows]_<<fat, dir>>
  BY OneMountStep DEF Keeps
<1> QED BY <1>1, OneMountHolds, PTL DEF Spec, ChainsOnlyGrow, Grows

-----------------------------------------------------------------------------
(* Names.  Closing a handle writes the name it was opened with back into    *)
(* its slot, so a name stays unique because no slot of an open handle is    *)
(* renamed or reused.  Over mounts: the files on the medium are in memory   *)
(* under the same names, and while a removal or renaming is on its way to   *)
(* the medium, no name it had there is another file's in memory.            *)

\* The handle's slot is in use by the file it was opened on.
Named(d, f) ==
  /\ d[f.dir_index].id = VALID
  /\ d[f.dir_index].name = f.name
  /\ d[f.dir_index].starttrack = f.starttrack

AllNamed(d, fc) == \A h \in Fds : fc[h] # NULL => Named(d, fc[h])

Distinct(d) == \A s, r \in Valid(d) : d[s].name = d[r].name => s = r

\* The files of directory d are in e, under the same names.
NamedIn(d, e) == \A s \in Valid(d) : s \in Valid(e) /\ e[s].name = d[s].name

\* No file of directory d has the name another slot has in e.
ApartFrom(d, e) == \A s \in Valid(d), r \in Valid(e) : d[s].name = e[r].name => s = r

Rewriting == {"removeFat", "removeDir", "renameDir"}

\* What keeps a directory that mixes sectors of memory and medium distinct.
MediumNamed ==
  /\ Distinct(mdir)
  /\ ApartFrom(mdir, dir)
  /\ call.op \notin Rewriting => NamedIn(mdir, dir)

NamesInv ==
  /\ TypeOK
  /\ Distinct(dir)
  /\ AllNamed(dir, fcb)

\* A directory that names the same files keeps names distinct and handles named.
LEMMA NamedKept ==
  ASSUME NEW d, NEW e, SameFiles(d, e)
  PROVE  /\ Distinct(d) => Distinct(e)
         /\ \A f \in jdfcb : Named(d, f) => Named(e, f)
<1>1. ASSUME NEW f \in jdfcb, Named(d, f)
      PROVE  Named(e, f)
  <2>1. f.dir_index \in Valid(d)
    BY <1>1, FcbFields DEF Named, Valid
  <2>2. e[f.dir_index].id = VALID
    BY <2>1 DEF SameFiles, Valid
  <2> QED BY <1>1, <2>1, <2>2 DEF Named, SameFiles
<1> QED BY <1>1 DEF Distinct, SameFiles

\* Steps that leave the directory alone and open no handle.
LEMMA NamesQuiet ==
  ASSUME NamesInv, TypeOK', dir' = dir,
         \A k \in Fds : fcb'[k] # NULL => fcb'[k] = fcb[k]
  PROVE  NamesInv'
BY DEF NamesInv, AllNamed, Named, Distinct, Valid

LEMMA NamesMove ==
  ASSUME NamesInv, TypeOK', HandleMove
  PROVE  NamesInv'
<1>1. PICK h \in Fds, g \in jdfcb :
        /\ fcb[h] \in jdfcb /\ fcb[h] # NULL
        /\ Moves(fat, fcb[h], fat', g)
        /\ fcb' = [fcb EXCEPT ![h] = g]
        /\ dir' \in {dir, update_dir(dir, g)}
  BY DEF HandleMove
<1>2. /\ dir \in [Slots -> jddir] /\ fcb \in [Fds -> jdfcb \cup {NULL}]
      /\ AllNamed(dir, fcb)
  BY DEF NamesInv, TypeOK
<1>3. Same(fcb[h], g) /\ Named(dir, fcb[h])
  BY <1>1, <1>2 DEF Moves, Follows, Extends, AllNamed
<1>4. SameFiles(dir, dir')
  BY <1>1, <1>2, <1>3, SameSlot, SameFilesSelf DEF Named
<1>5. Named(dir, g)
  BY <1>3 DEF Named, Same
<1>6. \A k \in Fds : fcb'[k] # NULL => fcb'[k] \in jdfcb /\ Named(dir, fcb'[k])
  BY <1>1, <1>2, <1>5 DEF AllNamed
<1>7. AllNamed(dir', fcb')
  BY <1>4, <1>6, NamedKept DEF AllNamed
<1>8. Distinct(dir')
  BY <1>4, NamedKept DEF NamesInv
<1> QED BY <1>7, <1>8 DEF NamesInv

LEMMA NamesOpenExisting ==
  ASSUME NamesInv, TypeOK', NEW h \in Fds, NEW n \in Names, NEW flags \in OpenFlags,
         OpenExisting(h, n, flags)
  PROVE  NamesInv'
<1> DEFINE s == Least(find_file(dir, n))
<1>1. s \in Valid(dir) /\ dir[s].name = n
  BY FoundSlot DEF OpenExisting
<1>2. PICK ok \in BOOLEAN : fcb' = [fcb EXCEPT ![h] = OpenedFcb(n, flags, s, ok)]
  BY MediaTyped DEF OpenExisting
<1> DEFINE g == OpenedFcb(n, flags, s, ok)
<1>3. g.name = n /\ g.dir_index = s /\ g.starttrack = dir[s].starttrack
  BY DEF OpenedFcb
<1> HIDE DEF g, s
<1>4. Named(dir, g)
  BY <1>1, <1>3 DEF Named, Valid
<1>5. fcb' = [fcb EXCEPT ![h] = g] /\ dir' = dir
  BY <1>2 DEF OpenExisting, g, s
<1>6. AllNamed(dir, fcb')
  BY <1>4, <1>5 DEF NamesInv, AllNamed, TypeOK
<1> QED BY <1>5, <1>6 DEF NamesInv, AllNamed, Named, Distinct, Valid

\* A new file takes a vacant slot, which no handle has, and a name no slot has.
LEMMA NamesOpenNew ==
  ASSUME NamesInv, TypeOK', NEW h \in Fds, NEW n \in Names, NEW flags \in OpenFlags,
         OpenNew(h, n, flags)
  PROVE  NamesInv'
<1> DEFINE t == Least(FreeTracks(fat))
           s == Least(Vacant(dir))
           g == CreatedFcb(n, flags, t, s)
<1>1. s \in Slots /\ dir[s].id # VALID /\ find_file(dir, n) = {}
  BY VacantSlot DEF OpenNew
<1>2. dir' = update_dir(dir, g) /\ fcb' = [fcb EXCEPT ![h] = g]
  BY DEF OpenNew
<1>3. g.name = n /\ g.dir_index = s
  BY DEF CreatedFcb
<1> HIDE DEF t, s, g
<1>4. /\ dir \in [Slots -> jddir] /\ fcb \in [Fds -> jdfcb \cup {NULL}]
      /\ AllNamed(dir, fcb) /\ Distinct(dir)
  BY DEF NamesInv, TypeOK
<1>5. /\ dir'[s].id = VALID /\ dir'[s].name = n /\ dir'[s].starttrack = g.starttrack
      /\ \A r \in Slots : r # s => dir'[r] = dir[r]
  BY <1>1, <1>2, <1>3, <1>4 DEF update_dir
<1>6. /\ Valid(dir') = Valid(dir) \cup {s}
      /\ \A r \in Valid(dir) : r \in Slots /\ r # s /\ dir[r].name # n
  BY <1>1, <1>5 DEF Valid, find_file
<1>7. Distinct(dir')
  BY <1>4, <1>5, <1>6 DEF Distinct
<1>8. Named(dir', g)
  BY <1>3, <1>5 DEF Named
<1>9. ASSUME NEW k \in Fds, k # h, fcb[k] # NULL
      PROVE  Named(dir', fcb[k])
  <2>1. fcb[k] \in jdfcb /\ Named(dir, fcb[k])
    BY <1>4, <1>9 DEF AllNamed
  <2>2. fcb[k].dir_index \in Slots /\ fcb[k].dir_index # s
    BY <1>1, <2>1, FcbFields DEF Named
  <2> QED BY <1>5, <2>1, <2>2 DEF Named
<1>10. AllNamed(dir', fcb')
  BY <1>2, <1>4, <1>8, <1>9 DEF AllNamed
<1> QED BY <1>2, <1>4, <1>7, <1>10 DEF NamesInv

\* Removing or renaming a file that no handle has open.
LEMMA NamesDirectory ==
  ASSUME NamesInv, TypeOK', NEW n \in Names,
         Remove(n) \/ \E new \in Names : Rename(n, new)
  PROVE  NamesInv'
<1> DEFINE s == Least(find_file(dir, n))
<1>1. s \in Valid(dir) /\ s \in Slots /\ dir[s].name = n
  BY FoundSlot DEF Remove, Rename
<1>2. fcb' = fcb /\ OpenOn(n) = {}
  BY DEF Remove, Rename
<1>3. \/ dir' = [dir EXCEPT ![s].id = NONE]
      \/ \E new \in Names : find_file(dir, new) = {} /\ dir' = [dir EXCEPT ![s].name = new]
  BY DEF Remove, Rename
<1> HIDE DEF s
<1>4. /\ dir \in [Slots -> jddir] /\ fcb \in [Fds -> jdfcb \cup {NULL}]
      /\ AllNamed(dir, fcb) /\ Distinct(dir)
  BY DEF NamesInv, TypeOK
<1>5. \A r \in Slots : r # s => dir'[r] = dir[r]
  BY <1>1, <1>3, <1>4
<1>6. Distinct(dir')
  <2>1. CASE dir' = [dir EXCEPT ![s].id = NONE]
    <3>1. dir'[s].id # VALID
      BY <1>1, <1>4, <2>1 DEF jddir, VALID, NONE
    <3>2. \A r \in Valid(dir') : r \in Valid(dir) /\ dir'[r] = dir[r]
      BY <1>5, <3>1 DEF Valid
    <3> QED BY <1>4, <3>2 DEF Distinct
  <2>2. ASSUME NEW new \in Names, find_file(dir, new) = {}, dir' = [dir EXCEPT ![s].name = new]
        PROVE  Distinct(dir')
    <3>1. dir'[s].name = new /\ dir'[s].id = dir[s].id
      BY <1>1, <1>4, <2>2 DEF jddir
    <3>2. /\ Valid(dir') = Valid(dir) /\ Valid(dir) \subseteq Slots
          /\ \A r \in Valid(dir) : dir[r].name # new
      BY <1>5, <2>2, <3>1 DEF Valid, find_file
    <3> QED BY <1>4, <1>5, <3>1, <3>2 DEF Distinct
  <2> QED BY <1>3, <2>1, <2>2
<1>7. ASSUME NEW k \in Fds, fcb[k] # NULL
      PROVE  Named(dir', fcb[k])
  <2>1. fcb[k] \in jdfcb /\ Named(dir, fcb[k]) /\ fcb[k].name # n
    BY <1>2, <1>4, <1>7 DEF AllNamed, OpenOn, IsOpen
  <2>2. fcb[k].dir_index \in Slots /\ fcb[k].dir_index # s
    BY <1>1, <2>1, FcbFields DEF Named
  <2> QED BY <1>5, <2>1, <2>2 DEF Named
<1> QED BY <1>2, <1>4, <1>6, <1>7 DEF NamesInv, AllNamed

LEMMA NamesStep ==
  ASSUME NamesInv, [Next]_vars, ~Remount, ~PowerFail
  PROVE  NamesInv'
<1>1. TypeOK' /\ TypeOK
  BY TypeStep DEF NamesInv
<1>2. CASE OpenCall
  BY <1>1, <1>2, NamesOpenExisting, NamesOpenNew DEF OpenCall
<1>3. CASE SeekCall \/ WriteStep \/ ReadStep \/ \E h \in Fds : CloseWriter(h)
  BY <1>1, <1>3, HandleSteps, NamesMove
<1>4. CASE RemoveCall \/ RenameCall
  BY <1>1, <1>4, NamesDirectory DEF RemoveCall, RenameCall
<1>5. CASE WriteCall \/ ReadCall \/ nkcfs_getfree \/ CloseFat \/ RemoveFat \/ UNCHANGED vars
  <2>1. UNCHANGED <<dir, fcb>>
    BY <1>5 DEF WriteCall, Write, ReadCall, Read, nkcfs_getfree, CloseFat, RemoveFat, SaveFat, vars
  <2> QED BY <1>1, <2>1, NamesQuiet
<1>6. CASE (\E h \in Fds : CloseReader(h)) \/ CloseDir \/ RemoveDir \/ RenameDir
  <2>1. dir' = dir
    BY <1>6 DEF CloseReader, CloseDir, RemoveDir, RenameDir, SaveDir
  <2>2. fcb' = fcb \/ \E h : fcb' = [fcb EXCEPT ![h] = NULL]
    BY <1>6 DEF CloseReader, CloseDir, RemoveDir, RenameDir
  <2>3. \A k \in Fds : fcb'[k] # NULL => fcb'[k] = fcb[k]
    BY <1>1, <2>2 DEF TypeOK
  <2> QED BY <1>1, <2>1, <2>3, NamesQuiet
<1> QED BY <1>2, <1>3, <1>4, <1>5, <1>6 DEF Next, Client, Driver, CloseCall

\* Files that are in a directory of distinct names are distinct themselves.
LEMMA NamedApart ==
  ASSUME NEW d, NEW e, NamedIn(d, e), Distinct(e)
  PROVE  Distinct(d) /\ ApartFrom(d, e)
BY DEF NamedIn, Distinct, ApartFrom

LEMMA NamedInMore ==
  ASSUME NEW d, NEW e, NEW g, NamedIn(d, e), NamedIn(e, g)
  PROVE  NamedIn(d, g)
BY DEF NamedIn

LEMMA SameFilesNamed ==
  ASSUME NEW d, NEW e, SameFiles(d, e)
  PROVE  NamedIn(d, e)
BY DEF SameFiles, NamedIn

\* Calls that lose no file leave the medium's files in memory.
LEMMA MediumNamedMore ==
  ASSUME MediumNamed, NamesInv', call.op \notin Rewriting, mdir' = mdir, NamedIn(dir, dir')
  PROVE  MediumNamed'
<1>1. NamedIn(mdir', dir') /\ Distinct(dir')
  BY NamedInMore DEF MediumNamed, NamesInv
<1> QED BY <1>1, NamedApart DEF MediumNamed

LEMMA MediumNamedMove ==
  ASSUME NamesInv, MediumNamed, NamesInv', call.op \notin Rewriting, mdir' = mdir, HandleMove
  PROVE  MediumNamed'
<1>1. PICK h \in Fds, g \in jdfcb :
        /\ fcb[h] \in jdfcb /\ fcb[h] # NULL
        /\ Moves(fat, fcb[h], fat', g)
        /\ dir' \in {dir, update_dir(dir, g)}
  BY DEF HandleMove
<1>2. dir \in [Slots -> jddir] /\ Named(dir, fcb[h])
  BY <1>1 DEF NamesInv, TypeOK, AllNamed
<1>3. Same(fcb[h], g)
  BY <1>1 DEF Moves, Follows, Extends
<1>4. SameFiles(dir, dir')
  BY <1>1, <1>2, <1>3, SameSlot, SameFilesSelf DEF Named
<1> QED BY <1>4, SameFilesNamed, MediumNamedMore

LEMMA MediumNamedNew ==
  ASSUME NamesInv, MediumNamed, NamesInv', NEW h \in Fds, NEW n \in Names,
         NEW flags \in OpenFlags, OpenNew(h, n, flags)
  PROVE  MediumNamed'
<1> DEFINE t == Least(FreeTracks(fat))
           s == Least(Vacant(dir))
           g == CreatedFcb(n, flags, t, s)
<1>1. s \in Slots /\ dir[s].id # VALID
  BY VacantSlot DEF OpenNew
<1>2. g.dir_index = s /\ dir' = update_dir(dir, g)
  BY DEF CreatedFcb, OpenNew
<1> HIDE DEF t, s, g
<1>3. dir \in [Slots -> jddir]
  BY DEF NamesInv, TypeOK
<1>4. \A r \in Valid(dir) : r \in Slots /\ dir'[r] = dir[r]
  BY <1>1, <1>2, <1>3 DEF update_dir, Valid
<1>5. NamedIn(dir, dir')
  BY <1>4 DEF NamedIn, Valid
<1>6. mdir' = mdir /\ call.op \notin Rewriting
  BY DEF OpenNew, Ready, Rewriting
<1> QED BY <1>5, <1>6, MediumNamedMore

\* A removal or renaming begins: no file on the medium has the new name.
LEMMA MediumNamedRewrite ==
  ASSUME NamesInv, MediumNamed, NEW n \in Names, Remove(n) \/ \E new \in Names : Rename(n, new)
  PROVE  MediumNamed'
<1> DEFINE s == Least(find_file(dir, n))
<1>1. s \in Valid(dir) /\ s \in Slots
  BY FoundSlot DEF Remove, Rename
<1>2. mdir' = mdir /\ call.op \notin Rewriting /\ call'.op \in Rewriting
  BY DEF Remove, Rename, Ready, Rewriting, Idle
<1>3. \/ dir' = [dir EXCEPT ![s].id = NONE]
      \/ \E new \in Names : find_file(dir, new) = {} /\ dir' = [dir EXCEPT ![s].name = new]
  BY DEF Remove, Rename
<1> HIDE DEF s
<1>4. dir \in [Slots -> jddir] /\ NamedIn(mdir, dir) /\ Distinct(mdir) /\ ApartFrom(mdir, dir)
  BY <1>2 DEF NamesInv, TypeOK, MediumNamed
<1>5. \A r \in Slots : r # s => dir'[r] = dir[r]
  BY <1>1, <1>3, <1>4
<1>6. ApartFrom(mdir, dir')
  <2>1. CASE dir' = [dir EXCEPT ![s].id = NONE]
    <3>1. dir'[s].id # VALID
      BY <1>1, <1>4, <2>1 DEF jddir, VALID, NONE
    <3>2. \A r \in Valid(dir') : r \in Valid(dir) /\ dir'[r] = dir[r]
      BY <1>5, <3>1 DEF Valid
    <3> QED BY <1>4, <3>2 DEF ApartFrom
  <2>2. ASSUME NEW new \in Names, find_file(dir, new) = {}, dir' = [dir EXCEPT ![s].name = new]
        PROVE  ApartFrom(mdir, dir')
    <3>1. dir'[s].name = new /\ dir'[s].id = dir[s].id
      BY <1>1, <1>4, <2>2 DEF jddir
    <3>2. Valid(dir') = Valid(dir) /\ \A r \in Valid(dir) : r \in Slots /\ dir[r].name # new
      BY <1>5, <2>2, <3>1 DEF Valid, find_file
    <3>3. \A x \in Valid(mdir) : mdir[x].name # new
      BY <1>4, <3>2 DEF NamedIn
    <3> QED BY <1>4, <1>5, <3>1, <3>2, <3>3 DEF ApartFrom
  <2> QED BY <1>3, <2>1, <2>2
<1>7. Distinct(mdir')
  BY <1>2, <1>4
<1> QED BY <1>2, <1>6, <1>7 DEF MediumNamed

\* The directory read back from the medium, part of it perhaps new and part
\* old, has distinct names.
LEMMA NamesMount ==
  ASSUME NamesInv, MediumNamed, TypeOK', Remount \/ PowerFail
  PROVE  NamesInv' /\ MediumNamed'
<1>1. dir' = mdir' /\ \A h \in Fds : fcb'[h] = NULL
  BY DEF Remount, PowerFail, Mount, IsOpen
<1>2. \A r \in Slots : mdir'[r] \in {mdir[r], dir[r]}
  <2>1. CASE mdir' = mdir
    BY <2>1
  <2>2. CASE mdir' \in Torn(mdir, dir, DIR_SECTOR)
    BY <2>2, TornTyped DEF NamesInv, TypeOK
  <2> QED BY <2>1, <2>2 DEF Remount, PowerFail, DirsLeft
<1>3. Distinct(mdir')
  <2> SUFFICES ASSUME NEW s \in Valid(mdir'), NEW r \in Valid(mdir'), mdir'[s].name = mdir'[r].name
               PROVE  s = r
    BY DEF Distinct
  <2>1. s \in Slots /\ r \in Slots /\ mdir'[s].id = VALID /\ mdir'[r].id = VALID
    BY DEF Valid
  <2> QED BY <1>2, <2>1 DEF NamesInv, MediumNamed, Distinct, ApartFrom, Valid
<1>4. NamedIn(mdir', dir') /\ ApartFrom(mdir', dir')
  BY <1>1, <1>3 DEF NamedIn, ApartFrom, Distinct
<1> QED BY <1>1, <1>3, <1>4 DEF NamesInv, AllNamed, MediumNamed

LEMMA MediumNamedStep ==
  ASSUME NamesInv, MediumNamed, NamesInv', [Next]_vars, MediaFails = FALSE, ~Remount, ~PowerFail
  PROVE  MediumNamed'
<1>1. TypeOK
  BY DEF NamesInv
<1>2. NamedIn(dir, dir)
  BY SameFilesSelf, SameFilesNamed
<1>3. CASE SeekCall \/ WriteStep \/ ReadStep \/ \E h \in Fds : CloseWriter(h)
  <2>1. mdir' = mdir /\ call.op \notin Rewriting
    BY <1>3 DEF SeekCall, Seek, WriteStep, ReadStep, CloseWriter, Ready, Rewriting
  <2> QED BY <1>1, <1>3, <2>1, HandleSteps, MediumNamedMove
<1>4. CASE WriteCall \/ ReadCall \/ nkcfs_getfree \/ CloseFat \/ (\E h \in Fds : CloseReader(h))
           \/ \E h \in Fds, n \in Names, flags \in OpenFlags : OpenExisting(h, n, flags)
  <2>1. UNCHANGED <<dir, mdir>> /\ call.op \notin Rewriting
    BY <1>4 DEF WriteCall, Write, ReadCall, Read, nkcfs_getfree, CloseFat, SaveFat, CloseReader,
                OpenExisting, Ready, Rewriting
  <2> QED BY <1>2, <2>1, MediumNamedMore
<1>5. CASE \E h \in Fds, n \in Names, flags \in OpenFlags : OpenNew(h, n, flags)
  BY <1>5, MediumNamedNew
<1>6. CASE RemoveCall \/ RenameCall
  BY <1>6, MediumNamedRewrite DEF RemoveCall, RenameCall
<1>7. CASE RemoveFat \/ UNCHANGED vars
  <2>1. UNCHANGED <<dir, mdir>> /\ (call.op \in Rewriting <=> call'.op \in Rewriting)
    BY <1>1, <1>7 DEF RemoveFat, SaveFat, vars, Rewriting, TypeOK
  <2> QED BY <2>1 DEF MediumNamed, Distinct, ApartFrom, NamedIn, Valid
<1>8. CASE CloseDir \/ RemoveDir \/ RenameDir
  <2>1. mdir' = dir /\ dir' = dir
    BY <1>8 DEF CloseDir, RemoveDir, RenameDir, SaveDir
  <2>2. NamedIn(mdir', dir') /\ Distinct(dir')
    BY <1>2, <2>1 DEF NamesInv
  <2> QED BY <2>2, NamedApart DEF MediumNamed
<1> QED BY <1>3, <1>4, <1>5, <1>6, <1>7, <1>8 DEF Next, Client, Driver, OpenCall, CloseCall

\* A name stands for one file at most: over removes, renames, remounts and
\* power failures at any point, those that tear the directory among them, on
\* a medium that takes every write; and on one that refuses some while the
\* volume stays mounted.  find_file's first match is the only one.
THEOREM NamesStayUnique ==
  ASSUME MediaFails = FALSE \/ OneMount
  PROVE  Spec => []NamesUnique
<1> DEFINE Inv == NamesInv /\ (OneMount \/ MediumNamed)
<1>1. Init => Inv
  <2> SUFFICES ASSUME Init PROVE Inv
    OBVIOUS
  <2>1. Valid(dir) = {} /\ Valid(mdir) = {}
    BY DEF Init, Valid, FREE, VALID
  <2> QED BY <2>1, InitTyped DEF Init, NamesInv, AllNamed, Distinct, MediumNamed, ApartFrom, NamedIn
<1>2. Inv /\ [Next]_vars => Inv'
  <2> SUFFICES ASSUME Inv, [Next]_vars PROVE Inv'
    OBVIOUS
  <2>1. TypeOK'
    BY TypeStep DEF NamesInv
  <2>2. CASE OneMount
    <3>1. ~Remount /\ ~PowerFail
      BY <2>2 DEF OneMount, Remount, PowerFail, Ready
    <3> QED BY <2>2, <3>1, NamesStep
  <2>3. CASE ~OneMount
    <3>1. MediaFails = FALSE /\ MediumNamed
      BY <2>3
    <3>2. CASE Remount \/ PowerFail
      BY <2>1, <3>1, <3>2, NamesMount
    <3>3. CASE ~Remount /\ ~PowerFail
      BY <3>1, <3>3, NamesStep, MediumNamedStep
    <3> QED BY <3>2, <3>3
  <2> QED BY <2>2, <2>3
<1>3. Inv => NamesUnique
  BY DEF NamesInv, NamesUnique, Distinct
<1> QED BY <1>1, <1>2, <1>3, PTL DEF Spec

-----------------------------------------------------------------------------
(* Power failures.  While no call frees tracks or renames, and no write to  *)
(* the medium fails, a slot on the medium is in memory too and its chain    *)
(* only grows there.  Saving the track table first is then always safe.     *)

\* The track table reaches the medium wholly or not at all.
FatWhole == FAT_ENTRIES <= FAT_SECTOR

OnlyGrowing == Calls \cap {"remove", "rename"} = {} /\ MediaFails = FALSE

\* The files of directory d are in e, where they started.
StillThere(d, e) ==
  \A s \in Valid(d) : s \in Valid(e) /\ e[s].starttrack = d[s].starttrack

MediumInv ==
  /\ VolumeInv
  /\ Consistent(mfat, mdir)
  /\ StillThere(mdir, dir)
  /\ call.op = "closeDir" => mfat = fat
  /\ call.op \notin {"removeFat", "removeDir", "renameDir"}

\* Steps that leave the medium alone and lose no file.
LEMMA MediumAlone ==
  ASSUME MediumInv, VolumeInv', UNCHANGED <<mfat, mdir>>, StillThere(dir, dir'),
         call'.op \notin {"closeDir", "removeFat", "removeDir", "renameDir"}
         \/ (call' = call /\ fat' = fat)
  PROVE  MediumInv'
<1>1. StillThere(mdir', dir')
  BY DEF MediumInv, StillThere
<1>2. Consistent(mfat', mdir')
  BY DEF MediumInv
<1> QED BY <1>1, <1>2 DEF MediumInv

LEMMA SameFilesThere ==
  ASSUME NEW d, NEW e, SameFiles(d, e)
  PROVE  StillThere(d, e)
BY DEF SameFiles, StillThere

LEMMA MediumMove ==
  ASSUME MediumInv, VolumeInv', HandleMove, UNCHANGED <<mfat, mdir>>,
         call'.op \notin {"closeDir", "removeFat", "removeDir", "renameDir"}
         \/ (call' = call /\ fat' = fat)
  PROVE  MediumInv'
<1>1. PICK h \in Fds, g \in jdfcb :
        /\ fcb[h] \in jdfcb /\ fcb[h] # NULL
        /\ Moves(fat, fcb[h], fat', g)
        /\ dir' \in {dir, update_dir(dir, g)}
  BY DEF HandleMove
<1>2. dir \in [Slots -> jddir] /\ Anchored(fat, dir, fcb[h])
  BY <1>1, InvParts DEF MediumInv, TypeOK, AllAnchored
<1>3. Same(fcb[h], g)
  BY <1>1 DEF Moves, Follows, Extends
<1>4. SameFiles(dir, dir')
  BY <1>1, <1>2, <1>3, SameSlot, SameFilesSelf DEF Anchored
<1> QED BY <1>4, SameFilesThere, MediumAlone

\* A new file takes a vacant slot.
LEMMA MediumOpenNew ==
  ASSUME MediumInv, VolumeInv', NEW h \in Fds, NEW n \in Names, NEW flags \in OpenFlags,
         OpenNew(h, n, flags)
  PROVE  MediumInv'
<1> DEFINE t == Least(FreeTracks(fat))
           s == Least(Vacant(dir))
           g == CreatedFcb(n, flags, t, s)
<1>1. s \in Slots /\ dir[s].id # VALID
  BY VacantSlot DEF OpenNew
<1>2. g.dir_index = s /\ dir' = update_dir(dir, g)
  BY DEF CreatedFcb, OpenNew
<1> HIDE DEF t, s, g
<1>3. dir \in [Slots -> jddir]
  BY DEF MediumInv, VolumeInv, TypeOK
<1>4. \A r \in Valid(dir) : r \in Slots /\ dir'[r] = dir[r]
  BY <1>1, <1>2, <1>3 DEF update_dir, Valid
<1>5. StillThere(dir, dir')
  BY <1>4 DEF StillThere, Valid
<1>6. UNCHANGED <<mfat, mdir, call>> /\ call.op = "idle"
  BY DEF OpenNew, Ready
<1> QED BY <1>5, <1>6, MediumAlone

\* The two writes of a close.
LEMMA MediumClose ==
  ASSUME MediumInv, VolumeInv', OnlyGrowing, CloseFat \/ CloseDir
  PROVE  MediumInv'
<1>1. Consistent(fat, dir) /\ Consistent(mfat, mdir) /\ StillThere(mdir, dir) /\ TypeOK
  BY InvParts DEF MediumInv
<1>2. MediaFails = FALSE /\ UNCHANGED <<fat, dir>>
  BY DEF OnlyGrowing, CloseFat, CloseDir, SaveFat, SaveDir
<1>3. CASE CloseFat
  <2>1. mfat' = fat /\ mdir' = mdir /\ call' = [call EXCEPT !.op = "closeDir"]
    BY <1>2, <1>3 DEF CloseFat, SaveFat
  <2>2. FilesStart(fat, mdir) /\ StartsDiffer(mdir)
    BY <1>1 DEF Consistent, FilesStart, StillThere
  <2>3. Consistent(mfat', mdir')
    BY <1>1, <2>1, <2>2 DEF Consistent
  <2>4. call'.op = "closeDir"
    BY <1>1, <2>1 DEF TypeOK
  <2> QED BY <1>1, <1>2, <2>1, <2>3, <2>4 DEF MediumInv
<1>4. CASE CloseDir
  <2>1. mdir' = dir /\ mfat' = mfat /\ call' = Idle /\ mfat = fat
    BY <1>2, <1>4 DEF CloseDir, SaveDir, MediumInv
  <2>2. StillThere(dir, dir)
    BY SameFilesSelf, SameFilesThere
  <2> QED BY <1>1, <1>2, <2>1, <2>2 DEF MediumInv, Idle
<1> QED BY <1>3, <1>4

\* Mounting what is on the medium.
LEMMA MediumMount ==
  ASSUME MediumInv, TypeOK', Remount \/ PowerFail, FatWhole
  PROVE  MediumInv'
<1>1. /\ fat' = mfat' /\ dir' = mdir'
      /\ \A h \in Fds : fcb'[h] = NULL
      /\ call'.op = "idle"
  BY DEF Remount, PowerFail, Mount, IsOpen, Ready, Idle
<1>2. /\ mfat' \in {mfat, fat} /\ (mfat' # mfat => mdir' = mdir)
      /\ mdir' # mdir => mfat = fat /\ mdir' \in Torn(mdir, dir, DIR_SECTOR)
  <2>1. CASE Remount
    BY <2>1 DEF Remount
  <2>2. CASE PowerFail
    <3>1. \A t \in Torn(mfat, fat, FAT_SECTOR) : t \in {mfat, fat}
      <4>1. FAT_ENTRIES \in Nat /\ FAT_SECTOR \in Nat \ {0} /\ FAT_ENTRIES <= FAT_SECTOR
        BY GeometryAssumption DEF FatWhole
      <4>2. /\ fat \in [0 .. FAT_ENTRIES - 1 -> FATentry]
            /\ mfat \in [0 .. FAT_ENTRIES - 1 -> FATentry]
        BY DEF MediumInv, VolumeInv, TypeOK
      <4> QED BY <4>1, <4>2, TornWhole
    <3> QED BY <2>2, <3>1 DEF PowerFail, FatsLeft, DirsLeft, MediumInv
  <2> QED BY <2>1, <2>2
<1>3. /\ Consistent(fat, dir) /\ Consistent(mfat, mdir) /\ StillThere(mdir, dir)
      /\ dir \in [Slots -> jddir] /\ mdir \in [Slots -> jddir]
  BY InvParts DEF MediumInv, TypeOK
<1>4. Consistent(mfat', mdir')
  <2>1. CASE mdir' = mdir
    BY <1>2, <1>3, <2>1 DEF Consistent, FilesStart, StillThere
  <2>2. CASE mdir' # mdir
    <3>1. mfat' = fat /\ \A r \in Slots : mdir'[r] \in {mdir[r], dir[r]}
      BY <1>2, <1>3, <2>2, TornTyped
    <3>2. \A r \in Valid(mdir') : r \in Valid(dir) /\ mdir'[r].starttrack = dir[r].starttrack
      BY <1>3, <3>1 DEF Valid, StillThere
    <3> QED BY <1>3, <3>1, <3>2 DEF Consistent, FilesStart, StartsDiffer
  <2> QED BY <2>1, <2>2
<1>5. Consistent(fat', dir') /\ AllAnchored(fat', dir', fcb')
  BY <1>1, <1>4 DEF AllAnchored
<1>6. VolumeInv'
  BY <1>5, InvParts
<1>7. StillThere(mdir', dir')
  BY <1>1, SameFilesSelf, SameFilesThere
<1> QED BY <1>1, <1>4, <1>6, <1>7 DEF MediumInv

\* A round of a loop keeps the kind of its call.
LEMMA RoundKeepsCall ==
  ASSUME TypeOK, NEW c, NEW b, call' = Idle \/ call' = [call EXCEPT !.count = c, !.bp = b]
  PROVE  call'.op \in {"idle", call.op}
<1>1. call = [op |-> call.op, fd |-> call.fd, count |-> call.count, bp |-> call.bp]
  BY DEF TypeOK
<1>2. CASE call' = [call EXCEPT !.count = c, !.bp = b]
  <2>1. call' = [op |-> call.op, fd |-> call.fd, count |-> c, bp |-> b]
    BY <1>1, <1>2
  <2> QED BY <2>1
<1> QED BY <1>2 DEF Idle

LEMMA MediumStep ==
  ASSUME MediumInv, [Next]_vars, OnlyGrowing, FatWhole
  PROVE  MediumInv'
<1>1. TypeOK /\ TypeOK'
  BY TypeStep DEF MediumInv, VolumeInv
<1>2. CASE Remount \/ PowerFail
  BY <1>1, <1>2, MediumMount
<1>3. CASE ~Remount /\ ~PowerFail
  <2>1. VolumeInv'
    BY <1>3, VolumeStep DEF MediumInv, Keeps
  <2>2. StillThere(dir, dir)
    BY SameFilesSelf, SameFilesThere
  <2>3. ~RemoveCall /\ ~RenameCall /\ ~RemoveFat /\ ~RemoveDir /\ ~RenameDir
    BY DEF RemoveCall, Remove, RenameCall, Rename, Ready, OnlyGrowing, RemoveFat, RemoveDir,
           RenameDir, SaveFat, SaveDir, MediumInv
  <2>4. CASE SeekCall \/ WriteStep \/ ReadStep \/ \E h \in Fds : CloseWriter(h)
    <3>1. UNCHANGED <<mfat, mdir>>
      BY <2>4 DEF SeekCall, Seek, WriteStep, ReadStep, CloseWriter
    <3>2. HandleMove
      BY <1>1, <2>4, HandleSteps
    <3>3. call'.op \notin {"closeDir", "removeFat", "removeDir", "renameDir"}
      <4>1. CASE SeekCall
        BY <4>1 DEF SeekCall, Seek, Ready
      <4>2. CASE WriteStep
        <5>1. PICK c, b : call' = Idle \/ call' = [call EXCEPT !.count = c, !.bp = b]
          BY <4>2 DEF WriteStep
        <5>2. call'.op \in {"idle", "write"}
          BY <1>1, <4>2, <5>1, RoundKeepsCall DEF WriteStep
        <5> QED BY <5>2
      <4>3. CASE ReadStep
        <5>1. PICK c, b : call' = Idle \/ call' = [call EXCEPT !.count = c, !.bp = b]
          BY <4>3 DEF ReadStep, ReadEnds
        <5>2. call'.op \in {"idle", "read"}
          BY <1>1, <4>3, <5>1, RoundKeepsCall DEF ReadStep
        <5> QED BY <5>2
      <4>4. CASE \E h \in Fds : CloseWriter(h)
        BY <4>4 DEF CloseWriter, Begin
      <4> QED BY <2>4, <4>1, <4>2, <4>3, <4>4
    <3> QED BY <2>1, <3>1, <3>2, <3>3, MediumMove
  <2>5. CASE WriteCall \/ ReadCall
    <3>1. UNCHANGED <<fat, dir, mfat, mdir>> /\ call'.op \in {"write", "read", "idle"}
      BY <2>5 DEF WriteCall, Write, ReadCall, Read, Begin, Ready
    <3> QED BY <2>1, <2>2, <3>1, MediumAlone
  <2>6. CASE nkcfs_getfree \/ (\E h \in Fds : CloseReader(h)) \/ UNCHANGED vars
             \/ \E h \in Fds, n \in Names, flags \in OpenFlags : OpenExisting(h, n, flags)
    <3>1. UNCHANGED <<fat, dir, mfat, mdir, call>>
      BY <2>6 DEF nkcfs_getfree, CloseReader, OpenExisting, vars
    <3> QED BY <2>1, <2>2, <3>1, MediumAlone
  <2>7. CASE \E h \in Fds, n \in Names, flags \in OpenFlags : OpenNew(h, n, flags)
    BY <2>1, <2>7, MediumOpenNew
  <2>8. CASE CloseFat \/ CloseDir
    BY <2>1, <2>8, MediumClose
  <2> QED BY <1>3, <2>3, <2>4, <2>5, <2>6, <2>7, <2>8 DEF Next, Client, Driver, OpenCall, CloseCall
<1> QED BY <1>2, <1>3

LEMMA MediumHolds ==
  ASSUME OnlyGrowing, FatWhole
  PROVE  Spec => []MediumInv
<1>1. Init => MediumInv
  <2> SUFFICES ASSUME Init PROVE MediumInv
    OBVIOUS
  <2>1. VolumeInv /\ mfat = fat /\ mdir = dir /\ call.op = "idle"
    BY InitVolume DEF Init, Idle
  <2>2. StillThere(mdir, dir)
    BY <2>1, SameFilesSelf, SameFilesThere
  <2>3. Consistent(mfat, mdir)
    BY <2>1, InvParts
  <2> QED BY <2>1, <2>2, <2>3 DEF MediumInv
<1>2. MediumInv /\ [Next]_vars => MediumInv'
  BY MediumStep
<1> QED BY <1>1, <1>2, PTL DEF Spec

\* While files are only made and written, on a medium that takes every write,
\* power may fail in any call and cut short any write but that of the track
\* table, which FatWhole takes to be one: what is on the medium is a consistent
\* volume, because close writes the track table before the directory, of which
\* any sectors may then be the old ones.
THEOREM MediumStaysConsistent ==
  ASSUME OnlyGrowing, FatWhole
  PROVE  Spec => []MediumConsistent
<1>1. MediumInv => MediumConsistent
  BY DEF MediumInv, Consistent, MediumConsistent
<1> QED BY <1>1, MediumHolds, PTL

\* And so, where no track table is torn, is the volume mounted from it: no open
\* handle loses its file and no two files share a track.
THEOREM PowerFailuresHarmless ==
  ASSUME OnlyGrowing, FatWhole
  PROVE  Spec => [](VolumeConsistent /\ HandlesAnchored /\ ChainsDisjoint)
<1>1. MediumInv => VolumeConsistent /\ HandlesAnchored
  BY DEF MediumInv, VolumeInv
<1>2. MediumInv => ChainsDisjoint
  <2> SUFFICES ASSUME VolumeConsistent, NEW s \in Valid(dir), NEW r \in Valid(dir), s # r
               PROVE  Chain(fat, dir[s].starttrack) \cap Chain(fat, dir[r].starttrack) = {}
    BY DEF MediumInv, VolumeInv, ChainsDisjoint, Disjoint
  <2> QED BY ChainsApart DEF VolumeConsistent, FilesStart, StartsDiffer
<1> QED BY <1>1, <1>2, MediumHolds, PTL

-----------------------------------------------------------------------------
(* Torn tables.  Whatever is written of either table, a file that is on the *)
(* medium stays there with its chain, unless a call removes files: memory   *)
(* has every file of the medium where it starts, and every link of the      *)
(* medium's track table as it is there, and no call but remove undoes       *)
(* either.                                                                  *)

NoRemoval == "remove" \notin Calls

\* The links of track table ft are in gt.
LinksIn(ft, gt) ==
  \A t \in Tracks : ft[t].successor \in Tracks => gt[t].successor = ft[t].successor

\* Every open handle has its slot in directory d and starts where it starts.
Slotted(d, fc) ==
  \A h \in Fds : fc[h] # NULL =>
    d[fc[h].dir_index].id = VALID /\ d[fc[h].dir_index].starttrack = fc[h].starttrack

SurvivalInv ==
  /\ TypeOK
  /\ Slotted(dir, fcb)
  /\ StillThere(mdir, dir)
  /\ LinksIn(mfat, fat)
  /\ call.op \notin {"removeFat", "removeDir"}

\* What SavedChainsSurvive says of one step.
Survive ==
  \A s \in Valid(mdir) :
    /\ s \in Valid(mdir') /\ mdir'[s].starttrack = mdir[s].starttrack
    /\ Chain(mfat, mdir[s].starttrack) \subseteq Chain(mfat', mdir[s].starttrack)

LEMMA SelfThere == (\A d : StillThere(d, d)) /\ (\A ft : LinksIn(ft, ft))
BY DEF StillThere, LinksIn

\* Entries of the medium or of memory, in any mixture, lose nothing.
LEMMA MixedTables ==
  ASSUME SurvivalInv, TypeOK',
         \A t \in Tracks : mfat'[t] \in {mfat[t], fat[t]},
         \A s \in Slots : mdir'[s] \in {mdir[s], dir[s]}
  PROVE  /\ Survive
         /\ StillThere(mdir', dir) /\ LinksIn(mfat', fat)
<1>1. LinksIn(mfat, mfat') /\ LinksIn(mfat', fat)
  BY DEF SurvivalInv, LinksIn
<1>2. StillThere(mdir, mdir') /\ StillThere(mdir', dir)
  BY DEF SurvivalInv, StillThere, Valid
<1>3. ASSUME NEW s \in Valid(mdir)
      PROVE  Chain(mfat, mdir[s].starttrack) \subseteq Chain(mfat', mdir[s].starttrack)
  <2>1. mdir[s].starttrack \in Tracks
    BY DEF SurvivalInv, TypeOK, StartsTyped
  <2>2. \A v \in Chain(mfat, mdir[s].starttrack) :
          mfat[v].successor \in Tracks => mfat'[v].successor = mfat[v].successor
    BY <1>1, <2>1, ChainHere DEF LinksIn
  <2> QED BY <2>1, <2>2, ChainKept
<1> QED BY <1>1, <1>2, <1>3 DEF Survive, StillThere

\* Calls that leave the medium alone.
LEMMA MemoryMoves ==
  ASSUME SurvivalInv, TypeOK', UNCHANGED <<mfat, mdir>>, LinksIn(fat, fat'), StillThere(dir, dir'),
         Slotted(dir', fcb'), call'.op \notin {"removeFat", "removeDir"}
  PROVE  SurvivalInv' /\ Survive
<1>1. LinksIn(mfat', fat') /\ StillThere(mdir', dir')
  BY DEF SurvivalInv, LinksIn, StillThere
<1>2. Survive
  BY DEF Survive
<1> QED BY <1>1, <1>2 DEF SurvivalInv

\* A handle that moves links a track only behind one that had no successor.
LEMMA HandleSurvives ==
  ASSUME SurvivalInv, TypeOK', HandleMove, UNCHANGED <<mfat, mdir>>,
         call'.op \notin {"removeFat", "removeDir"}
  PROVE  SurvivalInv' /\ Survive
<1>1. PICK h \in Fds, g \in jdfcb :
        /\ fcb[h] \in jdfcb /\ fcb[h] # NULL
        /\ Moves(fat, fcb[h], fat', g)
        /\ fcb' = [fcb EXCEPT ![h] = g]
        /\ dir' \in {dir, update_dir(dir, g)}
  BY DEF HandleMove
<1>2. /\ dir \in [Slots -> jddir] /\ fcb \in [Fds -> jdfcb \cup {NULL}] /\ fat \in FatType
      /\ dir[fcb[h].dir_index].id = VALID /\ dir[fcb[h].dir_index].starttrack = fcb[h].starttrack
  BY <1>1 DEF SurvivalInv, TypeOK, Slotted, FatType
<1>3. Same(fcb[h], g)
  BY <1>1 DEF Moves, Follows, Extends
<1>4. LinksIn(fat, fat')
  <2>1. CASE fat' = fat
    BY <2>1 DEF LinksIn
  <2>2. CASE Extends(fat, fcb[h], fat', g)
    <3> DEFINE c == fcb[h].curtrack
               i == g.curtrack
    <3>1. /\ fat[c].successor \notin Tracks /\ i \in Tracks /\ fat[i].successor = FREE
          /\ fat' = Grown(fat, c, i)
      BY <2>2 DEF Extends
    <3>2. c \in DOMAIN fat /\ i \in DOMAIN fat /\ \A v \in Tracks : v \in DOMAIN fat
      BY <1>1, <1>2, <3>1, FcbFields, Geometry DEF FatType
    <3> HIDE DEF c, i
    <3>3. \A v \in Tracks : v # c /\ v # i => fat'[v] = fat[v]
      BY <3>1, <3>2 DEF Grown
    <3>4. FREE \notin Tracks
      BY Geometry
    <3> QED BY <3>1, <3>3, <3>4 DEF LinksIn
  <2> QED BY <1>1, <2>1, <2>2 DEF Moves
<1>5. \A s \in Slots : dir'[s].starttrack = dir[s].starttrack /\ (dir'[s].id = VALID <=> dir[s].id = VALID)
  <2>1. fcb[h].dir_index \in Slots
    BY <1>1, FcbFields
  <2> QED BY <1>1, <1>2, <1>3, <2>1 DEF update_dir, Same
<1>6. StillThere(dir, dir')
  BY <1>5 DEF StillThere, Valid
<1>7. Slotted(dir', fcb')
  <2> SUFFICES ASSUME NEW k \in Fds, fcb'[k] # NULL
               PROVE  /\ dir'[fcb'[k].dir_index].id = VALID
                      /\ dir'[fcb'[k].dir_index].starttrack = fcb'[k].starttrack
    BY DEF Slotted
  <2>1. CASE k = h
    <3>1. fcb'[k] = g /\ fcb[h].dir_index \in Slots
      BY <1>1, <1>2, <2>1, FcbFields
    <3> QED BY <1>2, <1>3, <1>5, <3>1 DEF Same
  <2>2. CASE k # h
    <3>1. fcb'[k] = fcb[k] /\ fcb[k] \in jdfcb
      BY <1>1, <1>2, <2>2
    <3>2. fcb[k].dir_index \in Slots
      BY <3>1, FcbFields
    <3> QED BY <1>5, <3>1, <3>2 DEF SurvivalInv, Slotted
  <2> QED BY <2>1, <2>2
<1> QED BY <1>4, <1>6, <1>7, MemoryMoves

\* A new file takes a vacant slot and a free track.
LEMMA NewSurvives ==
  ASSUME SurvivalInv, TypeOK', NEW h \in Fds, NEW n \in Names, NEW flags \in OpenFlags,
         OpenNew(h, n, flags)
  PROVE  SurvivalInv' /\ Survive
<1> DEFINE t == Least(FreeTracks(fat))
           s == Least(Vacant(dir))
           g == CreatedFcb(n, flags, t, s)
<1>1. s \in Slots /\ dir[s].id # VALID /\ t \in Tracks /\ fat[t].successor = FREE
  BY VacantSlot, FreeTrack DEF OpenNew, SurvivalInv, TypeOK, FatType
<1>2. /\ dir' = update_dir(dir, g) /\ fcb' = [fcb EXCEPT ![h] = g]
      /\ fat' = [fat EXCEPT ![t] = [ancestor |-> NONE, successor |-> NONE]]
      /\ UNCHANGED <<mfat, mdir, call>> /\ call.op = "idle"
  BY DEF OpenNew, Ready
<1>3. g.dir_index = s /\ g.starttrack = t
  BY DEF CreatedFcb
<1> HIDE DEF t, s, g
<1>4. /\ dir \in [Slots -> jddir] /\ fcb \in [Fds -> jdfcb \cup {NULL}]
      /\ fat \in [0 .. FAT_ENTRIES - 1 -> FATentry]
  BY DEF SurvivalInv, TypeOK
<1>5. \A r \in Slots : r # s => dir'[r] = dir[r]
  BY <1>1, <1>2, <1>3, <1>4 DEF update_dir
<1>6. dir'[s].id = VALID /\ dir'[s].starttrack = g.starttrack
  BY <1>1, <1>2, <1>3, <1>4 DEF update_dir
<1>7. StillThere(dir, dir')
  BY <1>1, <1>5 DEF StillThere, Valid
<1>8. LinksIn(fat, fat')
  <2>1. \A v \in Tracks : v # t => fat'[v] = fat[v]
    BY <1>2, <1>4
  <2> QED BY <1>1, <2>1, Geometry DEF LinksIn
<1>9. ASSUME NEW k \in Fds, fcb'[k] # NULL
      PROVE  /\ dir'[fcb'[k].dir_index].id = VALID
             /\ dir'[fcb'[k].dir_index].starttrack = fcb'[k].starttrack
  <2>1. CASE k = h
    BY <1>2, <1>3, <1>4, <1>6, <2>1
  <2>2. CASE k # h
    <3>1. fcb'[k] = fcb[k] /\ fcb[k] \in jdfcb
      BY <1>2, <1>4, <1>9, <2>2
    <3>2. /\ fcb[k].dir_index \in Slots
          /\ dir[fcb[k].dir_index].id = VALID
          /\ dir[fcb[k].dir_index].starttrack = fcb[k].starttrack
      BY <1>9, <3>1, FcbFields DEF SurvivalInv, Slotted
    <3> QED BY <1>1, <1>5, <3>1, <3>2
  <2> QED BY <2>1, <2>2
<1> QED BY <1>2, <1>7, <1>8, <1>9, MemoryMoves DEF Slotted

LEMMA OpenedSurvives ==
  ASSUME SurvivalInv, TypeOK', NEW h \in Fds, NEW n \in Names, NEW flags \in OpenFlags,
         OpenExisting(h, n, flags)
  PROVE  SurvivalInv' /\ Survive
<1> DEFINE s == Least(find_file(dir, n))
<1>1. s \in Valid(dir)
  BY FoundSlot DEF OpenExisting
<1>2. PICK ok \in BOOLEAN : fcb' = [fcb EXCEPT ![h] = OpenedFcb(n, flags, s, ok)]
  BY MediaTyped DEF OpenExisting
<1> DEFINE g == OpenedFcb(n, flags, s, ok)
<1>3. g.dir_index = s /\ g.starttrack = dir[s].starttrack
  BY DEF OpenedFcb
<1>4. UNCHANGED <<fat, dir, mfat, mdir, call>> /\ fcb' = [fcb EXCEPT ![h] = g]
  BY <1>2 DEF OpenExisting
<1> HIDE DEF g, s
<1>5. Slotted(dir', fcb')
  BY <1>1, <1>3, <1>4 DEF SurvivalInv, TypeOK, Slotted, Valid
<1> QED BY <1>4, <1>5, SelfThere, MemoryMoves DEF SurvivalInv

LEMMA RenameSurvives ==
  ASSUME SurvivalInv, TypeOK', NEW old \in Names, NEW new \in Names, Rename(old, new)
  PROVE  SurvivalInv' /\ Survive
<1> DEFINE s == Least(find_file(dir, old))
<1>1. dir' = [dir EXCEPT ![s].name = new] /\ UNCHANGED <<fat, mfat, mdir, fcb>> /\ call'.op = "renameDir"
  BY DEF Rename, Idle
<1>2. s \in Slots /\ dir \in [Slots -> jddir] /\ fcb \in [Fds -> jdfcb \cup {NULL}]
  BY FoundSlot DEF Rename, SurvivalInv, TypeOK, Valid
<1> HIDE DEF s
<1>3. \A r \in Slots : dir'[r].id = dir[r].id /\ dir'[r].starttrack = dir[r].starttrack
  BY <1>1, <1>2 DEF jddir
<1>4. StillThere(dir, dir')
  BY <1>3 DEF StillThere, Valid
<1>5. Slotted(dir', fcb')
  <2> SUFFICES ASSUME NEW k \in Fds, fcb[k] # NULL
               PROVE  /\ dir'[fcb[k].dir_index].id = VALID
                      /\ dir'[fcb[k].dir_index].starttrack = fcb[k].starttrack
    BY <1>1 DEF Slotted
  <2>1. fcb[k].dir_index \in Slots
    BY <1>2, FcbFields
  <2> QED BY <1>3, <2>1 DEF SurvivalInv, Slotted
<1> QED BY <1>1, <1>4, <1>5, SelfThere, MemoryMoves

LEMMA SavesSurvive ==
  ASSUME SurvivalInv, TypeOK', CloseFat \/ CloseDir \/ RenameDir
  PROVE  SurvivalInv' /\ Survive
<1>1. /\ TypeOK /\ fat \in [0 .. FAT_ENTRIES - 1 -> FATentry]
      /\ mfat \in [0 .. FAT_ENTRIES - 1 -> FATentry]
      /\ dir \in [Slots -> jddir] /\ mdir \in [Slots -> jddir]
      /\ Tracks \subseteq 0 .. FAT_ENTRIES - 1
  BY Geometry DEF SurvivalInv, TypeOK
<1>2. CASE CloseFat
  <2>1. /\ mfat' = fat \/ mfat' \in Torn(mfat, fat, FAT_SECTOR)
        /\ UNCHANGED <<fat, dir, mdir, fcb>> /\ call'.op = "closeDir"
    BY <1>1, <1>2 DEF CloseFat, SaveFat, TypeOK
  <2>2. \A t \in Tracks : mfat'[t] \in {mfat[t], fat[t]}
    BY <1>1, <2>1, TornTyped
  <2>3. Survive /\ StillThere(mdir', dir) /\ LinksIn(mfat', fat)
    BY <2>1, <2>2, MixedTables
  <2> QED BY <2>1, <2>3 DEF SurvivalInv, Slotted
<1>3. CASE CloseDir \/ RenameDir
  <2>1. /\ mdir' = dir \/ mdir' \in Torn(mdir, dir, DIR_SECTOR)
        /\ UNCHANGED <<fat, dir, mfat>> /\ call' = Idle
        /\ fcb' = fcb \/ fcb' = [fcb EXCEPT ![call.fd] = NULL]
    BY <1>3 DEF CloseDir, RenameDir, SaveDir
  <2>2. \A s \in Slots : mdir'[s] \in {mdir[s], dir[s]}
    BY <1>1, <2>1, TornTyped
  <2>3. Survive /\ StillThere(mdir', dir) /\ LinksIn(mfat', fat)
    BY <2>1, <2>2, MixedTables
  <2>4. \A k \in Fds : fcb'[k] # NULL => fcb'[k] = fcb[k]
    BY <1>1, <2>1 DEF TypeOK
  <2>5. Slotted(dir', fcb')
    BY <2>1, <2>4 DEF SurvivalInv, Slotted
  <2> QED BY <2>1, <2>3, <2>5 DEF SurvivalInv, Idle
<1> QED BY <1>2, <1>3

LEMMA MountSurvives ==
  ASSUME SurvivalInv, TypeOK', Remount \/ PowerFail
  PROVE  SurvivalInv' /\ Survive
<1>1. fat' = mfat' /\ dir' = mdir' /\ (\A h \in Fds : fcb'[h] = NULL) /\ call'.op = "idle"
  BY DEF Remount, PowerFail, Mount, IsOpen, Ready, Idle
<1>2. /\ fat \in [0 .. FAT_ENTRIES - 1 -> FATentry] /\ mfat \in [0 .. FAT_ENTRIES - 1 -> FATentry]
      /\ dir \in [Slots -> jddir] /\ mdir \in [Slots -> jddir]
      /\ Tracks \subseteq 0 .. FAT_ENTRIES - 1
  BY Geometry DEF SurvivalInv, TypeOK
<1>3. mfat' = mfat \/ mfat' \in Torn(mfat, fat, FAT_SECTOR)
  BY DEF Remount, PowerFail, FatsLeft
<1>4. mdir' = mdir \/ mdir' \in Torn(mdir, dir, DIR_SECTOR)
  BY DEF Remount, PowerFail, DirsLeft
<1>5. \A t \in Tracks : mfat'[t] \in {mfat[t], fat[t]}
  BY <1>2, <1>3, TornTyped
<1>6. \A s \in Slots : mdir'[s] \in {mdir[s], dir[s]}
  BY <1>2, <1>4, TornTyped
<1>7. Survive
  BY <1>5, <1>6, MixedTables
<1> QED BY <1>1, <1>7, SelfThere DEF SurvivalInv, Slotted

LEMMA SurvivalStep ==
  ASSUME SurvivalInv, [Next]_vars, NoRemoval
  PROVE  SurvivalInv' /\ Survive
<1>1. TypeOK /\ TypeOK'
  BY TypeStep DEF SurvivalInv
<1>2. ~RemoveCall /\ ~RemoveFat /\ ~RemoveDir
  BY DEF RemoveCall, Remove, Ready, NoRemoval, RemoveFat, RemoveDir, SaveFat, SaveDir, SurvivalInv
<1>3. CASE SeekCall \/ WriteStep \/ ReadStep \/ \E h \in Fds : CloseWriter(h)
  <2>1. UNCHANGED <<mfat, mdir>>
    BY <1>3 DEF SeekCall, Seek, WriteStep, ReadStep, CloseWriter
  <2>2. call'.op \notin {"removeFat", "removeDir"}
    <3>1. CASE SeekCall
      BY <3>1 DEF SeekCall, Seek, Ready
    <3>2. CASE WriteStep
      <4>1. PICK c, b : call' = Idle \/ call' = [call EXCEPT !.count = c, !.bp = b]
        BY <3>2 DEF WriteStep
      <4> QED BY <1>1, <3>2, <4>1, RoundKeepsCall DEF WriteStep
    <3>3. CASE ReadStep
      <4>1. PICK c, b : call' = Idle \/ call' = [call EXCEPT !.count = c, !.bp = b]
        BY <3>3 DEF ReadStep, ReadEnds
      <4> QED BY <1>1, <3>3, <4>1, RoundKeepsCall DEF ReadStep
    <3>4. CASE \E h \in Fds : CloseWriter(h)
      BY <3>4 DEF CloseWriter, Begin
    <3> QED BY <1>3, <3>1, <3>2, <3>3, <3>4
  <2> QED BY <1>1, <1>3, <2>1, <2>2, HandleSteps, HandleSurvives
<1>4. CASE WriteCall \/ ReadCall \/ nkcfs_getfree \/ (\E h \in Fds : CloseReader(h)) \/ UNCHANGED vars
  <2>1. /\ UNCHANGED <<fat, dir, mfat, mdir>>
        /\ call'.op \in {"write", "read", call.op}
        /\ fcb' = fcb \/ \E h : fcb' = [fcb EXCEPT ![h] = NULL]
    BY <1>4 DEF WriteCall, Write, ReadCall, Read, Begin, nkcfs_getfree, CloseReader, vars
  <2>2. \A k \in Fds : fcb'[k] # NULL => fcb'[k] = fcb[k]
    BY <1>1, <2>1 DEF TypeOK
  <2>3. Slotted(dir', fcb') /\ call'.op \notin {"removeFat", "removeDir"}
    BY <2>1, <2>2 DEF SurvivalInv, Slotted
  <2> QED BY <1>1, <2>1, <2>3, SelfThere, MemoryMoves
<1>5. CASE OpenCall
  BY <1>1, <1>5, OpenedSurvives, NewSurvives DEF OpenCall
<1>6. CASE RenameCall
  BY <1>1, <1>6, RenameSurvives DEF RenameCall
<1>7. CASE CloseFat \/ CloseDir \/ RenameDir
  BY <1>1, <1>7, SavesSurvive
<1>8. CASE Remount \/ PowerFail
  BY <1>1, <1>8, MountSurvives
<1> QED BY <1>2, <1>3, <1>4, <1>5, <1>6, <1>7, <1>8 DEF Next, Client, Driver, CloseCall

\* While no file is removed, a file that has reached the medium stays on it
\* with every track of its chain: over writes, closes, renames and remounts,
\* on a medium that refuses writes or takes them in part, and whatever power
\* cuts short, the track table between its two sectors included.
THEOREM SavedFilesSurvive ==
  ASSUME NoRemoval
  PROVE  Spec => SavedChainsSurvive
<1>1. Init => SurvivalInv
  <2> SUFFICES ASSUME Init PROVE SurvivalInv
    OBVIOUS
  <2>1. mfat = fat /\ mdir = dir /\ call.op = "idle" /\ \A h \in Fds : fcb[h] = NULL
    BY DEF Init, Idle
  <2> QED BY <2>1, InitTyped, SelfThere DEF SurvivalInv, Slotted
<1>2. SurvivalInv /\ [Next]_vars => SurvivalInv' /\ [Survive]_<<mfat, mdir>>
  BY SurvivalStep
<1> QED BY <1>1, <1>2, PTL DEF Spec, SavedChainsSurvive, Survive
=============================================================================
