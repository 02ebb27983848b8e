-------------------------- MODULE JadosFilesProofs --------------------------
(* What is in the files of a JADOS volume, and what is on the medium, when  *)
(* clients use the modes of fopen that read a file or make one.             *)
EXTENDS JadosFSProofs, FiniteSetTheorems

\* Streams are opened to read a file that exists or to make a new one, and the
\* medium takes every write.
PlainModes == OpenFlags \subseteq {{"READ"}, {"WRIT", "CREATE"}} /\ MediaFails = FALSE

-----------------------------------------------------------------------------
(* A handle keeps the mode it was opened in. *)

SameMode(f, g) == g.flags = f.flags /\ g.omode = f.omode

LEMMA EnterMode ==
  ASSUME NEW ft \in FatType, NEW f \in jdfcb
  PROVE  SameMode(f, EnterTrack(ft, f).fcb)
BY DEF EnterTrack, SameMode, alloc_new_track, jdfcb

LEMMA WriteClusterMode ==
  ASSUME NEW ft \in FatType, NEW f \in jdfcb, NEW ok
  PROVE  SameMode(f, nkcfs_write_cluster(ft, f, ok).fcb)
BY EnterMode DEF nkcfs_write_cluster

LEMMA FlushedMode ==
  ASSUME fat \in FatType, NEW f \in jdfcb, NEW ok \in BOOLEAN
  PROVE  SameMode(f, Flushed(f, ok).fcb)
<1> DEFINE w == nkcfs_write_cluster(fat, f, ok)
<1>1. w.fcb \in jdfcb /\ SameMode(f, w.fcb)
  BY WriteClusterTyped, WriteClusterMode
<1>2. SameMode(w.fcb, alloc_new_cluster(w.fcb))
  BY <1>1 DEF alloc_new_cluster, SameMode, jdfcb
<1>3. w = [res |-> w.res, fat |-> w.fat, fcb |-> w.fcb, written |-> w.written]
  BY DEF nkcfs_write_cluster
<1>4. Flushed(f, ok).fcb \in {f, w.fcb, alloc_new_cluster(w.fcb)}
  <2> HIDE DEF w
  <2>1. [w EXCEPT !.fcb = alloc_new_cluster(w.fcb)].fcb = alloc_new_cluster(w.fcb)
    BY <1>3
  <2> QED BY <2>1 DEF Flushed, w
<1> QED BY <1>1, <1>2, <1>4 DEF SameMode

LEMMA FillMode ==
  ASSUME NEW f \in jdfcb, NEW n
  PROVE  SameMode(f, Fill(f, n))
BY DEF Fill, SameMode, jdfcb

LEMMA ReadMode ==
  ASSUME NEW ft, NEW dt, NEW f \in jdfcb, NEW ok
  PROVE  SameMode(f, nkcfs_read_cluster(ft, dt, f, ok).fcb)
<1> DEFINE n == NextCluster(ft, f)
<1>1. SameMode(f, n.fcb)
  BY DEF NextCluster, SameMode, jdfcb
<1>2. n.fcb \in jdfcb
  BY NextTyped
<1> HIDE DEF n
<1>3. nkcfs_read_cluster(ft, dt, f, ok).fcb \in {n.fcb, [n.fcb EXCEPT !.buf = Held(dt, n.fcb)]}
  BY DEF nkcfs_read_cluster, n
<1>4. SameMode(n.fcb, [n.fcb EXCEPT !.buf = Held(dt, n.fcb)])
  BY <1>2 DEF SameMode, jdfcb
<1> QED BY <1>1, <1>3, <1>4 DEF SameMode

LEMMA SoughtMode ==
  ASSUME data \in [Addrs -> Tags \cup {NULL}], NEW f \in jdfcb, NEW p \in Int,
         NEW ok \in BOOLEAN, NEW g \in Sought(f, p, ok)
  PROVE  SameMode(f, g)
<1> DEFINE r == nkcfs_read_cluster(fat, data, f, ok).fcb
           e == [f EXCEPT !.eof = TRUE]
<1>1. r \in jdfcb /\ SameMode(f, r)
  BY ReadClusterTyped, ReadMode
<1>2. e \in jdfcb /\ SameMode(f, e)
  BY DEF jdfcb, SameMode
<1>3. g \in {e, f, Positioned(f, p), Positioned(r, p), Positioned(e, p)}
  BY DEF Sought
<1> HIDE DEF r, e
<1>4. \A k \in jdfcb : SameMode(k, Positioned(k, p))
  BY DEF Positioned, SameMode, jdfcb
<1> QED BY <1>1, <1>2, <1>3, <1>4 DEF SameMode

\* A step of an open handle that leaves directory and medium alone.
ModeMove ==
  \E h \in Fds, g \in jdfcb :
    fcb[h] \in jdfcb /\ SameMode(fcb[h], g) /\ fcb' = [fcb EXCEPT ![h] = g]

LEMMA WriteStepMode ==
  ASSUME TypeOK, WriteStep
  PROVE  ModeMove
<1> DEFINE h == call.fd
<1>1. /\ h \in Fds /\ fcb[h] \in jdfcb /\ call.count \in Nat
      /\ fat \in FatType
  BY DEF WriteStep, TypeOK, OnHandle, FatType
<1>2. PICK ok \in BOOLEAN :
        LET w == Flushed(fcb[h], ok)
            n == Smaller(call.count, CLUSTERSIZE - w.fcb.crpos)
        IN fcb' = [fcb EXCEPT ![h] = Fill(w.fcb, n)]
  BY MediaTyped DEF WriteStep
<1> DEFINE w == Flushed(fcb[h], ok)
           n == Smaller(call.count, CLUSTERSIZE - w.fcb.crpos)
<1>3. w.fcb \in jdfcb /\ SameMode(fcb[h], w.fcb)
  BY <1>1, FlushedTyped, FlushedMode
<1>4. n \in Int
  BY <1>1, <1>3, FcbFields, Geometry DEF Smaller
<1>5. fcb' = [fcb EXCEPT ![h] = Fill(w.fcb, n)]
  BY <1>2
<1> HIDE DEF w, n
<1>6. Fill(w.fcb, n) \in jdfcb /\ SameMode(w.fcb, Fill(w.fcb, n))
  BY <1>3, <1>4, FillTyped, FillMode
<1>7. SameMode(fcb[h], Fill(w.fcb, n))
  BY <1>3, <1>6 DEF SameMode
<1> HIDE DEF h
<1> QED BY <1>1, <1>5, <1>6, <1>7 DEF ModeMove

LEMMA ReadStepMode ==
  ASSUME TypeOK, ReadStep
  PROVE  ModeMove
<1> DEFINE h == call.fd
           n == Smaller(call.count, CLUSTERSIZE - fcb[h].crpos)
           f == [fcb[h] EXCEPT !.crpos = @ + n, !.pos = @ + n]
           moved == call.bp + n
<1>1. /\ h \in Fds /\ fcb[h] \in jdfcb /\ call.count \in Nat
      /\ data \in [Addrs -> Tags \cup {NULL}]
  BY DEF ReadStep, TypeOK, OnHandle
<1>2. n \in Int
  BY <1>1, FcbFields, Geometry DEF Smaller
<1>3. f \in jdfcb
  <2>1. fcb[h].crpos + n \in Int /\ fcb[h].pos + n \in Int
    BY <1>1, <1>2, FcbFields
  <2>2. \A p, q \in Int : [fcb[h] EXCEPT !.crpos = p, !.pos = q] \in jdfcb
    BY <1>1 DEF jdfcb
  <2> QED BY <2>1, <2>2, Zenon
<1>4. SameMode(fcb[h], f)
  BY <1>1 DEF SameMode, jdfcb
<1>5. \A ok \in BOOLEAN : LET r == nkcfs_read_cluster(fat, data, f, ok).fcb IN
        r \in jdfcb /\ SameMode(f, r)
  BY <1>1, <1>3, ReadClusterTyped, ReadMode
<1>6. \A g \in jdfcb : [g EXCEPT !.eof = TRUE] \in jdfcb /\ SameMode(g, [g EXCEPT !.eof = TRUE])
  BY DEF SameMode, jdfcb
<1>7. \/ fcb' = [fcb EXCEPT ![h] = f]
      \/ \E ok \in BOOLEAN :
           LET r == nkcfs_read_cluster(fat, data, f, ok) IN
           fcb' = [fcb EXCEPT ![h] = r.fcb] \/ fcb' = [fcb EXCEPT ![h] = [r.fcb EXCEPT !.eof = TRUE]]
  BY MediaTyped DEF ReadStep, ReadEnds
<1> HIDE DEF n, f
<1>8. \E g \in jdfcb : fcb' = [fcb EXCEPT ![h] = g] /\ SameMode(f, g)
  <2>1. CASE fcb' = [fcb EXCEPT ![h] = f]
    BY <1>3, <2>1 DEF SameMode
  <2>2. ASSUME NEW ok \in BOOLEAN, NEW r, r = nkcfs_read_cluster(fat, data, f, ok),
               fcb' = [fcb EXCEPT ![h] = r.fcb] \/ fcb' = [fcb EXCEPT ![h] = [r.fcb EXCEPT !.eof = TRUE]]
        PROVE  \E g \in jdfcb : fcb' = [fcb EXCEPT ![h] = g] /\ SameMode(f, g)
    <3> DEFINE e == [r.fcb EXCEPT !.eof = TRUE]
    <3>1. r.fcb \in jdfcb /\ SameMode(f, r.fcb)
      BY <1>5, <2>2
    <3>2. e \in jdfcb /\ SameMode(r.fcb, e)
      BY <1>6, <3>1
    <3> HIDE DEF e
    <3>3. SameMode(f, e)
      BY <3>1, <3>2 DEF SameMode
    <3> QED BY <2>2, <3>1, <3>2, <3>3 DEF e
  <2> QED BY <1>7, <2>1, <2>2
<1> HIDE DEF h
<1> QED BY <1>1, <1>4, <1>8 DEF ModeMove, SameMode

LEMMA SeekMode ==
  ASSUME TypeOK, NEW h \in Fds, NEW a \in SeekArgs, Seek(h, a[1], a[2])
  PROVE  ModeMove
<1> DEFINE p == Target(fcb[h], a[1], a[2])
<1>1. fcb[h] \in jdfcb /\ data \in [Addrs -> Tags \cup {NULL}]
  BY DEF Seek, IsOpen, TypeOK
<1>2. p \in Int
  BY <1>1, ClientAssumption, FcbFields, Geometry DEF Target
<1>3. PICK ok \in BOOLEAN : \E g \in Sought(fcb[h], p, ok) :
        Quot(p) >= 0 /\ fcb' = [fcb EXCEPT ![h] = g]
  BY MediaTyped DEF Seek
<1> HIDE DEF p
<1>4. PICK g \in jdfcb : SameMode(fcb[h], g) /\ fcb' = [fcb EXCEPT ![h] = g]
  BY <1>1, <1>2, <1>3, SoughtTyped, SoughtMode
<1> QED BY <1>1, <1>4 DEF ModeMove

LEMMA CloseWriterMode ==
  ASSUME TypeOK, NEW h \in Fds, CloseWriter(h)
  PROVE  ModeMove
<1> DEFINE f == OneIndexed(fcb[h])
<1>1. fcb[h] \in jdfcb /\ fat \in FatType
  BY DEF CloseWriter, IsOpen, TypeOK, FatType
<1>2. f \in jdfcb /\ SameMode(fcb[h], f)
  <2> DEFINE x == (fcb[h].endcluster + 1) % 65536
  <2>1. x \in Nat
    BY <1>1, FcbFields
  <2>2. f = [fcb[h] EXCEPT !.endcluster = x]
    BY DEF OneIndexed
  <2> HIDE DEF x, f
  <2>3. /\ [fcb[h] EXCEPT !.endcluster = x] \in jdfcb
        /\ SameMode(fcb[h], [fcb[h] EXCEPT !.endcluster = x])
    BY <1>1, <2>1 DEF jdfcb, SameMode
  <2> QED BY <2>2, <2>3
<1>3. PICK ok \in BOOLEAN :
       LET w == IF f.crpos = 0
                THEN [fat |-> fat, fcb |-> f, written |-> {}]
                ELSE nkcfs_write_cluster(fat, f, ok)
       IN fcb' = [fcb EXCEPT ![h] = w.fcb]
  BY MediaTyped DEF CloseWriter
<1> HIDE DEF f
<1>4. PICK g \in jdfcb : fcb' = [fcb EXCEPT ![h] = g] /\ SameMode(f, g)
  <2>1. CASE f.crpos = 0
    BY <1>2, <1>3, <2>1 DEF SameMode
  <2>2. CASE f.crpos # 0
    BY <1>1, <1>2, <1>3, <2>2, WriteClusterTyped, WriteClusterMode
  <2> QED BY <2>1, <2>2
<1>5. SameMode(fcb[h], g)
  BY <1>2, <1>4 DEF SameMode
<1> QED BY <1>1, <1>4, <1>5 DEF ModeMove

-----------------------------------------------------------------------------
(* What is on the medium *)

\* The two modes.
Plain(f) ==
  \/ f.flags = {"READ"} /\ f.omode = "E4"
  \/ f.flags = {"WRIT", "CREATE"} /\ f.omode = "E5"

Writers == {h \in Fds : fcb[h] # NULL /\ fcb[h].omode = "E5"}

\* The calls that go on work on a handle of their kind.
CallsPlain ==
  /\ call.op = "write" => call.fd \in Writers /\ call.count > 0
  /\ call.op = "read" => call.fd \in Fds \ Writers
  /\ call.op \in {"closeFat", "closeDir"} => call.fd \in Writers

\* What the medium already has of memory, once nobody writes.
Saved ==
  /\ call.op \in {"idle", "read", "write"} /\ Writers = {} => mfat = fat /\ mdir = dir
  /\ call.op \in {"removeDir", "renameDir"} /\ Writers = {} => mfat = fat
  /\ call.op = "closeDir" /\ Writers \subseteq {call.fd} => mfat = fat

SavedInv ==
  /\ TypeOK
  /\ \A h \in Fds : fcb[h] # NULL => Plain(fcb[h])
  /\ CallsPlain
  /\ Saved

\* A handle that is put where it was, or into an empty place to read.
LEMMA WritersKept ==
  ASSUME TypeOK, \A k \in Fds : fcb[k] # NULL => Plain(fcb[k]), ModeMove
  PROVE  Writers' = Writers /\ \A k \in Fds : fcb'[k] # NULL => Plain(fcb'[k])
<1>1. PICK h \in Fds, g \in jdfcb :
        fcb[h] \in jdfcb /\ SameMode(fcb[h], g) /\ fcb' = [fcb EXCEPT ![h] = g]
  BY DEF ModeMove
<1>2. fcb \in [Fds -> jdfcb \cup {NULL}] /\ fcb[h] # NULL /\ g # NULL
  BY <1>1, NullAssumption DEF TypeOK
<1>3. fcb'[h] = g /\ \A k \in Fds : k # h => fcb'[k] = fcb[k]
  BY <1>1, <1>2
<1>4. Plain(g)
  BY <1>1, <1>2 DEF Plain, SameMode
<1>5. Writers' = {k \in Fds : fcb'[k] # NULL /\ fcb'[k].omode = "E5"}
  BY DEF Writers
<1>6. \A k \in Fds : (fcb'[k] # NULL /\ fcb'[k].omode = "E5") <=> (fcb[k] # NULL /\ fcb[k].omode = "E5")
  BY <1>1, <1>2, <1>3 DEF SameMode
<1> QED BY <1>3, <1>4, <1>5, <1>6 DEF Writers

\* Tables and handles left alone, or a handle moved while somebody writes.
LEMMA SavedQuiet ==
  ASSUME SavedInv, TypeOK', UNCHANGED <<fat, dir, mfat, mdir, fcb>>,
         call'.op \in {"idle", "read", "write"}, call.op \in {"idle", "read", "write"},
         CallsPlain'
  PROVE  SavedInv'
BY DEF SavedInv, Saved, Writers

LEMMA SavedOpenExisting ==
  ASSUME SavedInv, TypeOK', PlainModes, NEW h \in Fds, NEW n \in Names, NEW flags \in OpenFlags,
         OpenExisting(h, n, flags)
  PROVE  SavedInv'
<1>1. PICK ok \in BOOLEAN : fcb' = [fcb EXCEPT ![h] = OpenedFcb(n, flags, Least(find_file(dir, n)), ok)]
  BY MediaTyped DEF OpenExisting
<1> DEFINE g == OpenedFcb(n, flags, Least(find_file(dir, n)), ok)
<1>2. /\ fcb[h] = NULL /\ call.op = "idle" /\ UNCHANGED <<fat, dir, mfat, mdir, call>>
      /\ fcb \in [Fds -> jdfcb \cup {NULL}]
  BY DEF OpenExisting, IsOpen, Ready, SavedInv, TypeOK
<1>3. flags = {"READ"}
  BY DEF OpenExisting, PlainModes
<1>4. g.flags = {"READ"} /\ g.omode = "E4"
  BY <1>3 DEF OpenedFcb, Granted
<1> HIDE DEF g
<1>5. fcb'[h] = g /\ \A k \in Fds : k # h => fcb'[k] = fcb[k]
  BY <1>1, <1>2 DEF g
<1>6. Writers' = Writers
  <2>1. \A k \in Fds : (fcb'[k] # NULL /\ fcb'[k].omode = "E5") <=> (fcb[k] # NULL /\ fcb[k].omode = "E5")
    BY <1>2, <1>4, <1>5
  <2>2. Writers' = {k \in Fds : fcb'[k] # NULL /\ fcb'[k].omode = "E5"}
    BY DEF Writers
  <2> QED BY <2>1, <2>2 DEF Writers
<1>7. \A k \in Fds : fcb'[k] # NULL => Plain(fcb'[k])
  BY <1>4, <1>5 DEF SavedInv, Plain
<1>8. CallsPlain' /\ Saved'
  BY <1>2, <1>6 DEF SavedInv, CallsPlain, Saved
<1> QED BY <1>7, <1>8 DEF SavedInv

LEMMA SavedOpenNew ==
  ASSUME SavedInv, TypeOK', PlainModes, NEW h \in Fds, NEW n \in Names, NEW flags \in OpenFlags,
         OpenNew(h, n, flags)
  PROVE  SavedInv'
<1> DEFINE g == CreatedFcb(n, flags, Least(FreeTracks(fat)), Least(Vacant(dir)))
<1>1. fcb' = [fcb EXCEPT ![h] = g] /\ call' = call /\ call.op = "idle"
      /\ fcb \in [Fds -> jdfcb \cup {NULL}]
  BY DEF OpenNew, Ready, SavedInv, TypeOK
<1>2. flags = {"WRIT", "CREATE"}
  BY DEF OpenNew, PlainModes
<1>3. g.flags = {"WRIT", "CREATE"} /\ g.omode = "E5"
  BY <1>2 DEF CreatedFcb
<1> HIDE DEF g
<1>4. fcb'[h] = g /\ \A k \in Fds : k # h => fcb'[k] = fcb[k]
  BY <1>1
<1>5. g # NULL
  <2>1. fcb' \in [Fds -> jdfcb \cup {NULL}]
    BY DEF TypeOK
  <2>2. g \in jdfcb
    BY ClientAssumption, FreeTrack, VacantSlot, CreatedTyped DEF OpenNew, g
  <2> QED BY <2>2, NullAssumption
<1>6. h \in Writers'
  BY <1>3, <1>4, <1>5 DEF Writers
<1>7. \A k \in Fds : fcb'[k] # NULL => Plain(fcb'[k])
  BY <1>3, <1>4 DEF SavedInv, Plain
<1>8. CallsPlain' /\ Saved'
  BY <1>1, <1>6 DEF CallsPlain, Saved
<1> QED BY <1>7, <1>8 DEF SavedInv

LEMMA SavedWrite ==
  ASSUME SavedInv, TypeOK', WriteStep
  PROVE  SavedInv'
<1> DEFINE h == call.fd
<1>1. h \in Writers /\ call.op = "write" /\ call.count \in Nat /\ fcb[h] \in jdfcb /\ fat \in FatType
  BY DEF WriteStep, SavedInv, CallsPlain, TypeOK, OnHandle, FatType
<1>2. Writers' = Writers /\ \A k \in Fds : fcb'[k] # NULL => Plain(fcb'[k])
  BY WriteStepMode, WritersKept DEF SavedInv
<1>3. PICK ok \in BOOLEAN :
        LET w == Flushed(fcb[h], ok)
            n == Smaller(call.count, CLUSTERSIZE - w.fcb.crpos)
        IN call' = IF n = call.count THEN Idle ELSE [call EXCEPT !.count = @ - n, !.bp = @ + n]
  BY MediaTyped DEF WriteStep
<1> DEFINE w == Flushed(fcb[h], ok)
           n == Smaller(call.count, CLUSTERSIZE - w.fcb.crpos)
<1>4. w.fcb.crpos \in Int
  BY <1>1, FlushedTyped, FcbFields
<1>5. n \in Int /\ n <= call.count
  BY <1>1, <1>4, Geometry DEF Smaller
<1>6. call' = Idle \/ (n < call.count /\ call' = [call EXCEPT !.count = call.count - n, !.bp = call.bp + n])
  BY <1>1, <1>3, <1>5
<1> HIDE DEF n, w
<1>7. call'.op = "idle" \/ (call'.op = "write" /\ call'.fd = h /\ call'.count > 0)
  <2>1. call = [op |-> call.op, fd |-> call.fd, count |-> call.count, bp |-> call.bp]
    BY DEF SavedInv, TypeOK
  <2>2. CASE n < call.count /\ call' = [call EXCEPT !.count = call.count - n, !.bp = call.bp + n]
    <3>1. call' = [op |-> call.op, fd |-> call.fd, count |-> call.count - n, bp |-> call.bp + n]
      BY <2>1, <2>2
    <3> QED BY <1>1, <1>5, <2>2, <3>1
  <2> QED BY <1>6, <2>2 DEF Idle
<1> HIDE DEF h
<1>8. CallsPlain'
  BY <1>1, <1>2, <1>7 DEF CallsPlain
<1>9. Saved'
  BY <1>1, <1>2, <1>7 DEF Saved
<1> QED BY <1>2, <1>8, <1>9 DEF SavedInv

LEMMA SavedRead ==
  ASSUME SavedInv, TypeOK', ReadStep
  PROVE  SavedInv'
<1> DEFINE h == call.fd
<1>1. h \in Fds \ Writers /\ call.op = "read"
  BY DEF ReadStep, SavedInv, CallsPlain
<1>2. Writers' = Writers /\ \A k \in Fds : fcb'[k] # NULL => Plain(fcb'[k])
  BY ReadStepMode, WritersKept DEF SavedInv
<1>3. PICK c, b : call' = Idle \/ call' = [call EXCEPT !.count = c, !.bp = b]
  BY DEF ReadStep, ReadEnds
<1>4. call'.op = "idle" \/ (call'.op = "read" /\ call'.fd = h)
  <2>1. call = [op |-> call.op, fd |-> call.fd, count |-> call.count, bp |-> call.bp]
    BY DEF SavedInv, TypeOK
  <2>2. CASE call' = [call EXCEPT !.count = c, !.bp = b]
    <3>1. call' = [op |-> call.op, fd |-> call.fd, count |-> c, bp |-> b]
      BY <2>1, <2>2
    <3> QED BY <1>1, <3>1
  <2> QED BY <1>3, <2>2 DEF Idle
<1>5. UNCHANGED <<fat, dir, mfat, mdir>>
  BY DEF ReadStep
<1> HIDE DEF h
<1>6. CallsPlain'
  BY <1>1, <1>2, <1>4 DEF CallsPlain
<1>7. Saved'
  BY <1>1, <1>2, <1>4, <1>5 DEF Saved, SavedInv
<1> QED BY <1>2, <1>6, <1>7 DEF SavedInv

LEMMA SavedSeek ==
  ASSUME SavedInv, TypeOK', SeekCall
  PROVE  SavedInv'
<1>1. ModeMove /\ UNCHANGED <<fat, dir, mfat, mdir, call>> /\ call.op = "idle"
  BY SeekMode DEF SeekCall, Seek, SavedInv, Ready
<1>2. Writers' = Writers /\ \A k \in Fds : fcb'[k] # NULL => Plain(fcb'[k])
  BY <1>1, WritersKept DEF SavedInv
<1>3. CallsPlain' /\ Saved'
  BY <1>1, <1>2 DEF CallsPlain, Saved, SavedInv
<1> QED BY <1>2, <1>3 DEF SavedInv

LEMMA SavedCloseWriter ==
  ASSUME SavedInv, TypeOK', NEW h \in Fds, CloseWriter(h)
  PROVE  SavedInv'
<1>1. ModeMove /\ call' = Begin("closeFat", h, 0) /\ h \in Writers
  BY CloseWriterMode DEF CloseWriter, SavedInv, Writers, IsOpen
<1>2. Writers' = Writers /\ \A k \in Fds : fcb'[k] # NULL => Plain(fcb'[k])
  BY <1>1, WritersKept DEF SavedInv
<1>3. call'.op = "closeFat" /\ call'.fd = h
  BY <1>1 DEF Begin
<1>4. CallsPlain' /\ Saved'
  BY <1>1, <1>2, <1>3 DEF CallsPlain, Saved
<1> QED BY <1>2, <1>4 DEF SavedInv

\* A handle that is let go.
LEMMA WritersLess ==
  ASSUME TypeOK, NEW h \in Fds, fcb' = [fcb EXCEPT ![h] = NULL]
  PROVE  /\ Writers' = Writers \ {h}
         /\ (\A k \in Fds : fcb[k] # NULL => Plain(fcb[k]))
              => \A k \in Fds : fcb'[k] # NULL => Plain(fcb'[k])
<1>1. fcb'[h] = NULL /\ \A k \in Fds : k # h => fcb'[k] = fcb[k]
  BY DEF TypeOK
<1>2. Writers' = {k \in Fds : fcb'[k] # NULL /\ fcb'[k].omode = "E5"}
  BY DEF Writers
<1>3. \A k \in Fds : (fcb'[k] # NULL /\ fcb'[k].omode = "E5") <=> (k # h /\ fcb[k] # NULL /\ fcb[k].omode = "E5")
  BY <1>1
<1>4. Writers' = Writers \ {h}
  BY <1>2, <1>3 DEF Writers
<1> QED BY <1>1, <1>4

LEMMA SavedCloseReader ==
  ASSUME SavedInv, TypeOK', NEW h \in Fds, CloseReader(h)
  PROVE  SavedInv'
<1>1. /\ fcb' = [fcb EXCEPT ![h] = NULL] /\ UNCHANGED <<fat, dir, mfat, mdir, call>>
      /\ call.op = "idle" /\ h \notin Writers
  BY DEF CloseReader, Ready, Writers
<1>2. Writers' = Writers /\ \A k \in Fds : fcb'[k] # NULL => Plain(fcb'[k])
  BY <1>1, WritersLess DEF SavedInv
<1>3. CallsPlain' /\ Saved'
  BY <1>1, <1>2 DEF CallsPlain, Saved, SavedInv
<1> QED BY <1>2, <1>3 DEF SavedInv

\* The two writes to the medium that end close, remove and rename.
LEMMA SavedSaves ==
  ASSUME SavedInv, TypeOK', PlainModes, CloseFat \/ CloseDir \/ RemoveFat \/ RemoveDir \/ RenameDir
  PROVE  SavedInv'
<1>1. MediaFails = FALSE /\ UNCHANGED <<fat, dir>> /\ TypeOK
  BY DEF PlainModes, CloseFat, CloseDir, RemoveFat, RemoveDir, RenameDir, SaveFat, SaveDir, SavedInv
<1>2. ASSUME NEW from \in {"closeFat", "removeFat"}, NEW to \in {"closeDir", "removeDir"},
             SaveFat(from, to), from = "closeFat" <=> to = "closeDir"
      PROVE  SavedInv'
  <2>1. mfat' = fat /\ fcb' = fcb /\ call.op = from /\ call' = [call EXCEPT !.op = to]
    BY <1>1, <1>2 DEF SaveFat
  <2>2. call'.op = to /\ call'.fd = call.fd
    BY <1>1, <2>1 DEF TypeOK
  <2>3. Writers' = Writers
    BY <2>1 DEF Writers
  <2>4. CallsPlain'
    BY <1>2, <2>1, <2>2, <2>3 DEF CallsPlain, SavedInv
  <2>5. Saved'
    BY <1>1, <2>1, <2>2 DEF Saved
  <2> QED BY <2>1, <2>4, <2>5 DEF SavedInv
<1>3. ASSUME CloseDir PROVE SavedInv'
  <2>1. /\ mdir' = dir /\ mfat' = mfat /\ call' = Idle /\ fcb' = [fcb EXCEPT ![call.fd] = NULL]
        /\ call.op = "closeDir" /\ call.fd \in Fds
    BY <1>1, <1>3 DEF CloseDir, SaveDir, TypeOK, OnHandle
  <2>2. /\ Writers' = Writers \ {call.fd}
        /\ \A k \in Fds : fcb'[k] # NULL => Plain(fcb'[k])
    BY <1>1, <2>1, WritersLess DEF SavedInv
  <2>3. CallsPlain'
    BY <2>1 DEF CallsPlain, Idle
  <2>4. Saved'
    BY <1>1, <2>1, <2>2 DEF Saved, SavedInv, Idle
  <2> QED BY <2>2, <2>3, <2>4 DEF SavedInv
<1>4. ASSUME RemoveDir \/ RenameDir PROVE SavedInv'
  <2>1. /\ mdir' = dir /\ mfat' = mfat /\ call' = Idle /\ fcb' = fcb
        /\ call.op \in {"removeDir", "renameDir"}
    BY <1>1, <1>4 DEF RemoveDir, RenameDir, SaveDir
  <2>2. Writers' = Writers
    BY <2>1 DEF Writers
  <2>3. CallsPlain'
    BY <2>1 DEF CallsPlain, Idle
  <2>4. Saved'
    BY <1>1, <2>1, <2>2 DEF Saved, SavedInv, Idle
  <2> QED BY <2>1, <2>3, <2>4 DEF SavedInv
<1>5. CASE CloseFat
  BY <1>2, <1>5 DEF CloseFat
<1>6. CASE RemoveFat
  BY <1>2, <1>6 DEF RemoveFat
<1> QED BY <1>3, <1>4, <1>5, <1>6

\* What begins a removal or a renaming, and mounting.
LEMMA SavedChanges ==
  ASSUME SavedInv, TypeOK', RemoveCall \/ RenameCall \/ Remount \/ PowerFail
  PROVE  SavedInv'
<1>1. CASE RemoveCall
  <2>1. UNCHANGED <<mfat, mdir, fcb>> /\ call'.op = "removeFat"
    BY <1>1 DEF RemoveCall, Remove, Idle
  <2> QED BY <2>1 DEF SavedInv, CallsPlain, Saved
<1>2. CASE RenameCall
  <2>1. UNCHANGED <<fat, mfat, mdir, fcb>> /\ call'.op = "renameDir" /\ call.op = "idle"
    BY <1>2 DEF RenameCall, Rename, Idle, Ready
  <2>2. Writers' = Writers
    BY <2>1 DEF Writers
  <2> QED BY <2>1, <2>2 DEF SavedInv, CallsPlain, Saved
<1>3. CASE Remount \/ PowerFail
  <2>1. /\ fat' = mfat' /\ dir' = mdir'
        /\ \A h \in Fds : fcb'[h] = NULL
        /\ call'.op = "idle"
    BY <1>3 DEF Remount, PowerFail, Mount, IsOpen, Ready, Idle
  <2> QED BY <2>1 DEF SavedInv, CallsPlain, Saved
<1> QED BY <1>1, <1>2, <1>3

LEMMA SavedStep ==
  ASSUME SavedInv, [Next]_vars, PlainModes
  PROVE  SavedInv'
<1>1. TypeOK'
  BY TypeStep DEF SavedInv
<1>2. CASE OpenCall
  BY <1>1, <1>2, SavedOpenExisting, SavedOpenNew DEF OpenCall
<1>3. CASE WriteCall
  <2>1. PICK h \in Fds, n \in Requests : Write(h, n)
    BY <1>3 DEF WriteCall
  <2>2. /\ call.op = "idle" /\ call'.op = "write" /\ call'.fd = h /\ call'.count > 0
        /\ UNCHANGED <<fat, dir, mfat, mdir, fcb>> /\ fcb[h] # NULL /\ "WRIT" \in fcb[h].flags
    BY <2>1, ClientAssumption DEF Write, Ready, Begin, IsOpen
  <2>3. h \in Writers'
    BY <2>2 DEF Writers, SavedInv, Plain
  <2>4. CallsPlain'
    BY <2>2, <2>3 DEF CallsPlain
  <2> QED BY <1>1, <2>2, <2>4, SavedQuiet
<1>4. CASE ReadCall
  <2>1. PICK h \in Fds, n \in Requests : Read(h, n)
    BY <1>4 DEF ReadCall
  <2>2. /\ call.op = "idle"
        /\ call' = call \/ (call'.op = "read" /\ call'.fd = h)
        /\ UNCHANGED <<fat, dir, mfat, mdir, fcb>> /\ fcb[h] # NULL /\ "READ" \in fcb[h].flags
    BY <2>1 DEF Read, Ready, Begin, IsOpen
  <2>3. h \notin Writers'
    BY <2>2 DEF Writers, SavedInv, Plain
  <2>4. CallsPlain'
    BY <2>2, <2>3 DEF CallsPlain
  <2> QED BY <1>1, <2>2, <2>4, SavedQuiet
<1>5. CASE nkcfs_getfree \/ UNCHANGED vars
  <2>1. UNCHANGED <<fat, dir, mfat, mdir, fcb, call>>
    BY <1>5 DEF nkcfs_getfree, vars
  <2> QED BY <1>1, <2>1 DEF SavedInv, CallsPlain, Saved, Writers
<1>6. CASE SeekCall \/ CloseCall
  BY <1>1, <1>6, SavedSeek, SavedCloseWriter, SavedCloseReader DEF CloseCall
<1>7. CASE WriteStep \/ ReadStep
  BY <1>1, <1>7, SavedWrite, SavedRead
<1>8. CASE CloseFat \/ CloseDir \/ RemoveFat \/ RemoveDir \/ RenameDir
  BY <1>1, <1>8, SavedSaves
<1>9. CASE RemoveCall \/ RenameCall \/ Remount \/ PowerFail
  BY <1>1, <1>9, SavedChanges
<1> QED BY <1>2, <1>3, <1>4, <1>5, <1>6, <1>7, <1>8, <1>9 DEF Next, Client, Driver

LEMMA SavedInit == Init => SavedInv
<1> SUFFICES ASSUME Init PROVE SavedInv
  OBVIOUS
<1>1. TypeOK /\ call.op = "idle" /\ mfat = fat /\ mdir = dir /\ \A h \in Fds : fcb[h] = NULL
  BY InitTyped DEF Init, Idle
<1> QED BY <1>1 DEF SavedInv, CallsPlain, Saved

LEMMA SavedHolds ==
  ASSUME PlainModes
  PROVE  Spec => []SavedInv
<1>1. SavedInv /\ [Next]_vars => SavedInv'
  BY SavedStep
<1> QED BY <1>1, SavedInit, PTL DEF Spec

\* Whenever no call is going on and no file is open for writing, the medium
\* has the track table and the directory of memory, after power failures too:
\* the last writer to close, and each remove and rename, writes both back.
THEOREM TablesAreSavedAtRest ==
  ASSUME PlainModes
  PROVE  Spec => []SavedAtRest
<1>1. SavedInv => SavedAtRest
  BY DEF SavedInv, Saved, SavedAtRest, Writers, Plain, IsOpen
<1> QED BY <1>1, SavedHolds, PTL

-----------------------------------------------------------------------------
(* Mounting again *)

MountedInv == SavedInv /\ VolumeInv /\ NoLostTracks

\* Mounting what is on the medium changes nothing: it is what memory has.
LEMMA RemountQuiet ==
  ASSUME SavedInv, Remount
  PROVE  UNCHANGED <<fat, dir, fcb>>
<1>1. call.op = "idle" /\ Writers = {} /\ fat' = mfat /\ dir' = mdir /\ fcb' = fcb
  BY DEF Remount, Mount, Ready, Writers, IsOpen
<1> QED BY <1>1 DEF SavedInv, Saved

LEMMA MountedStep ==
  ASSUME MountedInv, [Next]_vars, PlainModes, "powerfail" \notin Calls
  PROVE  MountedInv' /\ Keeps
<1>1. SavedInv' /\ TypeOK'
  BY SavedStep, TypeStep DEF MountedInv, SavedInv
<1>2. Keeps
  <2>1. CASE Remount
    BY <1>1, <2>1, RemountQuiet, QuietStep DEF MountedInv
  <2>2. CASE ~Remount
    BY <2>2, VolumeStep DEF MountedInv, PowerFail
  <2> QED BY <2>1, <2>2
<1> QED BY <1>1, <1>2 DEF MountedInv, Keeps

LEMMA MountedInit == Init => MountedInv
BY SavedInit, InitVolume DEF MountedInv

LEMMA MountedHolds ==
  ASSUME PlainModes, "powerfail" \notin Calls
  PROVE  Spec => []MountedInv
<1>1. MountedInv /\ [Next]_vars => MountedInv'
  BY MountedStep
<1> QED BY <1>1, MountedInit, PTL DEF Spec

LEMMA DisjointFiles ==
  ASSUME VolumeInv, NEW s \in Valid(dir), NEW r \in Valid(dir), s # r
  PROVE  Chain(fat, dir[s].starttrack) \cap Chain(fat, dir[r].starttrack) = {}
BY ChainsApart DEF VolumeInv, VolumeConsistent, FilesStart, StartsDiffer

\* The volume stays consistent, and no track is lost, over any number of
\* unmounts and mounts.
THEOREM RemountsAreHarmless ==
  ASSUME PlainModes, "powerfail" \notin Calls
  PROVE  Spec => [](VolumeConsistent /\ HandlesAnchored /\ ChainsDisjoint /\ NoLostTracks)
<1>1. MountedInv => VolumeConsistent /\ HandlesAnchored /\ NoLostTracks
  BY DEF MountedInv, VolumeInv
<1>2. MountedInv => ChainsDisjoint
  BY DisjointFiles DEF MountedInv, ChainsDisjoint, Disjoint
<1> QED BY <1>1, <1>2, MountedHolds, PTL

-----------------------------------------------------------------------------
(* Chains that stay, grow or begin *)

LEMMA ChainFinite ==
  ASSUME NEW ft, NEW t
  PROVE  IsFiniteSet(Chain(ft, t)) /\ Cardinality(Chain(ft, t)) \in Nat
<1>1. IsFiniteSet(Tracks)
  BY Geometry, FS_Interval DEF Tracks
<1>2. Chain(ft, t) \in SUBSET Tracks
  BY DEF Chain
<1> QED BY <1>1, <1>2, FS_Subset, FS_CardinalityType

LEMMA ChainSame ==
  ASSUME NEW ft, NEW gt, NEW t \in Tracks, \A v \in Chain(ft, t) : gt[v] = ft[v]
  PROVE  Chain(gt, t) = Chain(ft, t)
<1>1. Chain(ft, t) \subseteq Chain(gt, t)
  BY ChainKept
<1>2. Chain(ft, t) \in SUBSET Tracks /\ t \in Chain(ft, t)
  BY ChainHere
<1>3. \A v \in Chain(ft, t) : gt[v].successor \in Tracks => gt[v].successor \in Chain(ft, t)
  BY ChainClosed
<1>4. Chain(gt, t) \subseteq Chain(ft, t)
  BY <1>2, <1>3, ChainLeast
<1> QED BY <1>1, <1>4

LEMMA ChainGrown ==
  ASSUME NEW ft \in FatType, TracksMirror(ft), NEW c \in Tracks, NEW i \in Tracks,
         ft[c].successor \notin Tracks, ft[c].successor # FREE, ft[i].successor = FREE,
         NEW t \in Tracks, ft[t].ancestor = NONE, c \in Chain(ft, t)
  PROVE  /\ Chain(Grown(ft, c, i), t) = Chain(ft, t) \cup {i}
         /\ Cardinality(Chain(Grown(ft, c, i), t)) = Cardinality(Chain(ft, t)) + 1
<1> DEFINE gt == Grown(ft, c, i)
           S == Chain(ft, t) \cup {i}
<1>1. /\ gt[c].successor = i /\ gt[i].successor = NONE
      /\ \A v \in Tracks : v # c /\ v # i => gt[v] = ft[v]
  BY GrownTable
<1>2. Chain(ft, t) \subseteq Chain(gt, t) /\ i \in Chain(gt, t)
  BY GrownChain
<1> HIDE DEF gt
<1>3. S \in SUBSET Tracks /\ t \in S
  BY ChainHere
<1>4. ASSUME NEW v \in S, gt[v].successor \in Tracks PROVE gt[v].successor \in S
  <2>1. CASE v = i
    BY <1>1, <1>4, <2>1, Geometry
  <2>2. CASE v = c
    BY <1>1, <2>2
  <2>3. CASE v # i /\ v # c
    <3>1. v \in Chain(ft, t) /\ gt[v] = ft[v]
      BY <1>1, <1>3, <2>3
    <3> QED BY <1>4, <3>1, ChainClosed
  <2> QED BY <2>1, <2>2, <2>3
<1> HIDE DEF S
<1>5. Chain(gt, t) \subseteq S
  BY <1>3, <1>4, ChainLeast
<1>6. i \notin Chain(ft, t)
  BY ChainAllocated
<1>7. Chain(gt, t) = Chain(ft, t) \cup {i}
  BY <1>2, <1>5 DEF S
<1>8. Cardinality(Chain(gt, t)) = Cardinality(Chain(ft, t)) + 1
  BY <1>6, <1>7, ChainFinite, FS_AddElement, ZenonT(60)
<1> QED BY <1>7, <1>8 DEF gt

\* A file just begun has one track.
LEMMA ChainOne ==
  ASSUME NEW ft, NEW t \in Tracks, ft[t].successor = NONE
  PROVE  Cardinality(Chain(ft, t)) = 1
<1>1. {t} \in SUBSET Tracks /\ t \in {t}
  OBVIOUS
<1>2. \A v \in {t} : ft[v].successor \in Tracks => ft[v].successor \in {t}
  BY Geometry
<1>3. Chain(ft, t) \subseteq {t}
  BY <1>1, <1>2, ChainLeast
<1>4. Chain(ft, t) = {t}
  BY <1>3, ChainHere
<1> QED BY <1>4, FS_Singleton

\* Every chain has a track.
LEMMA ChainNotEmpty ==
  ASSUME NEW ft, NEW t \in Tracks
  PROVE  Cardinality(Chain(ft, t)) >= 1
<1>1. {t} \in SUBSET Chain(ft, t)
  BY ChainHere
<1>2. Cardinality({t}) <= Cardinality(Chain(ft, t))
  BY <1>1, ChainFinite, FS_Subset
<1> QED BY <1>2, ChainFinite, FS_Singleton

-----------------------------------------------------------------------------
(* Where a handle that writes stands *)

\* On the last cluster of its file's m tracks, or just behind its last track.
Stands(f, m) ==
  /\ f.lasttrack = f.curtrack
  /\ f.curcluster \in 0 .. TRACK_SIZE /\ f.endcluster = f.curcluster
  /\ f.crpos \in 0 .. CLUSTERSIZE /\ f.length > 0
  /\ f.pos + CLUSTERSIZE = (f.length * CLUSTERSIZE) + f.crpos
  /\ f.length + TRACK_SIZE = (TRACK_SIZE * m) + f.curcluster + 1

\* It has a whole cluster before it only as long as nothing was written.
Begun(f) == f.crpos = 0 => f.length = 1 /\ f.curcluster = 0

SamePlace(f, g) ==
  /\ g.dir_index = f.dir_index /\ g.starttrack = f.starttrack
  /\ g.length = f.length /\ g.pos = f.pos

LEMMA EnterStands ==
  ASSUME NEW ft \in FatType, NEW f \in jdfcb, f.curcluster \in 0 .. TRACK_SIZE,
         ft[f.curtrack].successor = NONE
  PROVE  LET e == EnterTrack(ft, f) IN
         /\ SamePlace(f, e.fcb)
         /\ \/ e.res = "ok" /\ e.fat = ft /\ e.fcb = f /\ f.curcluster < TRACK_SIZE
            \/ /\ e.res = "full" /\ FreeTracks(ft) = {} /\ f.curcluster = TRACK_SIZE
               /\ e.fat = ft /\ e.fcb = [f EXCEPT !.eof = TRUE]
            \/ /\ e.res = "ok" /\ f.curcluster = TRACK_SIZE
               /\ \E i \in Tracks :
                    /\ ft[i].successor = FREE /\ e.fat = Grown(ft, f.curtrack, i)
                    /\ e.fcb.curtrack = i /\ e.fcb.lasttrack = i
                    /\ e.fcb.curcluster = 0 /\ e.fcb.endcluster = 0 /\ e.fcb.crpos = 0
<1> DEFINE e == EnterTrack(ft, f)
           next == get_next_track(ft, f)
<1>1. ~Linked(next)
  BY Geometry DEF Linked, get_next_track
<1>2. f.curcluster < TRACK_SIZE <=> f.curcluster # TRACK_SIZE
  BY Geometry
<1>3. CASE f.curcluster # TRACK_SIZE
  <2>1. e = [res |-> "ok", fat |-> ft, fcb |-> f]
    BY <1>3 DEF EnterTrack
  <2> QED BY <1>2, <1>3, <2>1 DEF SamePlace
<1>4. CASE f.curcluster = TRACK_SIZE /\ FreeTracks(ft) = {}
  <2>1. e = [res |-> "full", fat |-> ft, fcb |-> [f EXCEPT !.eof = TRUE]]
    BY <1>1, <1>4 DEF EnterTrack
  <2>2. SamePlace(f, [f EXCEPT !.eof = TRUE])
    BY DEF SamePlace, jdfcb
  <2> QED BY <1>4, <2>1, <2>2
<1>5. CASE f.curcluster = TRACK_SIZE /\ FreeTracks(ft) # {}
  <2> DEFINE i == Least(FreeTracks(ft))
             a == [f EXCEPT !.curtrack = i, !.lasttrack = i, !.curcluster = 0, !.endcluster = 0]
             b == [a EXCEPT !.endcluster = 0, !.eof = TRUE]
             g == [b EXCEPT !.curcluster = 0, !.crcluster = @ + 1, !.crpos = 0]
  <2>1. i \in Tracks /\ ft[i].successor = FREE
    BY <1>5, FreeTrack
  <2>2. e = [res |-> "ok", fat |-> Grown(ft, f.curtrack, i), fcb |-> g]
    BY <1>1, <1>5 DEF EnterTrack, alloc_new_track, Grown
  <2> HIDE DEF i
  <2>3. /\ g.curtrack = i /\ g.lasttrack = i /\ g.curcluster = 0 /\ g.endcluster = 0 /\ g.crpos = 0
        /\ SamePlace(f, g)
    BY DEF SamePlace, jdfcb
  <2> HIDE DEF g
  <2> QED BY <1>5, <2>1, <2>2, <2>3
<1> QED BY <1>3, <1>4, <1>5

\* One more cluster on the last track.
LEMMA NewClusterStands ==
  ASSUME NEW f \in jdfcb, f.lasttrack = f.curtrack, f.endcluster = f.curcluster,
         f.curcluster < TRACK_SIZE
  PROVE  LET g == alloc_new_cluster(f) IN
         /\ g.curtrack = f.curtrack /\ g.lasttrack = f.lasttrack
         /\ g.curcluster = f.curcluster + 1 /\ g.endcluster = f.curcluster + 1
         /\ g.crpos = 0 /\ g.length = f.length + 1 /\ g.pos = f.pos
         /\ g.dir_index = f.dir_index /\ g.starttrack = f.starttrack
<1> DEFINE k == [f EXCEPT !.curcluster = @ + 1, !.crcluster = @ + 1, !.crpos = 0]
           g == [k EXCEPT !.endcluster = k.curcluster, !.length = @ + 1]
<1>1. f.curcluster \in Nat /\ f.endcluster \in Nat
  BY FcbFields
<1>2. /\ k.curtrack = f.curtrack /\ k.lasttrack = f.lasttrack /\ k.endcluster = f.endcluster
      /\ k.curcluster = f.curcluster + 1
  BY DEF jdfcb
<1>3. alloc_new_cluster(f) = g
  BY <1>1, <1>2 DEF alloc_new_cluster
<1>4. /\ g.curtrack = f.curtrack /\ g.lasttrack = f.lasttrack
      /\ g.curcluster = f.curcluster + 1 /\ g.endcluster = f.curcluster + 1
      /\ g.crpos = 0 /\ g.length = f.length + 1 /\ g.pos = f.pos
      /\ g.dir_index = f.dir_index /\ g.starttrack = f.starttrack
  BY DEF jdfcb
<1> HIDE DEF g
<1> QED BY <1>3, <1>4

\* A round of a write on a medium that works: the handle stays on its track
\* or a free one is appended to it.
LEMMA FlushedStands ==
  ASSUME fat \in FatType, NEW f \in jdfcb, NEW m \in Nat, Stands(f, m),
         fat[f.curtrack].successor = NONE
  PROVE  LET w == Flushed(f, TRUE) IN
         /\ w.fcb.pos = f.pos /\ w.fcb.dir_index = f.dir_index /\ w.fcb.starttrack = f.starttrack
         /\ \/ w.fat = fat /\ w.fcb.curtrack = f.curtrack /\ Stands(w.fcb, m)
            \/ \E i \in Tracks : /\ fat[i].successor = FREE /\ w.fat = Grown(fat, f.curtrack, i)
                                 /\ w.fcb.curtrack = i /\ Stands(w.fcb, m + 1)
<1> DEFINE w == Flushed(f, TRUE)
           e == EnterTrack(fat, f)
           v == nkcfs_write_cluster(fat, f, TRUE)
<1>1. /\ f.curcluster \in 0 .. TRACK_SIZE /\ f.length \in Nat /\ f.pos \in Int
      /\ TRACK_SIZE \in Nat /\ TRACK_SIZE > 0 /\ CLUSTERSIZE \in Nat /\ CLUSTERSIZE > 0
  BY FcbFields, Geometry DEF Stands
<1>2. CASE f.crpos # CLUSTERSIZE
  <2>1. w = [res |-> "ok", fat |-> fat, fcb |-> f, written |-> {}]
    BY <1>2 DEF Flushed
  <2> HIDE DEF w
  <2>2. w.fat = fat /\ w.fcb = f
    BY <2>1
  <2> QED BY <2>2 DEF w
<1>3. CASE f.crpos = CLUSTERSIZE
  <2>1. /\ v = [res |-> v.res, fat |-> e.fat, fcb |-> e.fcb, written |-> v.written]
        /\ v.res = IF e.res = "full" THEN "full" ELSE "ok"
    BY DEF nkcfs_write_cluster
  <2>2. w = IF v.res = "ok" THEN [v EXCEPT !.fcb = alloc_new_cluster(v.fcb)] ELSE v
    BY <1>3 DEF Flushed
  <2>3. e.fcb \in jdfcb
    BY EnterTyped
  <2> DEFINE g == alloc_new_cluster(e.fcb)
  <2>4. v.res = "ok" => w.fat = e.fat /\ w.fcb = g
    <3> HIDE DEF e, v, w
    <3>1. v.res = "ok" => w = [res |-> v.res, fat |-> e.fat, fcb |-> alloc_new_cluster(e.fcb),
                               written |-> v.written]
      BY <2>1, <2>2
    <3> QED BY <3>1
  <2>5. v.res # "ok" => w.fat = e.fat /\ w.fcb = e.fcb
    <3> HIDE DEF e, v, w
    <3> QED BY <2>1, <2>2
  <2>6. /\ SamePlace(f, e.fcb)
        /\ \/ e.res = "ok" /\ e.fat = fat /\ e.fcb = f /\ f.curcluster < TRACK_SIZE
           \/ /\ e.res = "full" /\ FreeTracks(fat) = {} /\ f.curcluster = TRACK_SIZE
              /\ e.fat = fat /\ e.fcb = [f EXCEPT !.eof = TRUE]
           \/ /\ e.res = "ok" /\ f.curcluster = TRACK_SIZE
              /\ \E i \in Tracks :
                   /\ fat[i].successor = FREE /\ e.fat = Grown(fat, f.curtrack, i)
                   /\ e.fcb.curtrack = i /\ e.fcb.lasttrack = i
                   /\ e.fcb.curcluster = 0 /\ e.fcb.endcluster = 0 /\ e.fcb.crpos = 0
    BY <1>1, EnterStands
  <2> HIDE DEF w, e, v
  <2>7. CASE e.res = "ok" /\ e.fat = fat /\ e.fcb = f /\ f.curcluster < TRACK_SIZE
    <3>1. w.fat = fat /\ w.fcb = g
      BY <2>1, <2>4, <2>7
    <3>2. /\ g.curtrack = f.curtrack /\ g.lasttrack = f.lasttrack
          /\ g.curcluster = f.curcluster + 1 /\ g.endcluster = f.curcluster + 1
          /\ g.crpos = 0 /\ g.length = f.length + 1 /\ g.pos = f.pos
          /\ g.dir_index = f.dir_index /\ g.starttrack = f.starttrack
      BY <2>7, NewClusterStands DEF Stands
    <3> HIDE DEF g
    <3>3. Stands(g, m)
      <4>1. g.pos + CLUSTERSIZE = (g.length * CLUSTERSIZE) + g.crpos
        <5>1. f.pos + CLUSTERSIZE = (f.length * CLUSTERSIZE) + CLUSTERSIZE
          BY <1>3 DEF Stands
        <5>2. (f.length + 1) * CLUSTERSIZE = (f.length * CLUSTERSIZE) + CLUSTERSIZE
          BY <1>1
        <5>3. f.length * CLUSTERSIZE \in Nat
          BY <1>1
        <5> QED BY <1>1, <3>2, <5>1, <5>2, <5>3
      <4>2. g.length + TRACK_SIZE = (TRACK_SIZE * m) + g.curcluster + 1
        <5>1. f.length + TRACK_SIZE = (TRACK_SIZE * m) + f.curcluster + 1 /\ TRACK_SIZE * m \in Nat
          BY <1>1 DEF Stands
        <5> QED BY <1>1, <3>2, <5>1
      <4> QED BY <1>1, <2>7, <3>2, <4>1, <4>2 DEF Stands
    <3> QED BY <3>1, <3>2, <3>3 DEF w
  <2>8. CASE /\ e.res = "full" /\ FreeTracks(fat) = {} /\ f.curcluster = TRACK_SIZE
             /\ e.fat = fat /\ e.fcb = [f EXCEPT !.eof = TRUE]
    <3>1. w.fat = fat /\ w.fcb = e.fcb
      BY <2>1, <2>5, <2>8
    <3>2. /\ e.fcb.curtrack = f.curtrack /\ e.fcb.lasttrack = f.lasttrack
          /\ e.fcb.curcluster = f.curcluster /\ e.fcb.endcluster = f.endcluster
          /\ e.fcb.crpos = f.crpos /\ e.fcb.length = f.length /\ e.fcb.pos = f.pos
      BY <2>8 DEF jdfcb
    <3>3. Stands(w.fcb, m)
      BY <3>1, <3>2 DEF Stands
    <3> QED BY <2>6, <3>1, <3>2, <3>3 DEF SamePlace, w
  <2>9. ASSUME e.res = "ok", f.curcluster = TRACK_SIZE, NEW i \in Tracks,
               fat[i].successor = FREE, e.fat = Grown(fat, f.curtrack, i),
               e.fcb.curtrack = i, e.fcb.lasttrack = i,
               e.fcb.curcluster = 0, e.fcb.endcluster = 0
        PROVE  /\ w.fcb.pos = f.pos /\ w.fcb.dir_index = f.dir_index /\ w.fcb.starttrack = f.starttrack
               /\ w.fat = Grown(fat, f.curtrack, i) /\ w.fcb.curtrack = i /\ Stands(w.fcb, m + 1)
    <3>1. w.fat = e.fat /\ w.fcb = g
      BY <2>1, <2>4, <2>9
    <3>2. /\ g.curtrack = e.fcb.curtrack /\ g.lasttrack = e.fcb.lasttrack
          /\ g.curcluster = e.fcb.curcluster + 1 /\ g.endcluster = e.fcb.curcluster + 1
          /\ g.crpos = 0 /\ g.length = e.fcb.length + 1 /\ g.pos = e.fcb.pos
          /\ g.dir_index = e.fcb.dir_index /\ g.starttrack = e.fcb.starttrack
      BY <1>1, <2>3, <2>9, NewClusterStands
    <3> HIDE DEF g
    <3>3. /\ g.curtrack = i /\ g.lasttrack = i /\ g.curcluster = 1 /\ g.endcluster = 1
          /\ g.crpos = 0 /\ g.length = f.length + 1 /\ g.pos = f.pos
          /\ g.dir_index = f.dir_index /\ g.starttrack = f.starttrack
      BY <2>6, <2>9, <3>2 DEF SamePlace
    <3>4. Stands(g, m + 1)
      <4>1. g.pos + CLUSTERSIZE = (g.length * CLUSTERSIZE) + g.crpos
        <5>1. f.pos + CLUSTERSIZE = (f.length * CLUSTERSIZE) + CLUSTERSIZE
          BY <1>3 DEF Stands
        <5>2. (f.length + 1) * CLUSTERSIZE = (f.length * CLUSTERSIZE) + CLUSTERSIZE
          BY <1>1
        <5>3. f.length * CLUSTERSIZE \in Nat
          BY <1>1
        <5> QED BY <1>1, <3>3, <5>1, <5>2, <5>3
      <4>2. g.length + TRACK_SIZE = (TRACK_SIZE * (m + 1)) + g.curcluster + 1
        <5>1. f.length + TRACK_SIZE = (TRACK_SIZE * m) + TRACK_SIZE + 1 /\ TRACK_SIZE * m \in Nat
          BY <1>1, <2>9 DEF Stands
        <5>2. TRACK_SIZE * (m + 1) = (TRACK_SIZE * m) + TRACK_SIZE
          BY <1>1
        <5> QED BY <1>1, <3>3, <5>1, <5>2
      <4> QED BY <1>1, <3>3, <4>1, <4>2 DEF Stands
    <3> QED BY <2>9, <3>1, <3>3, <3>4
  <2>10. CASE /\ e.res = "ok" /\ f.curcluster = TRACK_SIZE
              /\ \E i \in Tracks :
                   /\ fat[i].successor = FREE /\ e.fat = Grown(fat, f.curtrack, i)
                   /\ e.fcb.curtrack = i /\ e.fcb.lasttrack = i
                   /\ e.fcb.curcluster = 0 /\ e.fcb.endcluster = 0 /\ e.fcb.crpos = 0
    <3> HIDE DEF g
    <3> QED BY <2>9, <2>10 DEF w
  <2> QED BY <2>6, <2>7, <2>8, <2>10
<1> QED BY <1>2, <1>3

LEMMA FillStands ==
  ASSUME NEW f \in jdfcb, NEW m \in Nat, Stands(f, m), NEW c \in Nat, c > 0
  PROVE  LET n == Smaller(c, CLUSTERSIZE - f.crpos)
             g == Fill(f, n)
         IN /\ n \in Nat
            /\ Stands(g, m) /\ Begun(g)
            /\ g.pos = f.pos + n /\ g.curtrack = f.curtrack
            /\ g.dir_index = f.dir_index /\ g.starttrack = f.starttrack
<1> DEFINE n == Smaller(c, CLUSTERSIZE - f.crpos)
           g == Fill(f, n)
<1>1. /\ f.length \in Nat /\ f.pos \in Int /\ f.crpos \in 0 .. CLUSTERSIZE
      /\ CLUSTERSIZE \in Nat /\ CLUSTERSIZE > 0
  BY FcbFields, Geometry DEF Stands
<1>2. n \in Nat /\ f.crpos + n \in 0 .. CLUSTERSIZE /\ f.crpos + n > 0
  BY <1>1 DEF Smaller
<1> HIDE DEF n
<1>3. /\ g.curtrack = f.curtrack /\ g.lasttrack = f.lasttrack
      /\ g.curcluster = f.curcluster /\ g.endcluster = f.endcluster
      /\ g.crpos = f.crpos + n /\ g.pos = f.pos + n /\ g.length = f.length
      /\ g.dir_index = f.dir_index /\ g.starttrack = f.starttrack
  BY DEF Fill, jdfcb
<1> HIDE DEF g
<1>4. g.pos + CLUSTERSIZE = (g.length * CLUSTERSIZE) + g.crpos
  <2>1. f.pos + CLUSTERSIZE = (f.length * CLUSTERSIZE) + f.crpos /\ f.length * CLUSTERSIZE \in Nat
    BY <1>1 DEF Stands
  <2> QED BY <1>1, <1>2, <1>3, <2>1, SMTT(30)
<1>5. Stands(g, m) /\ Begun(g)
  BY <1>2, <1>3, <1>4 DEF Stands, Begun
<1> QED BY <1>2, <1>3, <1>5 DEF g, n

LEMMA Quotient ==
  ASSUME NEW q \in Nat, NEW d \in Nat \ {0}, NEW r \in 0 .. d - 1
  PROVE  ((q * d) + r) \div d = q
OBVIOUS

\* The clusters a file of that many bytes has.
LEMMA StandsExact ==
  ASSUME NEW f \in jdfcb, NEW m \in Nat, Stands(f, m), Begun(f)
  PROVE  f.length = IF f.pos = 0 THEN 1 ELSE Clusters(f.pos)
<1>1. /\ f.length \in Nat /\ f.length > 0 /\ f.pos \in Int /\ f.crpos \in 0 .. CLUSTERSIZE
      /\ CLUSTERSIZE \in Nat /\ CLUSTERSIZE > 0
      /\ f.pos + CLUSTERSIZE = (f.length * CLUSTERSIZE) + f.crpos
  BY FcbFields, Geometry DEF Stands
<1>2. CASE f.crpos = 0
  <2>1. f.length = 1
    BY <1>2 DEF Begun
  <2>2. f.pos = 0
    BY <1>1, <1>2, <2>1
  <2> QED BY <2>1, <2>2
<1>3. CASE f.crpos > 0
  <2> DEFINE p == f.length - 1
  <2>1. p \in Nat /\ f.length = p + 1
    BY <1>1
  <2>2. f.length * CLUSTERSIZE = (p * CLUSTERSIZE) + CLUSTERSIZE /\ p * CLUSTERSIZE \in Nat
    BY <1>1, <2>1
  <2>3. f.pos > 0
    BY <1>1, <1>3, <2>2
  <2>4. f.pos + CLUSTERSIZE - 1 = (f.length * CLUSTERSIZE) + (f.crpos - 1)
    <3> DEFINE y == f.length * CLUSTERSIZE
    <3>1. y \in Int /\ CLUSTERSIZE \in Int /\ f.crpos \in Int /\ f.pos \in Int
          /\ f.pos + CLUSTERSIZE = y + f.crpos
      BY <1>1
    <3> HIDE DEF y
    <3>2. f.pos + CLUSTERSIZE - 1 = y + (f.crpos - 1)
      BY <3>1
    <3> QED BY <3>2 DEF y
  <2>5. f.crpos - 1 \in 0 .. CLUSTERSIZE - 1
    BY <1>1, <1>3
  <2>6. Clusters(f.pos) = f.length
    <3>1. ((f.length * CLUSTERSIZE) + (f.crpos - 1)) \div CLUSTERSIZE = f.length
      BY <1>1, <2>5, Quotient, SMTT(30)
    <3>2. Clusters(f.pos) = (f.pos + CLUSTERSIZE - 1) \div CLUSTERSIZE
      BY DEF Clusters
    <3> QED BY <2>4, <3>1, <3>2
  <2> QED BY <2>3, <2>6
<1> QED BY <1>1, <1>2, <1>3

\* What a close does to the last cluster of the file.
LEMMA CloseStands ==
  ASSUME fat \in FatType, NEW f \in jdfcb, NEW m \in Nat, Stands(f, m), Begun(f),
         fat[f.curtrack].successor = NONE
  PROVE  LET k == OneIndexed(f)
             w == IF k.crpos = 0 THEN [fat |-> fat, fcb |-> k, written |-> {}]
                  ELSE nkcfs_write_cluster(fat, k, TRUE)
         IN /\ SamePlace(f, w.fcb)
            /\ \/ /\ w.fat = fat
                  /\ f.length <= TRACK_SIZE * m \/ (f.curcluster = TRACK_SIZE /\ FreeTracks(fat) = {})
               \/ \E i \in Tracks : /\ fat[i].successor = FREE /\ w.fat = Grown(fat, f.curtrack, i)
                                    /\ f.length <= TRACK_SIZE * (m + 1)
<1> DEFINE k == OneIndexed(f)
           e == EnterTrack(fat, k)
           v == nkcfs_write_cluster(fat, k, TRUE)
           w == IF k.crpos = 0 THEN [fat |-> fat, fcb |-> k, written |-> {}] ELSE v
           a == TRACK_SIZE * m
           b == TRACK_SIZE * (m + 1)
           Closed == /\ SamePlace(f, w.fcb)
                     /\ \/ /\ w.fat = fat
                           /\ f.length <= a \/ (f.curcluster = TRACK_SIZE /\ FreeTracks(fat) = {})
                        \/ \E i \in Tracks : /\ fat[i].successor = FREE
                                             /\ w.fat = Grown(fat, f.curtrack, i)
                                             /\ f.length <= b
<1>1. /\ f.curcluster \in 0 .. TRACK_SIZE /\ f.length \in Nat
      /\ TRACK_SIZE \in Nat /\ TRACK_SIZE > 0
      /\ f.length + TRACK_SIZE = a + f.curcluster + 1
      /\ a \in Nat /\ b = a + TRACK_SIZE
  BY FcbFields, Geometry DEF Stands
<1>2. /\ k \in jdfcb /\ SamePlace(f, k) /\ k.curcluster = f.curcluster
      /\ k.crpos = f.crpos /\ k.curtrack = f.curtrack
  <2> DEFINE x == (f.endcluster + 1) % 65536
  <2>1. x \in Nat
    BY FcbFields
  <2>2. k = [f EXCEPT !.endcluster = x]
    BY DEF OneIndexed
  <2> HIDE DEF x, k
  <2> QED BY <2>1, <2>2 DEF jdfcb, SamePlace
<1> HIDE DEF k, a, b
<1>3. (f.curcluster < TRACK_SIZE => f.length <= a) /\ f.length <= b
  BY <1>1
<1>4. ASSUME k.crpos = 0 PROVE Closed
  <2>1. w.fat = fat /\ w.fcb = k
    BY <1>4
  <2>2. f.curcluster < TRACK_SIZE
    BY <1>1, <1>2, <1>4 DEF Begun
  <2> HIDE DEF w
  <2> QED BY <1>2, <1>3, <2>1, <2>2
<1>5. ASSUME k.crpos # 0 PROVE Closed
  <2>1. v.fat = e.fat /\ v.fcb = e.fcb
    BY DEF nkcfs_write_cluster
  <2>2. w = v
    BY <1>5
  <2>3. /\ SamePlace(k, e.fcb)
        /\ \/ e.fat = fat /\ k.curcluster < TRACK_SIZE
           \/ e.fat = fat /\ FreeTracks(fat) = {} /\ k.curcluster = TRACK_SIZE
           \/ \E i \in Tracks : fat[i].successor = FREE /\ e.fat = Grown(fat, k.curtrack, i)
    <3>1. k.curcluster \in 0 .. TRACK_SIZE /\ fat[k.curtrack].successor = NONE
      BY <1>1, <1>2
    <3> QED BY <1>2, <3>1, EnterStands
  <2> HIDE DEF w, v, e
  <2>4. SamePlace(f, w.fcb)
    BY <1>2, <2>1, <2>2, <2>3 DEF SamePlace
  <2> QED BY <1>2, <1>3, <2>1, <2>2, <2>3, <2>4
<1>6. Closed
  BY <1>4, <1>5
<1> HIDE DEF w
<1> QED BY <1>6 DEF w, v, k, a, b

-----------------------------------------------------------------------------
(* Every file and its entry *)

\* Writers whose entry has not been brought up to date.
Busy == Writers \ (IF call.op \in {"closeFat", "closeDir"} THEN {call.fd} ELSE {})

Tracks_(h) == Cardinality(Chain(fat, fcb[h].starttrack))
WriterStands(h) ==
  /\ Stands(fcb[h], Tracks_(h)) /\ Begun(fcb[h])
  /\ fat[fcb[h].curtrack].successor = NONE
  /\ size[fcb[h].dir_index] = fcb[h].pos
  /\ dir[fcb[h].dir_index].length = 1

Unfinished(s) == \E h \in Busy : fcb[h].dir_index = s
Exact(s) == dir[s].length = IF size[s] = 0 THEN 1 ELSE Clusters(size[s])
Covered(s) == dir[s].length <= TRACK_SIZE * Cardinality(Chain(fat, dir[s].starttrack))

OneWriterEach ==
  \A h, k \in Writers : fcb[h].dir_index = fcb[k].dir_index => h = k

FilesInv ==
  /\ MountedInv
  /\ \A h \in Busy : WriterStands(h)
  /\ OneWriterEach
  /\ \A s \in Valid(dir) : Unfinished(s) \/ Exact(s)

\* A step leaves the file in slot s as it is.
Untouched(s) ==
  /\ s \in Valid(dir) /\ s \in Valid(dir')
  /\ dir'[s].length = dir[s].length /\ dir'[s].starttrack = dir[s].starttrack
  /\ size'[s] = size[s]
  /\ \A u \in Chain(fat, dir[s].starttrack) : fat'[u] = fat[u]

\* The files of the slots in S are the only ones a step touches, they and the
\* handles that write them.
Touches(S) ==
  /\ \A s \in Valid(dir') \ S : Untouched(s)
  /\ \A h \in Busy' : fcb'[h].dir_index \notin S => h \in Busy /\ fcb'[h] = fcb[h]
  /\ \A h \in Busy : fcb[h].dir_index \notin S => h \in Busy' /\ fcb'[h] = fcb[h]

\* A step keeps the invariant if it does so for the files it touches.
LEMMA FilesKept ==
  ASSUME FilesInv, MountedInv', NEW S \in SUBSET Slots, Touches(S),
         \A h \in Busy' : fcb'[h].dir_index \in S => WriterStands(h)',
         OneWriterEach',
         \A s \in S \cap Valid(dir') : Unfinished(s)' \/ Exact(s)'
  PROVE  /\ FilesInv'
         /\ LengthCovered /\ (\A s \in S \cap Valid(dir') : Covered(s)') => LengthCovered'
<1>1. /\ VolumeInv /\ VolumeInv' /\ \A h \in Busy : WriterStands(h)
  BY DEF FilesInv, MountedInv
<1>2. ASSUME NEW s \in Valid(dir') \ S
      PROVE  /\ Untouched(s) /\ dir[s].starttrack \in Tracks
             /\ Chain(fat', dir[s].starttrack) = Chain(fat, dir[s].starttrack)
  <2>1. Untouched(s)
    BY DEF Touches
  <2>2. dir[s].starttrack \in Tracks
    BY <1>1, <2>1 DEF Untouched, VolumeInv, VolumeConsistent, FilesStart
  <2> QED BY <2>1, <2>2, ChainSame DEF Untouched
<1>3. ASSUME NEW h \in Busy', fcb'[h].dir_index \notin S
      PROVE  WriterStands(h)'
  <2> DEFINE s == fcb[h].dir_index
  <2>1. h \in Busy /\ fcb'[h] = fcb[h] /\ WriterStands(h)
    BY <1>1, <1>3 DEF Touches
  <2>2. h \in Fds /\ fcb[h] # NULL /\ fcb'[h] # NULL /\ fcb[h] \in jdfcb
    BY <1>1, <2>1 DEF Busy, Writers, VolumeInv, TypeOK
  <2>3. Anchored(fat, dir, fcb[h]) /\ Anchored(fat', dir', fcb'[h])
    BY <1>1, <2>2 DEF VolumeInv, HandlesAnchored, IsOpen
  <2>4. s \in Valid(dir') \ S
    BY <1>3, <2>1, <2>2, <2>3, FcbFields DEF Anchored, Valid
  <2>5. /\ Untouched(s) /\ dir[s].starttrack = fcb[h].starttrack
        /\ Chain(fat', fcb[h].starttrack) = Chain(fat, fcb[h].starttrack)
    BY <1>2, <2>3, <2>4 DEF Anchored
  <2>6. fat'[fcb[h].curtrack] = fat[fcb[h].curtrack]
    BY <2>3, <2>5 DEF Anchored, Untouched
  <2>7. Tracks_(h)' = Tracks_(h)
    BY <2>1, <2>5 DEF Tracks_
  <2> QED BY <2>1, <2>5, <2>6, <2>7 DEF WriterStands, Untouched
<1>4. ASSUME NEW s \in Valid(dir') \ S
      PROVE  Unfinished(s)' \/ Exact(s)'
  <2>1. s \in Valid(dir) /\ Untouched(s)
    BY <1>2 DEF Untouched
  <2>2. Unfinished(s) \/ Exact(s)
    BY <2>1 DEF FilesInv
  <2>3. Unfinished(s) => Unfinished(s)'
    BY DEF Unfinished, Touches
  <2>4. Exact(s) => Exact(s)'
    BY <2>1 DEF Exact, Untouched
  <2> QED BY <2>2, <2>3, <2>4
<1>5. FilesInv'
  BY <1>3, <1>4 DEF FilesInv
<1>6. ASSUME LengthCovered, \A s \in S \cap Valid(dir') : Covered(s)'
      PROVE  LengthCovered'
  <2>1. ASSUME NEW s \in Valid(dir') \ S PROVE Covered(s)'
    <3>1. Covered(s)
      BY <1>2, <1>6 DEF Covered, LengthCovered, Untouched
    <3> QED BY <1>2, <3>1 DEF Covered, Untouched
  <2>2. \A s \in Valid(dir') : Covered(s)'
    BY <1>6, <2>1
  <2> QED BY <2>2 DEF LengthCovered, Covered
<1> QED BY <1>5, <1>6

FilesStep == FilesInv' /\ (LengthCovered => LengthCovered')

\* Files left alone; writers may be let go.
LEMMA FilesQuiet ==
  ASSUME FilesInv, MountedInv', UNCHANGED <<fat, dir, size>>, Busy' = Busy,
         \A h \in Busy : fcb'[h] = fcb[h],
         Writers' \subseteq Writers, \A h \in Writers' : fcb'[h] = fcb[h]
  PROVE  FilesStep /\ Touches({})
<1>1. Touches({})
  BY DEF Untouched, Touches
<1>2. OneWriterEach'
  BY DEF FilesInv, OneWriterEach
<1>3. {} \in SUBSET Slots
  OBVIOUS
<1> QED BY <1>1, <1>2, <1>3, FilesKept DEF FilesStep

\* Calls that begin, the writes to the medium, mounting.
LEMMA FilesAlone ==
  ASSUME FilesInv, MountedInv', UNCHANGED <<fat, dir, size, fcb>>,
         \/ call'.op \notin {"closeFat", "closeDir"} /\ call.op \notin {"closeFat", "closeDir"}
         \/ call.op = "closeFat" /\ call'.op = "closeDir" /\ call'.fd = call.fd
  PROVE  FilesStep /\ Touches({})
<1>1. Writers' = Writers
  BY DEF Writers
<1>2. Busy' = Busy
  BY <1>1 DEF Busy
<1> QED BY <1>1, <1>2, FilesQuiet DEF Busy

\* A handle that reads.
LEMMA FilesReader ==
  ASSUME FilesInv, MountedInv', UNCHANGED <<fat, dir, size>>, NEW h \in Fds, h \notin Writers,
         h \notin Writers', NEW g, fcb' = [fcb EXCEPT ![h] = g],
         call'.op \notin {"closeFat", "closeDir"}, call.op \notin {"closeFat", "closeDir"}
  PROVE  FilesStep /\ Touches({})
<1>1. fcb \in [Fds -> jdfcb \cup {NULL}]
  BY DEF FilesInv, MountedInv, SavedInv, TypeOK
<1>2. \A k \in Fds : k # h => fcb'[k] = fcb[k]
  BY <1>1
<1>3. \A k \in Fds : k \in Writers' <=> k \in Writers
  BY <1>2 DEF Writers
<1>4. Writers' = Writers
  BY <1>3 DEF Writers
<1>5. Busy' = Busy /\ \A k \in Writers : k \in Fds /\ fcb'[k] = fcb[k]
  BY <1>2, <1>4 DEF Busy, Writers
<1> QED BY <1>4, <1>5, FilesQuiet DEF Busy

LEMMA FilesCloseDir ==
  ASSUME FilesInv, MountedInv', CloseDir
  PROVE  FilesStep /\ Touches({})
<1>1. /\ UNCHANGED <<fat, dir, size>> /\ fcb' = [fcb EXCEPT ![call.fd] = NULL]
      /\ call.op = "closeDir" /\ call' = Idle /\ TypeOK /\ call.fd \in Fds
  BY DEF CloseDir, SaveDir, FilesInv, MountedInv, SavedInv, TypeOK, OnHandle
<1>2. Writers' = Writers \ {call.fd}
  BY <1>1, WritersLess
<1>3. Busy' = Busy
  BY <1>1, <1>2 DEF Busy, Idle
<1>4. \A k \in Writers \ {call.fd} : fcb'[k] = fcb[k]
  BY <1>1 DEF Writers, TypeOK
<1> QED BY <1>1, <1>2, <1>3, <1>4, FilesQuiet DEF Busy

LEMMA Parts ==
  ASSUME MountedInv
  PROVE  /\ TypeOK /\ VolumeInv /\ Consistent(fat, dir) /\ AllAnchored(fat, dir, fcb)
         /\ fat \in FatType /\ dir \in [Slots -> jddir] /\ fcb \in [Fds -> jdfcb \cup {NULL}]
         /\ size \in [Slots -> Int] /\ TracksMirror(fat)
         /\ \A s \in Valid(dir) : /\ s \in Slots /\ dir[s].starttrack \in Tracks
                                  /\ fat[dir[s].starttrack].ancestor = NONE
         /\ \A h \in Writers : /\ h \in Fds /\ fcb[h] \in jdfcb /\ Anchored(fat, dir, fcb[h])
                               /\ fcb[h].dir_index \in Valid(dir)
                               /\ fcb[h].starttrack = dir[fcb[h].dir_index].starttrack
<1>1. TypeOK /\ VolumeInv /\ Consistent(fat, dir) /\ AllAnchored(fat, dir, fcb)
  BY InvParts DEF MountedInv, SavedInv
<1>2. /\ fat \in FatType /\ dir \in [Slots -> jddir] /\ fcb \in [Fds -> jdfcb \cup {NULL}]
      /\ size \in [Slots -> Int] /\ TracksMirror(fat)
  BY <1>1 DEF TypeOK, FatType, Consistent
<1>3. \A s \in Valid(dir) : /\ s \in Slots /\ dir[s].starttrack \in Tracks
                            /\ fat[dir[s].starttrack].ancestor = NONE
  BY <1>1 DEF Consistent, FilesStart, Valid
<1>4. ASSUME NEW h \in Writers
      PROVE  /\ h \in Fds /\ fcb[h] \in jdfcb /\ Anchored(fat, dir, fcb[h])
             /\ fcb[h].dir_index \in Valid(dir)
             /\ fcb[h].starttrack = dir[fcb[h].dir_index].starttrack
  <2>1. h \in Fds /\ fcb[h] \in jdfcb /\ Anchored(fat, dir, fcb[h])
    BY <1>1, <1>2, <1>4 DEF Writers, AllAnchored
  <2> QED BY <2>1, FcbFields DEF Anchored, Valid
<1> QED BY <1>1, <1>2, <1>3, <1>4

\* A writer's track is grown, or nothing is: all other files stay.
LEMMA OthersUntouched ==
  ASSUME MountedInv, NEW h \in Writers, NEW c, c = fcb[h].curtrack,
         fat[c].successor = NONE,
         fat' = fat \/ \E i \in Tracks : fat[i].successor = FREE /\ fat' = Grown(fat, c, i),
         NEW s \in Valid(dir), s # fcb[h].dir_index
  PROVE  \A u \in Chain(fat, dir[s].starttrack) : fat'[u] = fat[u]
<1>1. CASE fat' = fat
  BY <1>1
<1>2. ASSUME NEW i \in Tracks, fat[i].successor = FREE, fat' = Grown(fat, c, i)
      PROVE  \A u \in Chain(fat, dir[s].starttrack) : fat'[u] = fat[u]
  <2>1. c \in Tracks /\ c \in Chain(fat, dir[fcb[h].dir_index].starttrack)
    BY Parts, FcbFields DEF Anchored
  <2>2. c \notin Chain(fat, dir[s].starttrack)
    BY <2>1, Parts, DisjointFiles
  <2>3. i \notin Chain(fat, dir[s].starttrack)
    BY <1>2, Parts, ChainAllocated
  <2>4. \A v \in Tracks : v # c /\ v # i => fat'[v] = fat[v]
    BY <1>2, <2>1, Parts, GrownTable, Geometry
  <2>5. Chain(fat, dir[s].starttrack) \subseteq Tracks
    BY Parts, ChainHere
  <2> QED BY <2>2, <2>3, <2>4, <2>5
<1> QED BY <1>1, <1>2

\* The chain of the file that is written.
LEMMA WrittenChain ==
  ASSUME MountedInv, NEW h \in Writers, fat[fcb[h].curtrack].successor = NONE,
         NEW i \in Tracks, fat[i].successor = FREE, fat' = Grown(fat, fcb[h].curtrack, i)
  PROVE  /\ Cardinality(Chain(fat', fcb[h].starttrack)) = Tracks_(h) + 1
         /\ fat'[i].successor = NONE
<1> DEFINE c == fcb[h].curtrack
           t == fcb[h].starttrack
<1>1. /\ fat \in FatType /\ TracksMirror(fat) /\ c \in Tracks /\ t \in Tracks
      /\ fat[t].ancestor = NONE /\ c \in Chain(fat, t)
  BY Parts, FcbFields DEF Anchored
<1>2. fat[c].successor \notin Tracks /\ fat[c].successor # FREE
  BY Geometry
<1> HIDE DEF c, t
<1>3. fat' = Grown(fat, c, i)
  BY DEF c
<1>4. Cardinality(Chain(fat', t)) = Cardinality(Chain(fat, t)) + 1
  BY <1>1, <1>2, <1>3, ChainGrown
<1>5. fat'[i].successor = NONE
  BY <1>1, <1>2, <1>3, GrownTable
<1> QED BY <1>4, <1>5 DEF Tracks_, t

LEMMA FilesWriteAt ==
  ASSUME FilesInv, MountedInv', PlainModes, WriteStep,
         NEW h \in Fds, h = call.fd, NEW s \in Slots, s = fcb[h].dir_index
  PROVE  FilesStep /\ Touches({s})
<1> DEFINE f == fcb[h]
           w == Flushed(f, TRUE)
           n == Smaller(call.count, CLUSTERSIZE - w.fcb.crpos)
           g == Fill(w.fcb, n)
           m == Tracks_(h)
<1>1. /\ call.op = "write" /\ h \in Writers /\ call.count \in Nat /\ call.count > 0
      /\ MountedInv
  BY DEF WriteStep, FilesInv, MountedInv, SavedInv, CallsPlain, TypeOK
<1>2. h \in Busy /\ WriterStands(h)
  BY <1>1 DEF Busy, FilesInv
<1>3. /\ fat' = w.fat /\ fcb' = [fcb EXCEPT ![h] = g] /\ dir' = dir
      /\ size' = [size EXCEPT ![s] = Larger(@, f.pos + n)]
  <2>1. Media = {TRUE}
    BY DEF PlainModes, Media
  <2>2. f.omode = "E5"
    BY <1>1 DEF Writers
  <2> QED BY <2>1, <2>2 DEF WriteStep
<1>4. call'.op \in {"idle", "write"}
  <2>1. PICK c, b : call' = Idle \/ call' = [call EXCEPT !.count = c, !.bp = b]
    BY DEF WriteStep
  <2> QED BY <1>1, <2>1, RoundKeepsCall, Parts
<1>5. f \in jdfcb /\ h \in Fds /\ fat \in FatType /\ s \in Valid(dir) /\ s \in Slots
  BY <1>1, Parts
<1>6. m \in Nat /\ Stands(f, m) /\ fat[f.curtrack].successor = NONE
      /\ size[s] = f.pos /\ dir[s].length = 1
  BY <1>2, ChainFinite DEF WriterStands, Tracks_
<1>7. /\ w.fcb.pos = f.pos /\ w.fcb.dir_index = s /\ w.fcb.starttrack = f.starttrack
      /\ \/ w.fat = fat /\ w.fcb.curtrack = f.curtrack /\ Stands(w.fcb, m)
         \/ \E i \in Tracks : /\ fat[i].successor = FREE /\ w.fat = Grown(fat, f.curtrack, i)
                              /\ w.fcb.curtrack = i /\ Stands(w.fcb, m + 1)
      /\ w.fcb \in jdfcb
  BY <1>5, <1>6, FlushedStands, FlushedTyped
<1> HIDE DEF w
<1>8. \A k \in Nat : Stands(w.fcb, k) =>
        /\ n \in Nat /\ Stands(g, k) /\ Begun(g) /\ g.pos = f.pos + n
        /\ g.curtrack = w.fcb.curtrack /\ g.dir_index = s /\ g.starttrack = f.starttrack
  BY <1>1, <1>7, FillStands
<1> HIDE DEF n, g, m
<1>9. Writers' = Writers /\ Busy' = Busy
  <2>1. Writers' = Writers
    BY <1>1, WriteStepMode, WritersKept DEF MountedInv, SavedInv
  <2> QED BY <1>1, <1>4, <2>1 DEF Busy
<1>10. fcb'[h] = g /\ \A k \in Fds : k # h => fcb'[k] = fcb[k]
  BY <1>3, <1>5, Parts, <1>1
<1>11. /\ g.dir_index = s /\ g.starttrack = f.starttrack /\ Begun(g) /\ n \in Nat /\ g.pos = f.pos + n
       /\ Stands(g, Cardinality(Chain(fat', f.starttrack)))
       /\ fat'[g.curtrack].successor = NONE
       /\ fat' = fat \/ \E i \in Tracks : fat[i].successor = FREE /\ fat' = Grown(fat, f.curtrack, i)
  <2>1. CASE w.fat = fat /\ w.fcb.curtrack = f.curtrack /\ Stands(w.fcb, m)
    BY <1>3, <1>6, <1>8, <2>1 DEF m, Tracks_
  <2>2. ASSUME NEW i \in Tracks, fat[i].successor = FREE, w.fat = Grown(fat, f.curtrack, i),
               w.fcb.curtrack = i, Stands(w.fcb, m + 1)
        PROVE  /\ g.dir_index = s /\ g.starttrack = f.starttrack /\ Begun(g) /\ n \in Nat
               /\ g.pos = f.pos + n
               /\ Stands(g, Cardinality(Chain(fat', f.starttrack)))
               /\ fat'[g.curtrack].successor = NONE
    <3>1. /\ Cardinality(Chain(fat', f.starttrack)) = m + 1
          /\ fat'[i].successor = NONE
      BY <1>1, <1>3, <1>6, <2>2, WrittenChain DEF m
    <3> QED BY <1>6, <1>8, <2>2, <3>1
  <2> QED BY <1>3, <1>7, <2>1, <2>2
<1>12. size'[s] = g.pos /\ \A r \in Slots : r # s => size'[r] = size[r]
  <2>1. size \in [Slots -> Int] /\ f.pos \in Int
    BY <1>1, <1>5, Parts, FcbFields
  <2>2. size'[s] = Larger(f.pos, f.pos + n)
    BY <1>3, <1>5, <1>6, <2>1
  <2>3. Larger(f.pos, f.pos + n) = f.pos + n
    BY <1>11, <2>1 DEF Larger
  <2>4. \A r \in Slots : r # s => size'[r] = size[r]
    BY <1>3, <2>1
  <2> QED BY <1>11, <2>2, <2>3, <2>4
<1>13. WriterStands(h)'
  <2>1. fcb'[h].dir_index = s /\ fcb'[h].starttrack = f.starttrack
    BY <1>10, <1>11
  <2>2. Tracks_(h)' = Cardinality(Chain(fat', f.starttrack))
    BY <2>1 DEF Tracks_
  <2>3. WriterStands(h)' <=> /\ Stands(fcb'[h], Tracks_(h)') /\ Begun(fcb'[h])
                             /\ fat'[fcb'[h].curtrack].successor = NONE
                             /\ size'[fcb'[h].dir_index] = fcb'[h].pos
                             /\ dir'[fcb'[h].dir_index].length = 1
    BY DEF WriterStands
  <2> HIDE DEF f
  <2> QED BY <1>3, <1>6, <1>10, <1>11, <1>12, <2>1, <2>2, <2>3
<1>14. \A k \in Writers : k # h => fcb[k].dir_index # s /\ k \in Fds
  BY <1>1 DEF FilesInv, OneWriterEach, Writers
<1>15. \A r \in Valid(dir') \ {s} : Untouched(r)
  BY <1>1, <1>3, <1>6, <1>11, <1>12, OthersUntouched, Parts DEF Untouched
<1>16. \A k \in Busy : k \in Writers
  BY DEF Busy
<1>17. OneWriterEach'
  <2>1. \A k \in Writers : fcb'[k].dir_index = fcb[k].dir_index
    BY <1>10, <1>11, <1>14
  <2> QED BY <1>9, <2>1 DEF FilesInv, OneWriterEach
<1>18. Unfinished(s)'
  BY <1>2, <1>9, <1>10, <1>11 DEF Unfinished
<1>19. Covered(s)'
  <2>1. dir'[s].length = 1 /\ dir'[s].starttrack \in Tracks
    BY <1>1, <1>3, <1>5, <1>6, Parts
  <2>2. Cardinality(Chain(fat', dir'[s].starttrack)) >= 1
    BY <2>1, ChainNotEmpty
  <2>3. \A x \in Nat : x >= 1 => 1 <= TRACK_SIZE * x
    BY Geometry
  <2> QED BY <2>1, <2>2, <2>3, ChainFinite DEF Covered
<1>20. \A k \in Busy' : fcb'[k].dir_index \notin {s} => k \in Busy /\ fcb'[k] = fcb[k]
  BY <1>9, <1>10, <1>11, <1>14, <1>16
<1>21. \A k \in Busy : fcb[k].dir_index \notin {s} => k \in Busy' /\ fcb'[k] = fcb[k]
  BY <1>9, <1>10, <1>14, <1>16
<1>22. \A k \in Busy' : fcb'[k].dir_index \in {s} => WriterStands(k)'
  BY <1>9, <1>10, <1>11, <1>13, <1>14, <1>16
<1>23. {s} \in SUBSET Slots
  BY <1>5
<1> HIDE DEF f
<1> QED BY <1>15, <1>17, <1>18, <1>19, <1>20, <1>21, <1>22, <1>23, FilesKept DEF FilesStep, Touches

LEMMA FilesWrite ==
  ASSUME FilesInv, MountedInv', PlainModes, WriteStep
  PROVE  FilesStep
<1>1. call.fd \in Writers /\ MountedInv
  BY DEF WriteStep, FilesInv, MountedInv, SavedInv, CallsPlain
<1>2. call.fd \in Fds /\ fcb[call.fd].dir_index \in Slots
  BY <1>1, Parts
<1> QED BY <1>2, FilesWriteAt

\* No handle stands behind the last track of its file while the volume is full.
NeverFull == \A h \in Writers : fcb[h].curcluster < TRACK_SIZE \/ FreeTracks(fat) # {}

\* A close brings the entry up to date with the file.
LEMMA FilesClose ==
  ASSUME FilesInv, MountedInv', PlainModes, NEW h \in Fds, CloseWriter(h),
         NEW s \in Slots, s = fcb[h].dir_index
  PROVE  FilesInv' /\ (LengthCovered /\ NeverFull => LengthCovered') /\ Touches({s})
<1> DEFINE f == fcb[h]
           k == OneIndexed(f)
           w == IF k.crpos = 0 THEN [fat |-> fat, fcb |-> k, written |-> {}]
                ELSE nkcfs_write_cluster(fat, k, TRUE)
           m == Tracks_(h)
<1>1. call.op = "idle" /\ h \in Writers /\ h \in Busy /\ MountedInv
  BY DEF CloseWriter, Ready, IsOpen, Writers, Busy, FilesInv
<1>2. /\ fat' = w.fat /\ fcb' = [fcb EXCEPT ![h] = w.fcb] /\ dir' = update_dir(dir, w.fcb)
      /\ UNCHANGED size /\ call' = Begin("closeFat", h, 0)
  <2>1. Media = {TRUE}
    BY DEF PlainModes, Media
  <2> QED BY <2>1 DEF CloseWriter
<1>3. call'.op = "closeFat" /\ call'.fd = h
  BY <1>2 DEF Begin
<1>4. /\ f \in jdfcb /\ fat \in FatType /\ s \in Valid(dir)
      /\ dir \in [Slots -> jddir] /\ fcb \in [Fds -> jdfcb \cup {NULL}]
      /\ f.starttrack = dir[s].starttrack /\ f.starttrack \in Tracks
  BY <1>1, Parts
<1>5. /\ m \in Nat /\ Stands(f, m) /\ Begun(f) /\ fat[f.curtrack].successor = NONE
      /\ size[s] = f.pos
  BY <1>1, ChainFinite DEF FilesInv, WriterStands, Tracks_
<1>6. /\ w.fcb.dir_index = s /\ w.fcb.starttrack = f.starttrack /\ w.fcb.length = f.length
      /\ \/ /\ w.fat = fat
            /\ f.length <= TRACK_SIZE * m \/ (f.curcluster = TRACK_SIZE /\ FreeTracks(fat) = {})
         \/ \E i \in Tracks : /\ fat[i].successor = FREE /\ w.fat = Grown(fat, f.curtrack, i)
                              /\ f.length <= TRACK_SIZE * (m + 1)
  BY <1>4, <1>5, CloseStands DEF SamePlace
<1> HIDE DEF w
<1>7. /\ dir'[s].length = f.length /\ dir'[s].starttrack = f.starttrack
      /\ \A r \in Slots : r # s => dir'[r] = dir[r]
  BY <1>2, <1>4, <1>6 DEF update_dir
<1>8. \A r \in Valid(dir') : r # s => r \in Valid(dir)
  BY <1>7 DEF Valid
<1>9. fat' = fat \/ \E i \in Tracks : fat[i].successor = FREE /\ fat' = Grown(fat, f.curtrack, i)
  BY <1>2, <1>6
<1>10. \A r \in Valid(dir') \ {s} : Untouched(r)
  <2>1. ASSUME NEW r \in Valid(dir') \ {s} PROVE Untouched(r)
    <3>1. r \in Valid(dir) /\ dir'[r] = dir[r] /\ size'[r] = size[r]
      BY <1>2, <1>7, <1>8 DEF Valid
    <3>2. \A u \in Chain(fat, dir[r].starttrack) : fat'[u] = fat[u]
      BY <1>1, <1>5, <1>9, <3>1, OthersUntouched
    <3> QED BY <3>1, <3>2 DEF Untouched
  <2> QED BY <2>1
<1>11. \A j \in Fds : j # h => fcb'[j] = fcb[j]
  BY <1>2, <1>4
<1>12. \A j \in Fds : j # h => (j \in Writers' <=> j \in Writers)
  BY <1>11 DEF Writers
<1>13. Busy' = Writers \ {h}
  BY <1>3, <1>12 DEF Busy, Writers
<1>14. Busy = Writers
  BY <1>1 DEF Busy
<1>15. \A j \in Writers : j # h => j \in Fds /\ fcb[j].dir_index # s /\ fcb'[j] = fcb[j]
  BY <1>1, <1>11 DEF FilesInv, OneWriterEach, Writers
<1>16. OneWriterEach'
  <2>1. fcb'[h].dir_index = s
    BY <1>2, <1>4, <1>6
  <2>2. \A j \in Writers' : (j = h \/ j \in Writers) /\ fcb'[j].dir_index = fcb[j].dir_index
    BY <1>12, <1>15, <2>1 DEF Writers
  <2> QED BY <1>1, <2>2 DEF FilesInv, OneWriterEach
<1>17. Exact(s)'
  <2>1. f.length = IF f.pos = 0 THEN 1 ELSE Clusters(f.pos)
    BY <1>4, <1>5, StandsExact
  <2> HIDE DEF f
  <2> QED BY <1>2, <1>5, <1>7, <2>1 DEF Exact
<1>18. ASSUME NeverFull PROVE Covered(s)'
  <2>1. f.length <= TRACK_SIZE * Cardinality(Chain(fat', f.starttrack))
    <3>1. CASE w.fat = fat /\ f.length <= TRACK_SIZE * m
      BY <1>2, <3>1 DEF Tracks_
    <3>2. CASE f.curcluster = TRACK_SIZE /\ FreeTracks(fat) = {}
      BY <1>1, <1>18, <3>2, Geometry DEF NeverFull
    <3>3. ASSUME NEW i \in Tracks, fat[i].successor = FREE, w.fat = Grown(fat, f.curtrack, i),
                 f.length <= TRACK_SIZE * (m + 1)
          PROVE  f.length <= TRACK_SIZE * Cardinality(Chain(fat', f.starttrack))
      BY <1>1, <1>2, <1>5, <3>3, WrittenChain
    <3> HIDE DEF f, m
    <3> QED BY <1>6, <3>1, <3>2, <3>3
  <2> HIDE DEF f, m
  <2> QED BY <1>7, <2>1 DEF Covered
<1>19. \A j \in Busy' : fcb'[j].dir_index \notin {s} => j \in Busy /\ fcb'[j] = fcb[j]
  BY <1>13, <1>14, <1>15
<1>20. \A j \in Busy : fcb[j].dir_index \notin {s} => j \in Busy' /\ fcb'[j] = fcb[j]
  BY <1>13, <1>14, <1>15
<1>21. \A j \in Busy' : fcb'[j].dir_index \in {s} => WriterStands(j)'
  BY <1>13, <1>15
<1>22. {s} \in SUBSET Slots
  OBVIOUS
<1> HIDE DEF f
<1> QED BY <1>10, <1>16, <1>17, <1>18, <1>19, <1>20, <1>21, <1>22, FilesKept DEF Touches

\* A new file has a track and a cluster, and its writer stands on them.
LEMMA FilesOpenNewAt ==
  ASSUME FilesInv, MountedInv', PlainModes, NEW h \in Fds, NEW n \in Names, NEW flags \in OpenFlags,
         OpenNew(h, n, flags),
         NEW s \in Slots, s = Least(Vacant(dir)), NEW t \in Tracks, t = Least(FreeTracks(fat))
  PROVE  FilesStep /\ Touches({s})
<1> DEFINE g == CreatedFcb(n, flags, t, s)
<1>1. /\ call.op = "idle" /\ call' = call /\ fcb[h] = NULL /\ MountedInv
      /\ fat' = Started(fat, t) /\ dir' = update_dir(dir, g) /\ fcb' = [fcb EXCEPT ![h] = g]
      /\ size' = [size EXCEPT ![s] = 0]
  BY DEF OpenNew, Ready, IsOpen, Started, FilesInv
<1>2. /\ dir \in [Slots -> jddir] /\ fcb \in [Fds -> jdfcb \cup {NULL}] /\ fat \in FatType
      /\ TracksMirror(fat) /\ size \in [Slots -> Int]
  BY <1>1, Parts
<1>3. fat[t].successor = FREE /\ dir[s].id # VALID
  BY FreeTrack, VacantSlot DEF OpenNew
<1>4. /\ g.dir_index = s /\ g.starttrack = t /\ g.curtrack = t /\ g.lasttrack = t /\ g.length = 1
      /\ g.curcluster = 0 /\ g.endcluster = 0 /\ g.crpos = 0 /\ g.pos = 0 /\ g.omode = "E5"
  BY DEF CreatedFcb
<1>5. g # NULL
  BY <1>3, CreatedTyped, NullAssumption, ClientAssumption DEF OpenNew
<1> HIDE DEF g
<1>6. /\ fat'[t].successor = NONE
      /\ \A v \in Tracks : v # t => fat'[v] = fat[v]
  BY <1>1, <1>2, <1>3, StartedTable
<1>7. /\ dir'[s].length = 1 /\ dir'[s].starttrack = t
      /\ \A r \in Slots : r # s => dir'[r] = dir[r] /\ size'[r] = size[r]
      /\ size'[s] = 0
  BY <1>1, <1>2, <1>4 DEF update_dir
<1>8. \A r \in Valid(dir') \ {s} : Untouched(r)
  <2>1. ASSUME NEW r \in Valid(dir') \ {s} PROVE Untouched(r)
    <3>1. r \in Valid(dir) /\ dir'[r] = dir[r] /\ size'[r] = size[r]
      BY <1>7 DEF Valid
    <3>2. t \notin Chain(fat, dir[r].starttrack) /\ Chain(fat, dir[r].starttrack) \subseteq Tracks
      BY <1>1, <1>2, <1>3, <3>1, Parts, ChainAllocated, ChainHere
    <3> QED BY <1>6, <3>1, <3>2 DEF Untouched
  <2> QED BY <2>1
<1>9. fcb'[h] = g /\ \A k \in Fds : k # h => fcb'[k] = fcb[k]
  BY <1>1, <1>2
<1>10. h \notin Writers /\ Writers' = Writers \cup {h}
  <2>1. h \in Writers' /\ h \notin Writers
    BY <1>1, <1>4, <1>5, <1>9 DEF Writers
  <2>2. \A k \in Fds : k # h => (k \in Writers' <=> k \in Writers)
    BY <1>9 DEF Writers
  <2> QED BY <2>1, <2>2 DEF Writers
<1>11. Busy = Writers /\ Busy' = Writers \cup {h}
  BY <1>1, <1>10 DEF Busy
<1>12. \A k \in Writers : k \in Fds /\ k # h /\ fcb'[k] = fcb[k] /\ fcb[k].dir_index # s
  BY <1>1, <1>3, <1>9, <1>10, Parts DEF Valid
<1>13. OneWriterEach'
  BY <1>4, <1>9, <1>10, <1>12 DEF OneWriterEach, FilesInv
<1>14. WriterStands(h)'
  <2>1. Cardinality(Chain(fat', t)) = 1
    BY <1>6, ChainOne
  <2>2. Tracks_(h)' = 1
    BY <1>4, <1>9, <2>1 DEF Tracks_
  <2>3. Stands(g, 1) /\ Begun(g)
    <3>1. TRACK_SIZE \in Nat /\ CLUSTERSIZE \in Nat
      BY Geometry
    <3>2. g.pos + CLUSTERSIZE = (g.length * CLUSTERSIZE) + g.crpos
      BY <1>4, <3>1
    <3>3. g.length + TRACK_SIZE = (TRACK_SIZE * 1) + g.curcluster + 1
      BY <1>4, <3>1
    <3> QED BY <1>4, <3>1, <3>2, <3>3 DEF Stands, Begun
  <2> QED BY <1>4, <1>6, <1>7, <1>9, <2>2, <2>3 DEF WriterStands
<1>15. Unfinished(s)'
  BY <1>4, <1>9, <1>11 DEF Unfinished
<1>16. Covered(s)'
  <2>1. Cardinality(Chain(fat', t)) = 1 /\ 1 <= TRACK_SIZE * 1
    BY <1>6, ChainOne, Geometry
  <2> QED BY <1>7, <2>1 DEF Covered
<1>17. \A k \in Busy' : fcb'[k].dir_index \notin {s} => k \in Busy /\ fcb'[k] = fcb[k]
  BY <1>4, <1>9, <1>11, <1>12
<1>18. \A k \in Busy : fcb[k].dir_index \notin {s} => k \in Busy' /\ fcb'[k] = fcb[k]
  BY <1>11, <1>12
<1>19. \A k \in Busy' : fcb'[k].dir_index \in {s} => WriterStands(k)'
  BY <1>11, <1>12, <1>14
<1>20. {s} \in SUBSET Slots
  OBVIOUS
<1> QED BY <1>8, <1>13, <1>15, <1>16, <1>17, <1>18, <1>19, <1>20, FilesKept DEF FilesStep, Touches

LEMMA FilesOpenNew ==
  ASSUME FilesInv, MountedInv', PlainModes, NEW h \in Fds, NEW n \in Names, NEW flags \in OpenFlags,
         OpenNew(h, n, flags)
  PROVE  FilesStep
<1>1. Least(Vacant(dir)) \in Slots /\ Least(FreeTracks(fat)) \in Tracks
  BY FreeTrack, VacantSlot DEF OpenNew
<1> QED BY <1>1, FilesOpenNewAt

\* A file that is removed takes no track of another along.
LEMMA FilesRemoveAt ==
  ASSUME FilesInv, MountedInv', NEW n \in Names, Remove(n),
         NEW s \in Slots, s = Least(find_file(dir, n))
  PROVE  FilesStep /\ Touches({s})
<1>1. /\ call.op = "idle" /\ call'.op = "removeFat" /\ fcb' = fcb /\ UNCHANGED size /\ MountedInv
      /\ fat' = Freed(fat, dir[s].starttrack) /\ dir' = [dir EXCEPT ![s].id = NONE] /\ OpenOn(n) = {}
  BY DEF Remove, Ready, Freed, Idle, FilesInv
<1>2. s \in Valid(dir) /\ dir[s].name = n
  BY FoundSlot DEF Remove
<1>3. /\ dir \in [Slots -> jddir] /\ fat \in FatType /\ TracksMirror(fat)
      /\ \A r \in Valid(dir) : dir[r].starttrack \in Tracks /\ fat[dir[r].starttrack].ancestor = NONE
  BY <1>1, Parts
<1>4. Valid(dir') = Valid(dir) \ {s} /\ \A r \in Valid(dir') : dir'[r] = dir[r]
  BY <1>1, <1>2, <1>3 DEF Valid, jddir, VALID, NONE
<1>5. \A u \in Tracks \ Chain(fat, dir[s].starttrack) : fat'[u] = fat[u]
  BY <1>1, <1>2, <1>3, FreedTable
<1>6. \A r \in Valid(dir') \ {s} : Untouched(r)
  <2>1. ASSUME NEW r \in Valid(dir') \ {s} PROVE Untouched(r)
    <3>1. r \in Valid(dir) /\ r # s /\ dir'[r] = dir[r]
      BY <1>4
    <3>2. /\ Chain(fat, dir[r].starttrack) \cap Chain(fat, dir[s].starttrack) = {}
          /\ Chain(fat, dir[r].starttrack) \subseteq Tracks
      BY <1>1, <1>2, <1>3, <3>1, DisjointFiles, ChainHere DEF MountedInv
    <3> QED BY <1>1, <1>5, <3>1, <3>2 DEF Untouched
  <2> QED BY <2>1
<1>7. Writers' = Writers /\ Busy' = Writers /\ Busy = Writers
  BY <1>1 DEF Writers, Busy
<1>8. \A k \in Writers : fcb[k].dir_index # s
  <2>1. ASSUME NEW k \in Writers PROVE fcb[k].dir_index # s
    <3>1. k \in Fds /\ fcb[k] # NULL /\ Anchored(fat, dir, fcb[k])
      BY <1>1, Parts DEF Writers
    <3>2. fcb[k].name # n
      BY <1>1, <3>1 DEF OpenOn, IsOpen
    <3> QED BY <1>2, <3>1, <3>2 DEF Anchored
  <2> QED BY <2>1
<1>9. OneWriterEach'
  BY <1>1, <1>7 DEF OneWriterEach, FilesInv
<1>10. {s} \in SUBSET Slots /\ {s} \cap Valid(dir') = {}
  BY <1>4
<1>11. /\ \A k \in Busy' : fcb'[k].dir_index \notin {s} => k \in Busy /\ fcb'[k] = fcb[k]
       /\ \A k \in Busy : fcb[k].dir_index \notin {s} => k \in Busy' /\ fcb'[k] = fcb[k]
       /\ \A k \in Busy' : fcb'[k].dir_index \in {s} => WriterStands(k)'
  BY <1>1, <1>7, <1>8
<1> QED BY <1>6, <1>9, <1>10, <1>11, FilesKept DEF FilesStep, Touches

\* A file that is renamed keeps its length and its tracks.
LEMMA FilesRenameAt ==
  ASSUME FilesInv, MountedInv', NEW old \in Names, NEW new \in Names, Rename(old, new),
         NEW s \in Slots, s = Least(find_file(dir, old))
  PROVE  FilesStep /\ Touches({})
<1>1. /\ call.op = "idle" /\ call'.op = "renameDir" /\ UNCHANGED <<fat, fcb, size>> /\ MountedInv
      /\ dir' = [dir EXCEPT ![s].name = new]
  BY DEF Rename, Ready, Idle, FilesInv
<1>2. dir \in [Slots -> jddir]
  BY <1>1, Parts
<1>3. \A r \in Slots : /\ dir'[r].id = dir[r].id /\ dir'[r].length = dir[r].length
                       /\ dir'[r].starttrack = dir[r].starttrack
  BY <1>1, <1>2 DEF jddir
<1>4. \A r \in Valid(dir') \ {} : Untouched(r)
  BY <1>1, <1>3 DEF Untouched, Valid
<1>5. Writers' = Writers /\ Busy' = Writers /\ Busy = Writers
  BY <1>1 DEF Writers, Busy
<1>6. OneWriterEach'
  BY <1>1, <1>5 DEF OneWriterEach, FilesInv
<1>7. {} \in SUBSET Slots
  OBVIOUS
<1>8. /\ \A k \in Busy' : fcb'[k].dir_index \notin {} => k \in Busy /\ fcb'[k] = fcb[k]
      /\ \A k \in Busy : fcb[k].dir_index \notin {} => k \in Busy' /\ fcb'[k] = fcb[k]
  BY <1>1, <1>5
<1> QED BY <1>4, <1>6, <1>7, <1>8, FilesKept DEF FilesStep, Touches

\* Opening a file that exists gives a handle that reads.
LEMMA FilesOpenExisting ==
  ASSUME FilesInv, MountedInv', PlainModes, NEW h \in Fds, NEW n \in Names, NEW flags \in OpenFlags,
         OpenExisting(h, n, flags)
  PROVE  FilesStep /\ Touches({})
<1>1. /\ call.op = "idle" /\ call' = call /\ fcb[h] = NULL /\ UNCHANGED <<fat, dir, size>>
      /\ flags = {"READ"}
  BY DEF OpenExisting, Ready, IsOpen, PlainModes
<1>2. PICK ok : fcb' = [fcb EXCEPT ![h] = OpenedFcb(n, flags, Least(find_file(dir, n)), ok)]
  BY DEF OpenExisting
<1> DEFINE g == OpenedFcb(n, flags, Least(find_file(dir, n)), ok)
<1>3. g.omode = "E4"
  BY <1>1 DEF OpenedFcb, Granted
<1> HIDE DEF g
<1>4. fcb'[h] = g
  BY <1>2 DEF FilesInv, MountedInv, SavedInv, TypeOK, g
<1>5. h \notin Writers /\ h \notin Writers'
  BY <1>1, <1>3, <1>4 DEF Writers
<1> QED BY <1>1, <1>2, <1>5, FilesReader

LEMMA FilesRead ==
  ASSUME FilesInv, MountedInv', ReadStep
  PROVE  FilesStep /\ Touches({})
<1>1. call.op = "read" /\ call.fd \in Fds \ Writers /\ UNCHANGED <<fat, dir, size>> /\ SavedInv
  BY DEF ReadStep, FilesInv, MountedInv, SavedInv, CallsPlain
<1>2. Writers' = Writers
  BY <1>1, ReadStepMode, WritersKept DEF SavedInv
<1>3. PICK g : fcb' = [fcb EXCEPT ![call.fd] = g]
  BY DEF ReadStep, ReadEnds
<1>4. call'.op \in {"idle", "read"}
  <2>1. PICK c, b : call' = Idle \/ call' = [call EXCEPT !.count = c, !.bp = b]
    BY DEF ReadStep, ReadEnds
  <2>2. call = [op |-> call.op, fd |-> call.fd, count |-> call.count, bp |-> call.bp]
    BY <1>1 DEF SavedInv, TypeOK
  <2>3. CASE call' = [call EXCEPT !.count = c, !.bp = b]
    <3>1. call' = [op |-> call.op, fd |-> call.fd, count |-> c, bp |-> b]
      BY <2>2, <2>3
    <3> QED BY <1>1, <3>1
  <2> QED BY <2>1, <2>3 DEF Idle
<1> QED BY <1>1, <1>2, <1>3, <1>4, FilesReader

\* The writes to the medium.
LEMMA FilesSave ==
  ASSUME FilesInv, MountedInv', CloseFat \/ RemoveFat \/ RemoveDir \/ RenameDir
  PROVE  FilesStep /\ Touches({})
<1>1. TypeOK
  BY DEF FilesInv, MountedInv, SavedInv
<1>2. CASE CloseFat \/ RemoveFat
  <2>1. /\ UNCHANGED <<fat, dir, size, fcb>> /\ call'.fd = call.fd
        /\ \/ call.op = "closeFat" /\ call'.op = "closeDir"
           \/ call.op = "removeFat" /\ call'.op = "removeDir"
    BY <1>1, <1>2 DEF CloseFat, RemoveFat, SaveFat, TypeOK
  <2> QED BY <2>1, FilesAlone
<1>3. CASE RemoveDir \/ RenameDir
  <2>1. /\ UNCHANGED <<fat, dir, size, fcb>> /\ call.op \in {"removeDir", "renameDir"}
        /\ call'.op = "idle"
    BY <1>3 DEF RemoveDir, RenameDir, SaveDir, Idle
  <2> QED BY <2>1, FilesAlone
<1> QED BY <1>2, <1>3

LEMMA FilesNext ==
  ASSUME FilesInv, [Next]_vars, PlainModes, "seek" \notin Calls, "powerfail" \notin Calls
  PROVE  FilesInv' /\ (LengthCovered /\ NeverFull => LengthCovered')
<1>1. MountedInv /\ MountedInv'
  BY MountedStep DEF FilesInv
<1> DEFINE Goal == FilesInv' /\ (LengthCovered /\ NeverFull => LengthCovered')
<1>2. FilesStep => Goal
  BY DEF FilesStep
<1> SUFFICES Goal
  BY DEF Goal
<1> HIDE DEF Goal
<1>3. CASE OpenCall
  BY <1>1, <1>2, <1>3, FilesOpenExisting, FilesOpenNew DEF OpenCall
<1>4. CASE WriteCall \/ ReadCall
  <2>1. /\ UNCHANGED <<fat, dir, size, fcb>> /\ call.op = "idle"
        /\ call'.op \in {"idle", "read", "write"}
    BY <1>4 DEF WriteCall, Write, ReadCall, Read, Ready, Begin
  <2> QED BY <1>1, <1>2, <2>1, FilesAlone
<1>5. ~SeekCall /\ ~PowerFail
  BY DEF SeekCall, Seek, Ready, PowerFail
<1>6. CASE CloseCall
  <2>1. PICK h \in Fds : CloseReader(h) \/ CloseWriter(h)
    BY <1>6 DEF CloseCall
  <2>2. CASE CloseReader(h)
    <3>1. /\ UNCHANGED <<fat, dir, size>> /\ fcb' = [fcb EXCEPT ![h] = NULL]
          /\ h \notin Writers /\ call.op = "idle" /\ call' = call
      BY <2>2 DEF CloseReader, Ready, Writers
    <3>2. Writers' = Writers \ {h}
      BY <1>1, <3>1, WritersLess DEF MountedInv, SavedInv
    <3> QED BY <1>1, <1>2, <3>1, <3>2, FilesReader
  <2>3. CASE CloseWriter(h)
    <3>1. h \in Writers
      BY <2>3 DEF CloseWriter, IsOpen, Writers
    <3>2. fcb[h].dir_index \in Slots
      BY <1>1, <3>1, Parts
    <3> QED BY <1>1, <2>3, <3>2, FilesClose DEF Goal
  <2> QED BY <2>1, <2>2, <2>3
<1>7. CASE RemoveCall
  <2>1. PICK n \in Names : Remove(n)
    BY <1>7 DEF RemoveCall
  <2>2. Least(find_file(dir, n)) \in Slots
    BY <2>1, FoundSlot DEF Remove
  <2> QED BY <1>1, <1>2, <2>1, <2>2, FilesRemoveAt
<1>8. CASE RenameCall
  <2>1. PICK old \in Names, new \in Names : Rename(old, new)
    BY <1>8 DEF RenameCall
  <2>2. Least(find_file(dir, old)) \in Slots
    BY <2>1, FoundSlot DEF Rename
  <2> QED BY <1>1, <1>2, <2>1, <2>2, FilesRenameAt
<1>9. CASE Remount
  <2>1. UNCHANGED <<fat, dir, fcb>>
    BY <1>1, <1>9, RemountQuiet DEF MountedInv
  <2>2. UNCHANGED <<size, call>> /\ call.op = "idle"
    BY <1>9 DEF Remount, Mount, Ready
  <2> QED BY <1>1, <1>2, <2>1, <2>2, FilesAlone
<1>10. CASE nkcfs_getfree \/ UNCHANGED vars
  <2>1. UNCHANGED <<fat, dir, size, fcb, call>>
    BY <1>10 DEF nkcfs_getfree, vars
  <2>2. Writers' = Writers /\ Busy' = Busy
    BY <2>1 DEF Writers, Busy
  <2> QED BY <1>1, <1>2, <2>1, <2>2, FilesQuiet
<1>11. CASE WriteStep \/ ReadStep
  BY <1>1, <1>2, <1>11, FilesWrite, FilesRead
<1>12. CASE CloseDir
  BY <1>1, <1>2, <1>12, FilesCloseDir
<1>13. CASE CloseFat \/ RemoveFat \/ RemoveDir \/ RenameDir
  BY <1>1, <1>2, <1>13, FilesSave
<1> QED
  BY <1>3, <1>4, <1>5, <1>6, <1>7, <1>8, <1>9, <1>10, <1>11, <1>12, <1>13 DEF Next, Client, Driver

LEMMA FilesInit == Init => FilesInv /\ LengthCovered
<1> SUFFICES ASSUME Init PROVE FilesInv /\ LengthCovered
  OBVIOUS
<1>1. \A h \in Fds : fcb[h] = NULL
  BY DEF Init
<1>2. Writers = {} /\ Busy = {}
  BY <1>1 DEF Writers, Busy
<1>3. Valid(dir) = {}
  BY DEF Init, Valid, FREE, VALID
<1> QED BY <1>2, <1>3, MountedInit DEF FilesInv, OneWriterEach, LengthCovered

\* Whatever is written, closed, removed, renamed and mounted again, the entry of
\* a file nobody has open for writing counts the clusters its bytes need: every
\* close leaves the length that the last flush made, not one more or less
\* (no call seeks, the medium takes every write).
THEOREM LengthsAreExact ==
  ASSUME PlainModes, "seek" \notin Calls, "powerfail" \notin Calls
  PROVE  Spec => []LengthExact
<1>1. FilesInv /\ [Next]_vars => FilesInv'
  BY FilesNext
<1>2. ASSUME FilesInv, NEW s \in Valid(dir), Settled(s) PROVE Exact(s)
  <2>1. \A h \in Writers : IsOpen(h) /\ h \in Fds /\ "WRIT" \in fcb[h].flags
    BY <1>2 DEF FilesInv, MountedInv, SavedInv, Writers, Plain, IsOpen
  <2>2. ~Unfinished(s)
    BY <1>2, <2>1 DEF Unfinished, Busy, Settled
  <2> QED BY <1>2, <2>2 DEF FilesInv
<1>3. FilesInv => LengthExact
  BY <1>2 DEF LengthExact, Exact
<1> QED BY <1>1, <1>3, FilesInit, PTL DEF Spec

\* As long as no handle that writes stands behind the last track of its file on
\* a full volume, where nkcfs_write goes on and counts clusters there is no room
\* for, the tracks of every file hold the clusters its entry counts.
THEOREM LengthsAreCovered ==
  ASSUME PlainModes, "seek" \notin Calls, "powerfail" \notin Calls
  PROVE  Spec /\ []NeverFull => []LengthCovered
<1>1. FilesInv /\ LengthCovered /\ NeverFull /\ [Next]_vars => (FilesInv /\ LengthCovered)'
  BY FilesNext
<1> QED BY <1>1, FilesInit, PTL DEF Spec

-----------------------------------------------------------------------------
(* The tracks of a chain, counted *)

\* What follows a track.
After(ft, u) == IF Linked(u) THEN ft[u].successor ELSE NONE

\* w counts the first n + 1 tracks from t on.
Counts(ft, t, n, w) == w = [k \in 0 .. n |-> IF k = 0 THEN t ELSE After(ft, w[k - 1])]

LEMMA CountsPoint ==
  ASSUME NEW ft, NEW t, NEW n \in Nat, NEW w, Counts(ft, t, n, w)
  PROVE  \A k \in 0 .. n : w[k] = IF k = 0 THEN t ELSE After(ft, w[k - 1])
<1> DEFINE e(k) == IF k = 0 THEN t ELSE After(ft, w[k - 1])
<1>1. w = [k \in 0 .. n |-> e(k)]
  BY DEF Counts
<1> HIDE DEF e
<1>2. \A k \in 0 .. n : w[k] = e(k)
  BY <1>1
<1> QED BY <1>2 DEF e

LEMMA CountsFurther ==
  ASSUME NEW ft, NEW t, NEW n \in Nat, NEW w, Counts(ft, t, n, w)
  PROVE  \E v : Counts(ft, t, n + 1, v)
<1> DEFINE v == [k \in 0 .. n + 1 |-> IF k = n + 1 THEN After(ft, w[n]) ELSE w[k]]
<1>1. \A k \in 0 .. n + 1 : v[k] = IF k = 0 THEN t ELSE After(ft, v[k - 1])
  <2>1. \A k \in 0 .. n : w[k] = IF k = 0 THEN t ELSE After(ft, w[k - 1])
    BY CountsPoint
  <2> HIDE DEF After
  <2> QED BY <2>1
<1>2. v = [k \in 0 .. n + 1 |-> v[k]]
  OBVIOUS
<1> HIDE DEF v
<1>3. v = [k \in 0 .. n + 1 |-> IF k = 0 THEN t ELSE After(ft, v[k - 1])]
  BY <1>1, <1>2
<1> QED BY <1>3 DEF Counts

\* A chain can be counted as far as one likes: were there a least length it
\* cannot be counted to, the count to the length before could be continued.
LEMMA CountsExist ==
  ASSUME NEW ft, NEW t, NEW n \in Nat
  PROVE  \E w : Counts(ft, t, n, w)
<1> DEFINE Bad == {k \in Nat : ~\E w : Counts(ft, t, k, w)}
<1> SUFFICES ASSUME Bad # {} PROVE FALSE
  OBVIOUS
<1> DEFINE b == Least(Bad)
<1>1. b \in Nat /\ ~\E w : Counts(ft, t, b, w)
  BY LeastFirst
<1>2. \A k \in Bad : b <= k
  BY LeastFirst
<1>3. b # 0
  <2> DEFINE z == [k \in 0 .. 0 |-> IF k = 0 THEN t ELSE After(ft, t)]
  <2>1. Counts(ft, t, 0, z)
    <3>1. \A k \in 0 .. 0 : (IF k = 0 THEN t ELSE After(ft, t)) = (IF k = 0 THEN t ELSE After(ft, z[k - 1]))
      OBVIOUS
    <3> QED BY <3>1 DEF Counts
  <2> QED BY <1>1, <2>1
<1> HIDE DEF b
<1>4. b - 1 \in Nat /\ b - 1 \notin Bad /\ (b - 1) + 1 = b
  <2> HIDE DEF Bad
  <2> QED BY <1>1, <1>2, <1>3
<1>5. PICK w : Counts(ft, t, b - 1, w)
  BY <1>4
<1> QED BY <1>1, <1>4, <1>5, CountsFurther

\* The recursive definition of KthTrack has the solution it asks for.
LEMMA KthTrackPoint ==
  ASSUME NEW ft, NEW t
  PROVE  \A k \in 0 .. FAT_ENTRIES :
           KthTrack(ft, t)[k] = IF k = 0 THEN t ELSE After(ft, KthTrack(ft, t)[k - 1])
<1>1. FAT_ENTRIES \in Nat
  BY Geometry
<1>2. KthTrack(ft, t) = CHOOSE w : Counts(ft, t, FAT_ENTRIES, w)
  BY DEF KthTrack, Counts, After
<1>3. Counts(ft, t, FAT_ENTRIES, KthTrack(ft, t))
  BY <1>1, <1>2, CountsExist
<1> QED BY <1>1, <1>3, CountsPoint

\* A walk stays on the chain: were there a first track that is not on it, the
\* track before would be, and the chain is closed.
LEMMA KthOnChain ==
  ASSUME NEW ft, NEW t \in Tracks, NEW k \in 0 .. FAT_ENTRIES, Linked(KthTrack(ft, t)[k])
  PROVE  KthTrack(ft, t)[k] \in Chain(ft, t)
<1> DEFINE p == KthTrack(ft, t)
           Off == {j \in 0 .. FAT_ENTRIES : Linked(p[j]) /\ p[j] \notin Chain(ft, t)}
<1>1. p[0] = t /\ \A j \in 0 .. FAT_ENTRIES : j # 0 => p[j] = After(ft, p[j - 1])
  BY KthTrackPoint, Geometry
<1> HIDE DEF p
<1> SUFFICES ASSUME Off # {} PROVE FALSE
  BY DEF p
<1> DEFINE j == Least(Off)
<1>2. Off \in SUBSET Nat
  BY Geometry
<1>3. j \in Off /\ \A i \in Off : j <= i
  BY <1>2, LeastFirst
<1> HIDE DEF j
<1>4. /\ j \in 0 .. FAT_ENTRIES /\ Linked(p[j]) /\ p[j] \notin Chain(ft, t)
  BY <1>3
<1>5. j # 0
  BY <1>1, <1>4, ChainHere
<1>6. j - 1 \in 0 .. FAT_ENTRIES /\ ~(j <= j - 1)
  BY <1>4, <1>5, Geometry
<1>7. j - 1 \notin Off
  BY <1>3, <1>6
<1>8. p[j] = After(ft, p[j - 1])
  BY <1>1, <1>4, <1>5
<1>9. Linked(p[j - 1]) /\ p[j] = ft[p[j - 1]].successor
  BY <1>4, <1>8, Geometry DEF After, Linked
<1>10. p[j - 1] \in Chain(ft, t)
  BY <1>6, <1>7, <1>9
<1> QED BY <1>4, <1>9, <1>10, ChainClosed DEF Linked

\* A walk is the same on tables that agree on its chain.
LEMMA KthSame ==
  ASSUME NEW ft, NEW gt, NEW t \in Tracks, \A v \in Chain(ft, t) : gt[v] = ft[v],
         NEW k \in 0 .. FAT_ENTRIES
  PROVE  KthTrack(gt, t)[k] = KthTrack(ft, t)[k]
<1> DEFINE p == KthTrack(ft, t)
           q == KthTrack(gt, t)
           Off == {j \in 0 .. FAT_ENTRIES : q[j] # p[j]}
<1>1. /\ p[0] = t /\ \A j \in 0 .. FAT_ENTRIES : j # 0 => p[j] = After(ft, p[j - 1])
      /\ q[0] = t /\ \A j \in 0 .. FAT_ENTRIES : j # 0 => q[j] = After(gt, q[j - 1])
  BY KthTrackPoint, Geometry
<1>2. \A j \in 0 .. FAT_ENTRIES : Linked(p[j]) => p[j] \in Chain(ft, t)
  BY KthOnChain
<1> HIDE DEF p, q
<1> SUFFICES ASSUME Off # {} PROVE FALSE
  BY DEF p, q
<1> DEFINE j == Least(Off)
<1>3. Off \in SUBSET Nat
  BY Geometry
<1>4. j \in Off /\ \A i \in Off : j <= i
  BY <1>3, LeastFirst
<1> HIDE DEF j
<1>5. j \in 0 .. FAT_ENTRIES /\ q[j] # p[j]
  BY <1>4
<1>6. j # 0
  BY <1>1, <1>5
<1>7. j - 1 \in 0 .. FAT_ENTRIES /\ ~(j <= j - 1)
  BY <1>5, <1>6, Geometry
<1>8. q[j - 1] = p[j - 1]
  BY <1>4, <1>7
<1>9. p[j] = After(ft, p[j - 1]) /\ q[j] = After(gt, p[j - 1])
  BY <1>1, <1>5, <1>6, <1>8
<1>10. Linked(p[j - 1]) => gt[p[j - 1]] = ft[p[j - 1]]
  BY <1>2, <1>7
<1> QED BY <1>5, <1>9, <1>10 DEF After

\* A track appended to the last of m tracks is the one counted m, and the
\* others keep their place.
LEMMA KthGrown ==
  ASSUME NEW ft \in FatType, TracksMirror(ft), NEW c \in Tracks, NEW i \in Tracks,
         ft[c].successor \notin Tracks, ft[c].successor # FREE, ft[i].successor = FREE,
         NEW t \in Tracks, ft[t].ancestor = NONE, NEW m \in 1 .. FAT_ENTRIES,
         \A k \in 0 .. m - 1 : Linked(KthTrack(ft, t)[k]), KthTrack(ft, t)[m - 1] = c
  PROVE  /\ \A k \in 0 .. m - 1 : KthTrack(Grown(ft, c, i), t)[k] = KthTrack(ft, t)[k]
         /\ KthTrack(Grown(ft, c, i), t)[m] = i
<1> DEFINE gt == Grown(ft, c, i)
           p == KthTrack(ft, t)
           q == KthTrack(gt, t)
           Off == {j \in 0 .. m - 1 : q[j] # p[j]}
<1>1. /\ p[0] = t /\ \A j \in 0 .. FAT_ENTRIES : j # 0 => p[j] = After(ft, p[j - 1])
      /\ q[0] = t /\ \A j \in 0 .. FAT_ENTRIES : j # 0 => q[j] = After(gt, q[j - 1])
  BY KthTrackPoint, Geometry
<1>2. \A j \in 0 .. m - 1 : Linked(p[j]) /\ p[j] # i
  <2>1. ASSUME NEW j \in 0 .. m - 1 PROVE p[j] # i
    <3>1. j \in 0 .. FAT_ENTRIES /\ Linked(p[j])
      BY Geometry
    <3>2. p[j] \in Chain(ft, t)
      BY <3>1, KthOnChain
    <3> HIDE DEF p
    <3> QED BY <3>2, ChainAllocated
  <2> QED BY <2>1
<1>3. /\ gt[c].successor = i
      /\ \A v \in Tracks : v # c /\ v # i => gt[v] = ft[v]
  BY GrownTable
<1>4. p[m - 1] = c
  OBVIOUS
<1> HIDE DEF p, q, gt
<1>5. \A j \in 0 .. m - 1 : j # m - 1 => p[j] # c
  <2>1. ASSUME NEW j \in 0 .. m - 1, j # m - 1, p[j] = c PROVE FALSE
    <3>1. j + 1 \in 0 .. m - 1 /\ j + 1 \in 0 .. FAT_ENTRIES /\ j + 1 # 0 /\ (j + 1) - 1 = j
      BY <2>1, Geometry
    <3>2. p[j + 1] = After(ft, c) /\ Linked(p[j + 1])
      BY <1>1, <1>2, <2>1, <3>1
    <3> QED BY <3>2, Geometry DEF After, Linked
  <2> QED BY <2>1
<1>6. ASSUME Off # {} PROVE FALSE
  <2> DEFINE j == Least(Off)
  <2>1. Off \in SUBSET Nat
    BY Geometry
  <2>2. j \in Off /\ \A x \in Off : j <= x
    BY <1>6, <2>1, LeastFirst
  <2> HIDE DEF j
  <2>3. j \in 0 .. m - 1 /\ q[j] # p[j]
    BY <2>2
  <2>4. j # 0
    BY <1>1, <2>3
  <2>5. j - 1 \in 0 .. m - 1 /\ ~(j <= j - 1) /\ j - 1 # m - 1 /\ j \in 0 .. FAT_ENTRIES
    BY <2>3, <2>4, Geometry
  <2>6. q[j - 1] = p[j - 1]
    BY <2>2, <2>5
  <2>7. p[j] = After(ft, p[j - 1]) /\ q[j] = After(gt, p[j - 1])
    BY <1>1, <2>4, <2>5, <2>6
  <2>8. gt[p[j - 1]] = ft[p[j - 1]]
    BY <1>2, <1>3, <1>5, <2>5 DEF Linked
  <2> QED BY <2>3, <2>7, <2>8 DEF After
<1>7. \A k \in 0 .. m - 1 : q[k] = p[k]
  BY <1>6
<1>8. q[m] = i
  <2>1. m - 1 \in 0 .. m - 1 /\ m \in 0 .. FAT_ENTRIES /\ m # 0
    BY Geometry
  <2>2. q[m - 1] = c
    BY <1>4, <1>7, <2>1
  <2>3. q[m] = After(gt, c)
    BY <1>1, <2>1, <2>2
  <2> QED BY <1>3, <2>3 DEF After, Linked
<1> QED BY <1>7, <1>8 DEF p, q, gt

-----------------------------------------------------------------------------
(* Where the clusters of a file are *)

LEMMA Division ==
  ASSUME NEW k \in Nat, NEW d \in Nat \ {0}
  PROVE  /\ k \div d \in Nat /\ k % d \in 0 .. d - 1
         /\ k = ((k \div d) * d) + (k % d)
OBVIOUS

LEMMA Remainder ==
  ASSUME NEW q \in Nat, NEW d \in Nat \ {0}, NEW r \in 0 .. d - 1
  PROVE  ((q * d) + r) \div d = q /\ ((q * d) + r) % d = r
OBVIOUS

\* Cluster c of track t, by its number on the medium.
Cell(t, c) == (t * TRACK_SIZE) + c

LEMMA CellOnMedium ==
  ASSUME NEW t \in Tracks, NEW c \in 0 .. TRACK_SIZE - 1
  PROVE  Cell(t, c) \in Addrs
<1>1. /\ t \in Nat /\ t + 1 <= FAT_ENTRIES /\ FAT_ENTRIES \in Nat
      /\ TRACK_SIZE \in Nat /\ TRACK_SIZE > 0
  BY Geometry DEF Tracks
<1>2. (t + 1) * TRACK_SIZE <= FAT_ENTRIES * TRACK_SIZE
  BY <1>1
<1>3. (t + 1) * TRACK_SIZE = (t * TRACK_SIZE) + TRACK_SIZE
  BY <1>1
<1>4. t * TRACK_SIZE \in Nat /\ FAT_ENTRIES * TRACK_SIZE \in Nat
  BY <1>1
<1> QED BY <1>1, <1>2, <1>3, <1>4 DEF Cell, Addrs

LEMMA CellsDiffer ==
  ASSUME NEW t \in Tracks, NEW c \in 0 .. TRACK_SIZE - 1,
         NEW u \in Tracks, NEW d \in 0 .. TRACK_SIZE - 1, Cell(t, c) = Cell(u, d)
  PROVE  t = u /\ c = d
<1>1. t \in Nat /\ u \in Nat /\ TRACK_SIZE \in Nat \ {0}
  BY Geometry DEF Tracks
<1>2. Cell(t, c) \div TRACK_SIZE = t /\ Cell(t, c) % TRACK_SIZE = c
  BY <1>1, Remainder DEF Cell
<1>3. Cell(u, d) \div TRACK_SIZE = u /\ Cell(u, d) % TRACK_SIZE = d
  BY <1>1, Remainder DEF Cell
<1> QED BY <1>2, <1>3

\* A chain has no more tracks than the volume.
LEMMA ChainBound ==
  ASSUME NEW ft, NEW t \in Tracks
  PROVE  Cardinality(Chain(ft, t)) \in 1 .. FAT_ENTRIES - 1
<1>1. FAT_ENTRIES \in Nat /\ FAT_ENTRIES - 1 \in Nat /\ FAT_ENTRIES >= 2
  BY GeometryAssumption
<1>2. IsFiniteSet(Tracks) /\ Cardinality(Tracks) = FAT_ENTRIES - 1
  <2>1. IsFiniteSet(1 .. FAT_ENTRIES - 1)
        /\ Cardinality(1 .. FAT_ENTRIES - 1) = IF 1 > FAT_ENTRIES - 1 THEN 0 ELSE (FAT_ENTRIES - 1) - 1 + 1
    BY <1>1, FS_Interval
  <2> QED BY <1>1, <2>1 DEF Tracks
<1>3. Cardinality(Chain(ft, t)) <= Cardinality(Tracks)
  BY <1>2, ChainHere, FS_Subset
<1> QED BY <1>1, <1>2, <1>3, ChainFinite, ChainNotEmpty

\* Where cluster k of a file is whose tracks p counts.
Place(p, k) == Cell(p[k \div TRACK_SIZE], k % TRACK_SIZE)

\* Its first n clusters are on its tracks and hold what was written to it.
HoldsIn(p, dt, s, n) ==
  \A k \in 0 .. n - 1 :
    /\ k \div TRACK_SIZE \in 0 .. FAT_ENTRIES
    /\ Linked(p[k \div TRACK_SIZE])
    /\ dt[Place(p, k)] = <<s, k>>

\* All tracks of the chain are counted, and c is the last.
Counted(ft, t, c) ==
  LET p == KthTrack(ft, t)
      m == Cardinality(Chain(ft, t))
  IN (\A k \in 0 .. m - 1 : Linked(p[k])) /\ p[m - 1] = c

\* What a file holds it holds as long as its tracks and their clusters stay.
LEMMA HoldsSame ==
  ASSUME NEW ft, NEW gt, NEW t \in Tracks, \A v \in Chain(ft, t) : gt[v] = ft[v],
         NEW dt, NEW et,
         \A v \in Chain(ft, t), c \in 0 .. TRACK_SIZE - 1 : et[Cell(v, c)] = dt[Cell(v, c)],
         NEW s, NEW n \in Nat, HoldsIn(KthTrack(ft, t), dt, s, n)
  PROVE  HoldsIn(KthTrack(gt, t), et, s, n)
<1> DEFINE p == KthTrack(ft, t)
           q == KthTrack(gt, t)
<1>1. ASSUME NEW k \in 0 .. n - 1
      PROVE  /\ k \div TRACK_SIZE \in 0 .. FAT_ENTRIES
             /\ Linked(q[k \div TRACK_SIZE])
             /\ et[Place(q, k)] = <<s, k>>
  <2> DEFINE j == k \div TRACK_SIZE
             r == k % TRACK_SIZE
  <2>1. j \in 0 .. FAT_ENTRIES /\ Linked(p[j]) /\ dt[Place(p, k)] = <<s, k>>
    BY DEF HoldsIn
  <2>2. r \in 0 .. TRACK_SIZE - 1
    BY Division, Geometry
  <2> HIDE DEF j, r
  <2>3. q[j] = p[j]
    BY <2>1, KthSame
  <2>4. p[j] \in Chain(ft, t)
    BY <2>1, KthOnChain
  <2> HIDE DEF p, q
  <2>5. et[Cell(p[j], r)] = dt[Cell(p[j], r)]
    BY <2>2, <2>4
  <2> QED BY <2>1, <2>3, <2>5 DEF Place, j, r
<1> HIDE DEF q
<1> QED BY <1>1 DEF HoldsIn, q

LEMMA CountedSame ==
  ASSUME NEW ft, NEW gt, NEW t \in Tracks, \A v \in Chain(ft, t) : gt[v] = ft[v],
         NEW c, Counted(ft, t, c)
  PROVE  Counted(gt, t, c)
<1> DEFINE m == Cardinality(Chain(ft, t))
           p == KthTrack(ft, t)
           q == KthTrack(gt, t)
<1>1. Chain(gt, t) = Chain(ft, t)
  BY ChainSame
<1>2. m \in 1 .. FAT_ENTRIES - 1
  BY ChainBound
<1>3. \A k \in 0 .. m - 1 : k \in 0 .. FAT_ENTRIES
  BY <1>2, Geometry
<1>4. \A k \in 0 .. m - 1 : q[k] = p[k]
  BY <1>3, KthSame
<1>5. m - 1 \in 0 .. m - 1
  BY <1>2
<1>6. (\A k \in 0 .. m - 1 : Linked(p[k])) /\ p[m - 1] = c
  BY DEF Counted
<1>7. Counted(gt, t, c) <=> (\A k \in 0 .. m - 1 : Linked(q[k])) /\ q[m - 1] = c
  BY <1>1 DEF Counted
<1> HIDE DEF m, p, q
<1> QED BY <1>4, <1>5, <1>6, <1>7

\* Only the last index counts the last track.
LEMMA CountedLast ==
  ASSUME NEW ft, NEW t \in Tracks, NEW c, Counted(ft, t, c), ft[c].successor = NONE,
         NEW k \in 0 .. Cardinality(Chain(ft, t)) - 1, KthTrack(ft, t)[k] = c
  PROVE  k = Cardinality(Chain(ft, t)) - 1
<1> DEFINE m == Cardinality(Chain(ft, t))
           p == KthTrack(ft, t)
<1>1. m \in 1 .. FAT_ENTRIES - 1
  BY ChainBound
<1>2. (\A j \in 0 .. m - 1 : Linked(p[j])) /\ p[k] = c
  BY DEF Counted
<1>3. \A j \in 0 .. FAT_ENTRIES : j # 0 => p[j] = After(ft, p[j - 1])
  BY KthTrackPoint, Geometry
<1>4. k \in 0 .. m - 1
  OBVIOUS
<1> HIDE DEF p, m
<1>5. ASSUME k # m - 1 PROVE FALSE
  <2>1. k + 1 \in 0 .. m - 1 /\ k + 1 \in 0 .. FAT_ENTRIES /\ k + 1 # 0 /\ (k + 1) - 1 = k
    BY <1>1, <1>4, <1>5, Geometry
  <2>2. p[k + 1] = After(ft, c) /\ Linked(p[k + 1])
    BY <1>2, <1>3, <2>1
  <2> QED BY <2>2, Geometry DEF After, Linked
<1> QED BY <1>5 DEF m

\* Cluster n of a file of m tracks is in place c of the last track, or in the
\* first place of the next one, and those before it are on the m tracks.
Indexed(n, m, c) ==
  /\ c < TRACK_SIZE => n \div TRACK_SIZE = m - 1 /\ n % TRACK_SIZE = c
  /\ c = TRACK_SIZE => n \div TRACK_SIZE = m /\ n % TRACK_SIZE = 0
  /\ \A k \in 0 .. n - 1 : k \div TRACK_SIZE \in 0 .. m - 1

\* The number of the cluster a handle writes next.
LEMMA StandsIndex ==
  ASSUME NEW f \in jdfcb, NEW m \in Nat \ {0}, Stands(f, m)
  PROVE  f.length - 1 \in Nat /\ Indexed(f.length - 1, m, f.curcluster)
<1> DEFINE n == f.length - 1
           x == m - 1
           c == f.curcluster
<1>1. /\ n \in Nat /\ x \in Nat /\ c \in 0 .. TRACK_SIZE
      /\ TRACK_SIZE \in Nat /\ TRACK_SIZE > 0 /\ m = x + 1
  BY FcbFields, Geometry DEF Stands
<1>2. n = (x * TRACK_SIZE) + c
  <2>1. f.length + TRACK_SIZE = (TRACK_SIZE * m) + c + 1
    BY DEF Stands
  <2>2. TRACK_SIZE * m = (x * TRACK_SIZE) + TRACK_SIZE /\ x * TRACK_SIZE \in Nat
    BY <1>1
  <2>3. f.length = n + 1
    BY FcbFields
  <2> HIDE DEF n, x, c
  <2> QED BY <1>1, <2>1, <2>2, <2>3
<1> HIDE DEF n, x, c
<1>3. c < TRACK_SIZE => n \div TRACK_SIZE = m - 1 /\ n % TRACK_SIZE = c
  <2>1. c < TRACK_SIZE => n \div TRACK_SIZE = x /\ n % TRACK_SIZE = c
    BY <1>1, <1>2, Remainder
  <2> QED BY <1>1, <2>1
<1>4. c = TRACK_SIZE => n \div TRACK_SIZE = m /\ n % TRACK_SIZE = 0
  <2>1. c = TRACK_SIZE => n = (m * TRACK_SIZE) + 0
    BY <1>1, <1>2
  <2> QED BY <1>1, <2>1, Remainder
<1>5. ASSUME NEW k \in 0 .. n - 1
      PROVE  k \div TRACK_SIZE \in 0 .. m - 1
  <2> DEFINE j == k \div TRACK_SIZE
             r == k % TRACK_SIZE
  <2>0. k \in Nat /\ TRACK_SIZE \in Nat \ {0}
    BY <1>1, <1>5
  <2>1. k \in Nat /\ j \in Nat /\ r \in 0 .. TRACK_SIZE - 1 /\ k = (j * TRACK_SIZE) + r
    BY <2>0, Division
  <2> HIDE DEF j, r
  <2>2. ASSUME j > x PROVE FALSE
    <3>1. j >= x + 1
      BY <1>1, <2>1, <2>2
    <3>2. j * TRACK_SIZE >= (x + 1) * TRACK_SIZE
      BY <1>1, <2>1, <3>1
    <3>3. (x + 1) * TRACK_SIZE = (x * TRACK_SIZE) + TRACK_SIZE /\ x * TRACK_SIZE \in Nat
          /\ j * TRACK_SIZE \in Nat
      BY <1>1, <2>1
    <3> QED BY <1>1, <1>2, <1>5, <2>1, <3>2, <3>3
  <2> QED BY <1>1, <2>1, <2>2 DEF j
<1> QED BY <1>1, <1>3, <1>4, <1>5 DEF n, x, c, Indexed

\* The next cluster goes where nothing of the file is.
LEMMA StoreHolds ==
  ASSUME NEW p, NEW q, NEW dt, NEW et, NEW s, NEW n \in Nat, HoldsIn(p, dt, s, n),
         n \div TRACK_SIZE \in 0 .. FAT_ENTRIES, Linked(q[n \div TRACK_SIZE]),
         \A k \in 0 .. n - 1 : /\ q[k \div TRACK_SIZE] = p[k \div TRACK_SIZE]
                               /\ Place(q, k) # Place(q, n),
         et = [a \in Addrs |-> IF a \in {Place(q, n)} THEN <<s, n>> ELSE dt[a]]
  PROVE  HoldsIn(q, et, s, n + 1)
<1>1. ASSUME NEW k \in Nat, k \div TRACK_SIZE \in 0 .. FAT_ENTRIES, Linked(q[k \div TRACK_SIZE])
      PROVE  Place(q, k) \in Addrs
  <2>1. k % TRACK_SIZE \in 0 .. TRACK_SIZE - 1
    BY Division, Geometry
  <2> QED BY <1>1, <2>1, CellOnMedium DEF Place, Linked
<1>2. ASSUME NEW k \in 0 .. n
      PROVE  /\ k \div TRACK_SIZE \in 0 .. FAT_ENTRIES
             /\ Linked(q[k \div TRACK_SIZE])
             /\ et[Place(q, k)] = <<s, k>>
  <2>1. CASE k = n
    <3>1. Place(q, n) \in Addrs
      BY <1>1
    <3> QED BY <2>1, <3>1
  <2>2. CASE k # n
    <3>1. k \in 0 .. n - 1
      BY <2>2
    <3>2. /\ k \div TRACK_SIZE \in 0 .. FAT_ENTRIES /\ Linked(p[k \div TRACK_SIZE])
          /\ dt[Place(p, k)] = <<s, k>>
      BY <3>1 DEF HoldsIn
    <3>3. Place(q, k) = Place(p, k) /\ q[k \div TRACK_SIZE] = p[k \div TRACK_SIZE]
      BY <3>1 DEF Place
    <3>4. Place(q, k) \in Addrs /\ Place(q, k) # Place(q, n)
      BY <1>1, <3>1, <3>2, <3>3
    <3> QED BY <3>2, <3>3, <3>4
  <2> QED BY <2>1, <2>2
<1>3. \A k \in 0 .. (n + 1) - 1 : k \in 0 .. n
  OBVIOUS
<1> QED BY <1>2, <1>3 DEF HoldsIn

\* What write_cluster stores is the next cluster of the file, on its last track
\* or on a free one it appends, where nothing of it is yet.
LEMMA EnterHolds ==
  ASSUME NEW ft \in FatType, TracksMirror(ft), NEW t \in Tracks, ft[t].ancestor = NONE,
         NEW f \in jdfcb, f.curtrack \in Chain(ft, t), ft[f.curtrack].successor = NONE,
         f.curcluster \in 0 .. TRACK_SIZE, f.curcluster < TRACK_SIZE \/ FreeTracks(ft) # {},
         Counted(ft, t, f.curtrack),
         NEW n \in Nat, Indexed(n, Cardinality(Chain(ft, t)), f.curcluster),
         NEW dt, NEW s, HoldsIn(KthTrack(ft, t), dt, s, n),
         NEW e, e = EnterTrack(ft, f),
         NEW et, et = [a \in Addrs |-> IF a \in {Address(e.fcb)} THEN <<s, n>> ELSE dt[a]]
  PROVE  /\ e.res = "ok"
         /\ e.fcb.curtrack \in Tracks /\ e.fcb.curcluster \in 0 .. TRACK_SIZE - 1
         /\ e.fcb.curtrack = f.curtrack \/ ft[e.fcb.curtrack].successor = FREE
         /\ Counted(e.fat, t, e.fcb.curtrack)
         /\ HoldsIn(KthTrack(e.fat, t), et, s, n + 1)
<1> DEFINE c == f.curtrack
           m == Cardinality(Chain(ft, t))
           p == KthTrack(ft, t)
           q == KthTrack(e.fat, t)
           Goal == /\ e.res = "ok"
                   /\ e.fcb.curtrack \in Tracks /\ e.fcb.curcluster \in 0 .. TRACK_SIZE - 1
                   /\ e.fcb.curtrack = c \/ ft[e.fcb.curtrack].successor = FREE
                   /\ Counted(e.fat, t, e.fcb.curtrack)
                   /\ HoldsIn(KthTrack(e.fat, t), et, s, n + 1)
<1> SUFFICES Goal
  OBVIOUS
<1>1. /\ m \in 1 .. FAT_ENTRIES - 1 /\ FAT_ENTRIES \in Nat
      /\ c \in Tracks /\ TRACK_SIZE \in Nat /\ TRACK_SIZE > 0
  BY ChainBound, Geometry, FcbFields
<1>2. /\ \A k \in 0 .. m - 1 : Linked(p[k])
      /\ p[m - 1] = c
  BY DEF Counted
<1>3. \A k \in 0 .. m - 1 : p[k] \in Chain(ft, t)
  <2>1. \A k \in 0 .. m - 1 : k \in 0 .. FAT_ENTRIES
    BY <1>1
  <2> QED BY <1>2, <2>1, KthOnChain
<1>4. \A k \in 0 .. m - 1 : p[k] = c => k = m - 1
  BY CountedLast
<1>5. \A k \in 0 .. n - 1 : k \in Nat /\ k \div TRACK_SIZE \in 0 .. m - 1
                            /\ k % TRACK_SIZE \in 0 .. TRACK_SIZE - 1
                            /\ k = ((k \div TRACK_SIZE) * TRACK_SIZE) + (k % TRACK_SIZE)
  <2>1. \A k \in 0 .. n - 1 : k \in Nat /\ k \div TRACK_SIZE \in 0 .. m - 1
    BY DEF Indexed
  <2>2. TRACK_SIZE \in Nat \ {0}
    BY <1>1
  <2> QED BY <2>1, <2>2, Division
<1>6. \A g \in jdfcb : Address(g) = Cell(g.curtrack, g.curcluster)
  BY DEF Address, Cell
<1>7. e.fcb \in jdfcb
  BY EnterTyped
<1>8. CASE e.res = "ok" /\ e.fat = ft /\ e.fcb = f /\ f.curcluster < TRACK_SIZE
  <2>1. n \div TRACK_SIZE = m - 1 /\ n % TRACK_SIZE = f.curcluster
    BY <1>8 DEF Indexed
  <2>2. Place(p, n) = Cell(c, f.curcluster) /\ Address(e.fcb) = Place(p, n)
    BY <1>2, <1>6, <1>8, <2>1 DEF Place
  <2>3. m - 1 \in 0 .. m - 1 /\ m - 1 \in 0 .. FAT_ENTRIES /\ f.curcluster \in 0 .. TRACK_SIZE - 1
    BY <1>1, <1>8
  <2>4. ASSUME NEW k \in 0 .. n - 1 PROVE Place(p, k) # Place(p, n)
    <3> DEFINE j == k \div TRACK_SIZE
               r == k % TRACK_SIZE
    <3>1. j \in 0 .. m - 1 /\ r \in 0 .. TRACK_SIZE - 1 /\ k = (j * TRACK_SIZE) + r
      BY <1>5
    <3>2. p[j] \in Tracks
      BY <1>2, <3>1 DEF Linked
    <3>3. ASSUME Place(p, k) = Place(p, n) PROVE FALSE
      <4>1. p[j] = c /\ r = f.curcluster
        <5>1. Cell(p[j], r) = Cell(c, f.curcluster)
          BY <2>2, <3>3 DEF Place
        <5> HIDE DEF p, j, r, c
        <5> QED BY <1>1, <2>3, <3>1, <3>2, <5>1, CellsDiffer
      <4>2. j = m - 1
        BY <1>4, <3>1, <4>1
      <4>3. k = ((n \div TRACK_SIZE) * TRACK_SIZE) + (n % TRACK_SIZE)
        BY <2>1, <3>1, <4>1, <4>2
      <4>4. n = ((n \div TRACK_SIZE) * TRACK_SIZE) + (n % TRACK_SIZE)
        <5>1. TRACK_SIZE \in Nat \ {0}
          BY <1>1
        <5> QED BY <5>1, Division
      <4>5. k = n
        BY <4>3, <4>4
      <4> QED BY <4>5
    <3> QED BY <3>3
  <2>5. HoldsIn(p, et, s, n + 1)
    <3>1. n \div TRACK_SIZE \in 0 .. FAT_ENTRIES /\ Linked(p[n \div TRACK_SIZE])
      BY <1>2, <2>1, <2>3
    <3>2. et = [a \in Addrs |-> IF a \in {Place(p, n)} THEN <<s, n>> ELSE dt[a]]
      BY <2>2
    <3>3. HoldsIn(p, dt, s, n)
      OBVIOUS
    <3> HIDE DEF p
    <3> QED BY <2>4, <3>1, <3>2, <3>3, StoreHolds
  <2> HIDE DEF p
  <2> QED BY <1>1, <1>8, <2>3, <2>5 DEF p
<1>9. CASE e.res = "full" /\ FreeTracks(ft) = {} /\ f.curcluster = TRACK_SIZE
  BY <1>1, <1>9
<1>10. ASSUME e.res = "ok", f.curcluster = TRACK_SIZE, NEW i \in Tracks, ft[i].successor = FREE,
              e.fat = Grown(ft, c, i), e.fcb.curtrack = i, e.fcb.curcluster = 0
       PROVE  Goal
  <2>1. n \div TRACK_SIZE = m /\ n % TRACK_SIZE = 0
    BY <1>10 DEF Indexed
  <2>2. (\A k \in 0 .. m - 1 : q[k] = p[k]) /\ q[m] = i
    <3>1. m \in 1 .. FAT_ENTRIES /\ ft[c].successor \notin Tracks /\ ft[c].successor # FREE
      BY <1>1, Geometry
    <3> QED BY <1>1, <1>2, <1>10, <3>1, KthGrown
  <2>3. Cardinality(Chain(e.fat, t)) = m + 1
    <3>1. ft[c].successor \notin Tracks /\ ft[c].successor # FREE
      BY Geometry
    <3> QED BY <1>1, <1>10, <3>1, ChainGrown
  <2>4. Place(q, n) = Cell(i, 0) /\ Address(e.fcb) = Place(q, n)
    BY <1>6, <1>7, <1>10, <2>1, <2>2 DEF Place
  <2>5. 0 \in 0 .. TRACK_SIZE - 1 /\ m \in 0 .. FAT_ENTRIES
    BY <1>1
  <2>6. \A k \in 0 .. m - 1 : p[k] # i
    BY <1>3, <1>10, ChainAllocated
  <2>7. ASSUME NEW k \in 0 .. n - 1
        PROVE  q[k \div TRACK_SIZE] = p[k \div TRACK_SIZE] /\ Place(q, k) # Place(q, n)
    <3> DEFINE j == k \div TRACK_SIZE
               r == k % TRACK_SIZE
    <3>1. j \in 0 .. m - 1 /\ r \in 0 .. TRACK_SIZE - 1
      BY <1>5
    <3>2. q[j] = p[j] /\ q[j] \in Tracks /\ q[j] # i
      BY <1>2, <2>2, <2>6, <3>1 DEF Linked
    <3>3. ASSUME Place(q, k) = Place(q, n) PROVE FALSE
      <4>1. Cell(q[j], r) = Cell(i, 0)
        BY <2>4, <3>3 DEF Place
      <4> HIDE DEF q, j, r
      <4> QED BY <1>10, <2>5, <3>1, <3>2, <4>1, CellsDiffer
    <3> QED BY <3>2, <3>3
  <2>8. HoldsIn(q, et, s, n + 1)
    <3>1. n \div TRACK_SIZE \in 0 .. FAT_ENTRIES /\ Linked(q[n \div TRACK_SIZE])
      BY <1>10, <2>1, <2>2, <2>5 DEF Linked
    <3>2. et = [a \in Addrs |-> IF a \in {Place(q, n)} THEN <<s, n>> ELSE dt[a]]
      BY <2>4
    <3>3. HoldsIn(p, dt, s, n)
      OBVIOUS
    <3> HIDE DEF p, q
    <3> QED BY <2>7, <3>1, <3>2, <3>3, StoreHolds
  <2>9. Counted(e.fat, t, i)
    <3> DEFINE l == Cardinality(Chain(e.fat, t))
    <3>1. Counted(e.fat, t, i) <=> (\A k \in 0 .. l - 1 : Linked(q[k])) /\ q[l - 1] = i
      BY DEF Counted
    <3>2. l = m + 1
      BY <2>3
    <3> HIDE DEF l, q, p, m
    <3>3. \A k \in 0 .. l - 1 : Linked(q[k])
      <4>1. ASSUME NEW k \in 0 .. l - 1 PROVE Linked(q[k])
        <5>1. k \in 0 .. m - 1 \/ k = m
          BY <1>1, <3>2
        <5> QED BY <1>2, <1>10, <2>2, <5>1 DEF Linked
      <4> QED BY <4>1
    <3>4. l - 1 = m
      BY <1>1, <3>2
    <3> QED BY <2>2, <3>1, <3>3, <3>4
  <2> HIDE DEF q, p, m
  <2> QED BY <1>10, <2>5, <2>8, <2>9 DEF q
<1> HIDE DEF Goal
<1>11. \/ e.res = "ok" /\ e.fat = ft /\ e.fcb = f /\ f.curcluster < TRACK_SIZE
       \/ e.res = "full" /\ FreeTracks(ft) = {} /\ f.curcluster = TRACK_SIZE
       \/ /\ e.res = "ok" /\ f.curcluster = TRACK_SIZE
          /\ \E i \in Tracks : /\ ft[i].successor = FREE /\ e.fat = Grown(ft, c, i)
                               /\ e.fcb.curtrack = i /\ e.fcb.curcluster = 0
  BY EnterStands
<1> QED BY <1>8, <1>9, <1>10, <1>11

-----------------------------------------------------------------------------
(* What every file holds *)

\* A file that is written holds all clusters but the one in the buffer.
WriterHolds(h) ==
  /\ Counted(fat, fcb[h].starttrack, fcb[h].curtrack)
  /\ HoldsIn(KthTrack(fat, fcb[h].starttrack), data, fcb[h].dir_index, fcb[h].length - 1)
  /\ fcb[h].crpos > 0 => fcb[h].buf = <<fcb[h].dir_index, fcb[h].length - 1>>

FileHolds(s) == HoldsIn(KthTrack(fat, dir[s].starttrack), data, s, dir[s].length)

ContentInv ==
  /\ FilesInv
  /\ \A h \in Busy : WriterHolds(h)
  /\ \A s \in Valid(dir) : Unfinished(s) \/ size[s] = 0 \/ FileHolds(s)

\* The clusters of the other files stay as they are.
DataKept(S) ==
  \A s \in Valid(dir') \ S, c \in 0 .. TRACK_SIZE - 1 :
    \A v \in Chain(fat, dir[s].starttrack) : data'[Cell(v, c)] = data[Cell(v, c)]

\* The handles that write after a step write files there are.
LEMMA WritersAfter ==
  ASSUME MountedInv', NEW h \in Writers'
  PROVE  fcb'[h] \in jdfcb /\ fcb'[h].dir_index \in Valid(dir')
<1>1. TypeOK' /\ VolumeInv'
  BY DEF MountedInv, VolumeInv
<1>2. h \in Fds /\ fcb'[h] # NULL /\ fcb'[h] \in jdfcb
  BY <1>1 DEF Writers, TypeOK
<1>3. Anchored(fat', dir', fcb'[h])
  BY <1>1, <1>2 DEF VolumeInv, HandlesAnchored, IsOpen
<1> QED BY <1>2, <1>3, FcbFields DEF Anchored, Valid

\* A step keeps the invariant if it does so for the files it touches.
LEMMA ContentKept ==
  ASSUME ContentInv, FilesInv', NEW S \in SUBSET Slots, Touches(S), DataKept(S),
         \A h \in Busy' : fcb'[h].dir_index \in S => WriterHolds(h)',
         \A s \in S \cap Valid(dir') : Unfinished(s)' \/ size'[s] = 0 \/ FileHolds(s)'
  PROVE  ContentInv'
<1>1. /\ FilesInv /\ MountedInv /\ MountedInv' /\ VolumeInv /\ VolumeInv'
      /\ \A h \in Busy : WriterHolds(h) /\ WriterStands(h)
  BY DEF ContentInv, FilesInv, MountedInv
<1>2. ASSUME NEW s \in Valid(dir') \ S
      PROVE  /\ Untouched(s) /\ dir[s].starttrack \in Tracks
             /\ \A u \in Chain(fat, dir[s].starttrack) : fat'[u] = fat[u]
             /\ \A v \in Chain(fat, dir[s].starttrack), c \in 0 .. TRACK_SIZE - 1 :
                  data'[Cell(v, c)] = data[Cell(v, c)]
  <2>1. Untouched(s)
    BY DEF Touches
  <2>2. dir[s].starttrack \in Tracks
    BY <1>1, <2>1, Parts DEF Untouched
  <2> QED BY <2>1, <2>2 DEF Untouched, DataKept
<1>3. ASSUME NEW h \in Busy', fcb'[h].dir_index \notin S
      PROVE  WriterHolds(h)'
  <2> DEFINE f == fcb[h]
             s == f.dir_index
             t == f.starttrack
  <2>1. h \in Busy /\ fcb'[h] = f /\ WriterHolds(h) /\ WriterStands(h)
    BY <1>1, <1>3 DEF Touches
  <2>2. h \in Writers /\ h \in Writers'
    BY <1>3, <2>1 DEF Busy
  <2>3. s \in Valid(dir) /\ t = dir[s].starttrack /\ f \in jdfcb
    BY <1>1, <2>2, Parts
  <2>4. s \in Valid(dir') \ S
    <3>1. fcb'[h].dir_index \in Valid(dir')
      BY <1>1, <2>2, WritersAfter
    <3> QED BY <1>3, <2>1, <3>1
  <2>5. /\ t \in Tracks
        /\ \A u \in Chain(fat, t) : fat'[u] = fat[u]
        /\ \A v \in Chain(fat, t), c \in 0 .. TRACK_SIZE - 1 : data'[Cell(v, c)] = data[Cell(v, c)]
    BY <1>2, <2>3, <2>4
  <2>6. f.length - 1 \in Nat
    BY <2>1, <2>3, FcbFields DEF WriterStands, Stands
  <2>7. /\ Counted(fat, t, f.curtrack)
        /\ HoldsIn(KthTrack(fat, t), data, s, f.length - 1)
        /\ f.crpos > 0 => f.buf = <<s, f.length - 1>>
    BY <2>1 DEF WriterHolds
  <2>8. WriterHolds(h)' <=> /\ Counted(fat', fcb'[h].starttrack, fcb'[h].curtrack)
                            /\ HoldsIn(KthTrack(fat', fcb'[h].starttrack), data', fcb'[h].dir_index,
                                       fcb'[h].length - 1)
                            /\ fcb'[h].crpos > 0 => fcb'[h].buf = <<fcb'[h].dir_index, fcb'[h].length - 1>>
    BY DEF WriterHolds
  <2>9. Counted(fat', t, f.curtrack)
    BY <2>5, <2>7, CountedSame
  <2>10. HoldsIn(KthTrack(fat', t), data', s, f.length - 1)
    BY <2>5, <2>6, <2>7, HoldsSame
  <2> HIDE DEF f
  <2> QED BY <2>1, <2>7, <2>8, <2>9, <2>10
<1>4. ASSUME NEW s \in Valid(dir') \ S
      PROVE  Unfinished(s)' \/ size'[s] = 0 \/ FileHolds(s)'
  <2>1. s \in Valid(dir) /\ Untouched(s)
    BY <1>2 DEF Untouched
  <2>2. Unfinished(s) => Unfinished(s)'
    BY DEF Unfinished, Touches
  <2>3. size[s] = 0 => size'[s] = 0
    BY <2>1 DEF Untouched
  <2>4. FileHolds(s) => FileHolds(s)'
    <3>1. dir[s].length \in Nat
      BY <1>1, <2>1, Parts DEF jddir
    <3>2. dir'[s].length = dir[s].length /\ dir'[s].starttrack = dir[s].starttrack
      BY <2>1 DEF Untouched
    <3>3. HoldsIn(KthTrack(fat, dir[s].starttrack), data, s, dir[s].length)
            => HoldsIn(KthTrack(fat', dir[s].starttrack), data', s, dir[s].length)
      BY <1>2, <3>1, HoldsSame
    <3> QED BY <3>2, <3>3 DEF FileHolds
  <2>5. Unfinished(s) \/ size[s] = 0 \/ FileHolds(s)
    BY <2>1 DEF ContentInv
  <2> QED BY <2>2, <2>3, <2>4, <2>5
<1> QED BY <1>3, <1>4 DEF ContentInv

\* Files and clusters left alone.
LEMMA ContentQuiet ==
  ASSUME ContentInv, FilesInv', Touches({}), data' = data
  PROVE  ContentInv'
<1>1. DataKept({}) /\ {} \in SUBSET Slots
  BY DEF DataKept
<1> QED BY <1>1, ContentKept

\* Removing a file leaves the clusters of the others.
LEMMA ContentRemoveAt ==
  ASSUME ContentInv, FilesInv', NEW n \in Names, Remove(n),
         NEW s \in Slots, s = Least(find_file(dir, n))
  PROVE  ContentInv'
<1>1. MountedInv' /\ FilesInv /\ MountedInv
  BY DEF FilesInv, ContentInv
<1>2. Touches({s})
  BY <1>1, FilesRemoveAt
<1>3. data' = data /\ UNCHANGED fcb /\ OpenOn(n) = {} /\ dir' = [dir EXCEPT ![s].id = NONE]
  BY DEF Remove
<1>4. s \notin Valid(dir')
  <2>1. dir \in [Slots -> jddir]
    BY <1>1, Parts
  <2>2. dir'[s].id = NONE
    BY <1>3, <2>1 DEF jddir
  <2> QED BY <2>2 DEF Valid, NONE, VALID
<1>5. \A h \in Busy' : fcb'[h].dir_index # s
  BY <1>1, <1>4, WritersAfter DEF Busy
<1>6. DataKept({s}) /\ {s} \in SUBSET Slots
  BY <1>3 DEF DataKept
<1> QED BY <1>2, <1>4, <1>5, <1>6, ContentKept

\* What a flush leaves, on a medium that works.
LEMMA FlushedForm ==
  ASSUME NEW f
  PROVE  LET w == Flushed(f, TRUE)
             e == EnterTrack(fat, f)
         IN /\ f.crpos # CLUSTERSIZE => w.fat = fat /\ w.fcb = f /\ w.written = {}
            /\ f.crpos = CLUSTERSIZE /\ e.res = "ok" =>
                 /\ w.fat = e.fat /\ w.fcb = alloc_new_cluster(e.fcb)
                 /\ w.written = {Address(e.fcb)}
<1> DEFINE w == Flushed(f, TRUE)
           e == EnterTrack(fat, f)
           v == nkcfs_write_cluster(fat, f, TRUE)
<1>1. ASSUME f.crpos # CLUSTERSIZE
      PROVE  w.fat = fat /\ w.fcb = f /\ w.written = {}
  <2>1. w = [res |-> "ok", fat |-> fat, fcb |-> f, written |-> {}]
    BY <1>1 DEF Flushed
  <2> HIDE DEF w
  <2> QED BY <2>1
<1>2. ASSUME f.crpos = CLUSTERSIZE, e.res = "ok"
      PROVE  w.fat = e.fat /\ w.fcb = alloc_new_cluster(e.fcb) /\ w.written = {Address(e.fcb)}
  <2>1. v = [res |-> "ok", fat |-> e.fat, fcb |-> e.fcb, written |-> {Address(e.fcb)}]
    BY <1>2 DEF nkcfs_write_cluster
  <2>2. w = IF v.res = "ok" THEN [v EXCEPT !.fcb = alloc_new_cluster(v.fcb)] ELSE v
    BY <1>2 DEF Flushed
  <2> HIDE DEF w, v, e
  <2>3. w = [res |-> "ok", fat |-> e.fat, fcb |-> alloc_new_cluster(e.fcb),
             written |-> {Address(e.fcb)}]
    BY <2>1, <2>2
  <2> QED BY <2>3
<1> HIDE DEF w
<1> QED BY <1>1, <1>2 DEF w

\* A flush stores the cluster that was full and moves on to the next one.
LEMMA FlushedHolds ==
  ASSUME fat \in FatType, TracksMirror(fat), NEW t \in Tracks, fat[t].ancestor = NONE,
         NEW f \in jdfcb, f.curtrack \in Chain(fat, t), fat[f.curtrack].successor = NONE,
         Stands(f, Cardinality(Chain(fat, t))),
         f.curcluster < TRACK_SIZE \/ FreeTracks(fat) # {},
         Counted(fat, t, f.curtrack), NEW s,
         HoldsIn(KthTrack(fat, t), data, s, f.length - 1),
         data \in [Addrs -> Tags \cup {NULL}],
         f.crpos > 0 => f.buf = <<s, f.length - 1>>
  PROVE  LET w == Flushed(f, TRUE) IN
         /\ Counted(w.fat, t, w.fcb.curtrack)
         /\ HoldsIn(KthTrack(w.fat, t), Stored(w.written, f.buf), s, w.fcb.length - 1)
         /\ w.fcb.crpos \in 0 .. CLUSTERSIZE - 1
         /\ w.fcb.crpos > 0 => w.fcb.buf = <<s, w.fcb.length - 1>>
         /\ \/ w.written = {}
            \/ \E v \in Tracks, d \in 0 .. TRACK_SIZE - 1 :
                 /\ w.written = {Cell(v, d)}
                 /\ v = f.curtrack \/ fat[v].successor = FREE
<1> DEFINE w == Flushed(f, TRUE)
           m == Cardinality(Chain(fat, t))
           n == f.length - 1
           e == EnterTrack(fat, f)
           g == alloc_new_cluster(e.fcb)
           st == [a \in Addrs |-> IF a \in {Address(e.fcb)} THEN <<s, n>> ELSE data[a]]
           Goal == /\ Counted(w.fat, t, w.fcb.curtrack)
                   /\ HoldsIn(KthTrack(w.fat, t), Stored(w.written, f.buf), s, w.fcb.length - 1)
                   /\ w.fcb.crpos \in 0 .. CLUSTERSIZE - 1
                   /\ w.fcb.crpos > 0 => w.fcb.buf = <<s, w.fcb.length - 1>>
                   /\ \/ w.written = {}
                      \/ \E v \in Tracks, d \in 0 .. TRACK_SIZE - 1 :
                           /\ w.written = {Cell(v, d)}
                           /\ v = f.curtrack \/ fat[v].successor = FREE
<1>1. /\ m \in Nat \ {0} /\ f.curcluster \in 0 .. TRACK_SIZE /\ f.length \in Nat
      /\ f.crpos \in 0 .. CLUSTERSIZE /\ CLUSTERSIZE \in Nat /\ CLUSTERSIZE > 0
      /\ f.lasttrack = f.curtrack /\ f.endcluster = f.curcluster
  BY ChainBound, FcbFields, Geometry DEF Stands
<1>2. n \in Nat /\ Indexed(n, m, f.curcluster)
  BY <1>1, StandsIndex
<1>3. ASSUME f.crpos # CLUSTERSIZE PROVE Goal
  <2>1. w.fat = fat /\ w.fcb = f /\ w.written = {}
    BY <1>3, FlushedForm
  <2>2. Stored({}, f.buf) = data
    BY DEF Stored
  <2>3. f.crpos \in 0 .. CLUSTERSIZE - 1
    BY <1>1, <1>3
  <2> HIDE DEF w
  <2> QED BY <2>1, <2>2, <2>3
<1>4. ASSUME f.crpos = CLUSTERSIZE PROVE Goal
  <2>1. /\ e.res = "ok"
        /\ e.fcb.curtrack \in Tracks /\ e.fcb.curcluster \in 0 .. TRACK_SIZE - 1
        /\ e.fcb.curtrack = f.curtrack \/ fat[e.fcb.curtrack].successor = FREE
        /\ Counted(e.fat, t, e.fcb.curtrack)
        /\ HoldsIn(KthTrack(e.fat, t), st, s, n + 1)
    <3>1. HoldsIn(KthTrack(fat, t), data, s, n)
      OBVIOUS
    <3> HIDE DEF n
    <3> QED BY <1>1, <1>2, <3>1, EnterHolds
  <2>2. w.fat = e.fat /\ w.fcb = g /\ w.written = {Address(e.fcb)}
    BY <1>4, <2>1, FlushedForm
  <2>3. e.fcb \in jdfcb
    BY EnterTyped
  <2>4. SamePlace(f, e.fcb) /\ e.fcb.lasttrack = e.fcb.curtrack /\ e.fcb.endcluster = e.fcb.curcluster
    <3>1. /\ SamePlace(f, e.fcb)
          /\ \/ e.fcb = f
             \/ e.res = "full"
             \/ \E i \in Tracks : /\ e.fcb.curtrack = i /\ e.fcb.lasttrack = i
                                  /\ e.fcb.curcluster = 0 /\ e.fcb.endcluster = 0
      BY <1>1, EnterStands
    <3> HIDE DEF e
    <3> QED BY <1>1, <2>1, <3>1
  <2>5. Address(e.fcb) = Cell(e.fcb.curtrack, e.fcb.curcluster)
    BY DEF Address, Cell
  <2>6. Stored({Address(e.fcb)}, f.buf) = st
    <3>1. f.buf = <<s, n>>
      BY <1>1, <1>4
    <3> HIDE DEF e, n
    <3> QED BY <3>1 DEF Stored
  <2> HIDE DEF e, st, w
  <2>7. g.curtrack = e.fcb.curtrack /\ g.crpos = 0 /\ g.length = e.fcb.length + 1
    <3>1. e.fcb.curcluster < TRACK_SIZE
      BY <2>1, Geometry
    <3> QED BY <2>3, <2>4, <3>1, NewClusterStands
  <2> HIDE DEF g
  <2>8. g.length - 1 = n + 1
    BY <1>1, <2>4, <2>7 DEF SamePlace
  <2>9. Counted(w.fat, t, w.fcb.curtrack)
    BY <2>1, <2>2, <2>7
  <2>10. HoldsIn(KthTrack(w.fat, t), Stored(w.written, f.buf), s, w.fcb.length - 1)
    BY <2>1, <2>2, <2>6, <2>8
  <2>11. w.fcb.crpos = 0
    BY <2>2, <2>7
  <2>12. \E v \in Tracks, d \in 0 .. TRACK_SIZE - 1 :
           w.written = {Cell(v, d)} /\ (v = f.curtrack \/ fat[v].successor = FREE)
    BY <2>1, <2>2, <2>5
  <2> QED BY <1>1, <2>9, <2>10, <2>11, <2>12
<1>5. Goal
  BY <1>3, <1>4
<1> HIDE DEF w
<1> QED BY <1>5 DEF w

\* The bytes that begin a cluster name it.
LEMMA FillHolds ==
  ASSUME NEW f \in jdfcb, NEW m \in Nat, Stands(f, m), f.crpos \in 0 .. CLUSTERSIZE - 1,
         NEW c \in Nat, c > 0, NEW n, n = Smaller(c, CLUSTERSIZE - f.crpos),
         f.crpos > 0 => f.buf = <<f.dir_index, f.length - 1>>
  PROVE  /\ Fill(f, n).buf = <<f.dir_index, f.length - 1>>
         /\ Fill(f, n).length = f.length /\ Fill(f, n).curtrack = f.curtrack
<1> DEFINE q == f.length - 1
           b == IF n > 0 /\ f.crpos = 0 THEN <<f.dir_index, f.pos \div CLUSTERSIZE>> ELSE f.buf
<1>1. /\ f.length \in Nat /\ f.length > 0 /\ f.pos \in Int /\ q \in Nat /\ f.length = q + 1
      /\ CLUSTERSIZE \in Nat /\ CLUSTERSIZE > 0
      /\ f.pos + CLUSTERSIZE = (f.length * CLUSTERSIZE) + f.crpos
  BY FcbFields, Geometry DEF Stands
<1>2. n > 0
  BY <1>1 DEF Smaller
<1>3. /\ Fill(f, n).buf = b
      /\ Fill(f, n).length = f.length /\ Fill(f, n).curtrack = f.curtrack
  BY DEF Fill, jdfcb
<1> HIDE DEF q
<1>4. CASE f.crpos = 0
  <2>1. (q + 1) * CLUSTERSIZE = (q * CLUSTERSIZE) + CLUSTERSIZE /\ q * CLUSTERSIZE \in Nat
    BY <1>1
  <2>2. f.pos = (q * CLUSTERSIZE) + 0
    BY <1>1, <1>4, <2>1
  <2>3. f.pos \div CLUSTERSIZE = q
    BY <1>1, <2>2, Remainder
  <2> QED BY <1>2, <1>3, <1>4, <2>3 DEF q
<1>5. CASE f.crpos > 0
  BY <1>3, <1>5 DEF q
<1> QED BY <1>4, <1>5

\* A new file has a track, and its first cluster is not stored yet.
LEMMA ContentOpenNewAt ==
  ASSUME ContentInv, FilesInv', PlainModes, NEW h \in Fds, NEW n \in Names, NEW flags \in OpenFlags,
         OpenNew(h, n, flags),
         NEW s \in Slots, s = Least(Vacant(dir)), NEW t \in Tracks, t = Least(FreeTracks(fat))
  PROVE  ContentInv'
<1> DEFINE g == CreatedFcb(n, flags, t, s)
<1>1. /\ FilesInv /\ MountedInv /\ MountedInv' /\ OneWriterEach'
      /\ fat' = Started(fat, t) /\ fcb' = [fcb EXCEPT ![h] = g] /\ data' = data
      /\ call.op = "idle" /\ call' = call
  BY DEF OpenNew, Ready, Started, FilesInv, ContentInv
<1>2. Touches({s})
  BY <1>1, FilesOpenNewAt
<1>3. /\ g.dir_index = s /\ g.starttrack = t /\ g.curtrack = t /\ g.length = 1
      /\ g.crpos = 0 /\ g.omode = "E5"
  BY DEF CreatedFcb
<1>4. g # NULL
  BY FreeTrack, VacantSlot, CreatedTyped, NullAssumption, ClientAssumption DEF OpenNew
<1> HIDE DEF g
<1>5. fcb'[h] = g
  BY <1>1, Parts
<1>6. h \in Busy' /\ h \in Writers'
  BY <1>1, <1>3, <1>4, <1>5 DEF Busy, Writers
<1>7. fat'[t].successor = NONE
  <2>1. fat[t].successor = FREE
    BY FreeTrack DEF OpenNew
  <2> QED BY <1>1, <2>1, Parts, StartedTable
<1>8. Counted(fat', t, t)
  <2>1. Cardinality(Chain(fat', t)) = 1
    BY <1>7, ChainOne
  <2>2. KthTrack(fat', t)[0] = t
    BY KthTrackPoint, Geometry
  <2>3. \A k \in 0 .. 1 - 1 : k = 0
    OBVIOUS
  <2> QED BY <2>1, <2>2, <2>3 DEF Counted, Linked
<1>9. WriterHolds(h)'
  <2>1. HoldsIn(KthTrack(fat', t), data', s, 0)
    BY DEF HoldsIn
  <2>2. WriterHolds(h)' <=> /\ Counted(fat', fcb'[h].starttrack, fcb'[h].curtrack)
                            /\ HoldsIn(KthTrack(fat', fcb'[h].starttrack), data', fcb'[h].dir_index,
                                       fcb'[h].length - 1)
                            /\ fcb'[h].crpos > 0 => fcb'[h].buf = <<fcb'[h].dir_index, fcb'[h].length - 1>>
    BY DEF WriterHolds
  <2> QED BY <1>3, <1>5, <1>8, <2>1, <2>2
<1>10. \A k \in Busy' : fcb'[k].dir_index \in {s} => WriterHolds(k)'
  <2>1. \A k \in Busy' : fcb'[k].dir_index = s => k = h
    BY <1>1, <1>3, <1>5, <1>6 DEF OneWriterEach, Busy
  <2> QED BY <1>9, <2>1
<1>11. Unfinished(s)'
  BY <1>3, <1>5, <1>6 DEF Unfinished
<1>12. DataKept({s}) /\ {s} \in SUBSET Slots
  BY <1>1 DEF DataKept
<1> QED BY <1>2, <1>10, <1>11, <1>12, ContentKept

\* What a writer's step stores is in no cluster of another file.
LEMMA StoredElsewhere ==
  ASSUME MountedInv, NEW h \in Writers, NEW s, s = fcb[h].dir_index, Touches({s}),
         NEW x, NEW a, data' = Stored(a, x),
         \/ a = {}
         \/ \E v \in Tracks, d \in 0 .. TRACK_SIZE - 1 :
              a = {Cell(v, d)} /\ (v = fcb[h].curtrack \/ fat[v].successor = FREE)
  PROVE  DataKept({s})
<1>1. /\ fat \in FatType /\ TracksMirror(fat) /\ VolumeInv
      /\ s \in Valid(dir) /\ fcb[h].curtrack \in Chain(fat, dir[s].starttrack)
  BY Parts DEF Anchored
<1>2. ASSUME NEW r \in Valid(dir') \ {s}, NEW c \in 0 .. TRACK_SIZE - 1,
             NEW u \in Chain(fat, dir[r].starttrack)
      PROVE  data'[Cell(u, c)] = data[Cell(u, c)]
  <2>1. r \in Valid(dir)
    BY DEF Touches, Untouched
  <2>2. dir[r].starttrack \in Tracks /\ fat[dir[r].starttrack].ancestor = NONE
    BY <2>1, Parts
  <2>3. fcb[h].curtrack \notin Chain(fat, dir[r].starttrack)
    BY <1>1, <2>1, DisjointFiles
  <2>4. Cell(u, c) \in Addrs
    BY <2>2, ChainHere, CellOnMedium
  <2>5. CASE a = {}
    BY <2>4, <2>5 DEF Stored
  <2>6. ASSUME NEW v \in Tracks, NEW d \in 0 .. TRACK_SIZE - 1, a = {Cell(v, d)},
               v = fcb[h].curtrack \/ fat[v].successor = FREE
        PROVE  data'[Cell(u, c)] = data[Cell(u, c)]
    <3>1. data' = [b \in Addrs |-> IF b \in {Cell(v, d)} THEN x ELSE data[b]]
      BY <2>6 DEF Stored
    <3>2. u \in Tracks /\ u # v
      BY <1>1, <2>2, <2>3, <2>6, ChainHere, ChainAllocated
    <3>3. Cell(u, c) # Cell(v, d)
      BY <2>6, <3>2, CellsDiffer
    <3> QED BY <2>4, <3>1, <3>3
  <2> QED BY <2>5, <2>6
<1> QED BY <1>2 DEF DataKept

\* A round of a write stores at most the cluster that was full.
LEMMA ContentWriteAt ==
  ASSUME ContentInv, FilesInv', PlainModes, NeverFull, WriteStep,
         NEW h \in Fds, h = call.fd, NEW s \in Slots, s = fcb[h].dir_index
  PROVE  ContentInv'
<1> DEFINE f == fcb[h]
           t == f.starttrack
           w == Flushed(f, TRUE)
           n == Smaller(call.count, CLUSTERSIZE - w.fcb.crpos)
           g == Fill(w.fcb, n)
<1>1. /\ call.op = "write" /\ h \in Writers /\ call.count \in Nat /\ call.count > 0
      /\ FilesInv /\ MountedInv /\ MountedInv' /\ OneWriterEach'
  BY DEF WriteStep, ContentInv, FilesInv, MountedInv, SavedInv, CallsPlain, TypeOK
<1>2. h \in Busy /\ WriterStands(h) /\ WriterHolds(h)
  BY <1>1 DEF Busy, FilesInv, ContentInv
<1>3. Touches({s})
  BY <1>1, FilesWriteAt
<1>4. /\ fat' = w.fat /\ fcb' = [fcb EXCEPT ![h] = g] /\ data' = Stored(w.written, f.buf)
  <2>1. Media = {TRUE}
    BY DEF PlainModes, Media
  <2> QED BY <2>1 DEF WriteStep
<1>5. call'.op \in {"idle", "write"}
  <2>1. PICK c, b : call' = Idle \/ call' = [call EXCEPT !.count = c, !.bp = b]
    BY DEF WriteStep
  <2> QED BY <1>1, <2>1, RoundKeepsCall, Parts
<1>6. /\ f \in jdfcb /\ fat \in FatType /\ TracksMirror(fat) /\ t \in Tracks /\ fat[t].ancestor = NONE
      /\ f.curtrack \in Chain(fat, t) /\ fcb \in [Fds -> jdfcb \cup {NULL}]
      /\ data \in [Addrs -> Tags \cup {NULL}]
  BY <1>1, Parts DEF Anchored, TypeOK
<1>7. /\ Stands(f, Cardinality(Chain(fat, t))) /\ Begun(f) /\ fat[f.curtrack].successor = NONE
      /\ Cardinality(Chain(fat, t)) \in Nat
      /\ f.curcluster < TRACK_SIZE \/ FreeTracks(fat) # {}
  BY <1>1, <1>2, <1>6, ChainFinite DEF WriterStands, Tracks_, NeverFull
<1>8. /\ Counted(fat, t, f.curtrack) /\ HoldsIn(KthTrack(fat, t), data, s, f.length - 1)
      /\ f.crpos > 0 => f.buf = <<s, f.length - 1>>
  BY <1>2 DEF WriterHolds
<1>9. /\ Counted(w.fat, t, w.fcb.curtrack)
      /\ HoldsIn(KthTrack(w.fat, t), Stored(w.written, f.buf), s, w.fcb.length - 1)
      /\ w.fcb.crpos \in 0 .. CLUSTERSIZE - 1
      /\ w.fcb.crpos > 0 => w.fcb.buf = <<s, w.fcb.length - 1>>
      /\ \/ w.written = {}
         \/ \E v \in Tracks, d \in 0 .. TRACK_SIZE - 1 :
              /\ w.written = {Cell(v, d)}
              /\ v = f.curtrack \/ fat[v].successor = FREE
  <2> HIDE DEF f, t
  <2> QED BY <1>6, <1>7, <1>8, FlushedHolds
<1>10. /\ w.fcb.dir_index = s /\ w.fcb.starttrack = t /\ w.fcb \in jdfcb
       /\ \E k \in Nat : Stands(w.fcb, k)
  <2>1. w.fcb \in jdfcb
    BY <1>6, FlushedTyped
  <2> DEFINE m == Cardinality(Chain(fat, t))
  <2>2. m \in Nat /\ m + 1 \in Nat
    BY <1>7
  <2> HIDE DEF w, m
  <2>3. /\ w.fcb.dir_index = s /\ w.fcb.starttrack = t
        /\ Stands(w.fcb, m) \/ Stands(w.fcb, m + 1)
    BY <1>6, <1>7, FlushedStands DEF w, m
  <2> QED BY <2>1, <2>2, <2>3
<1>11. DataKept({s})
  <2> HIDE DEF w
  <2> QED BY <1>1, <1>3, <1>4, <1>9, StoredElsewhere
<1> HIDE DEF w
<1>12. /\ g.buf = <<s, w.fcb.length - 1>>
       /\ g.length = w.fcb.length /\ g.curtrack = w.fcb.curtrack
  <2>1. PICK k \in Nat : Stands(w.fcb, k)
    BY <1>10
  <2>2. w.fcb.crpos > 0 => w.fcb.buf = <<w.fcb.dir_index, w.fcb.length - 1>>
    BY <1>9, <1>10
  <2>3. w.fcb \in jdfcb /\ w.fcb.crpos \in 0 .. CLUSTERSIZE - 1
    BY <1>9, <1>10
  <2> DEFINE x == w.fcb
  <2> HIDE DEF x, f
  <2>4. Fill(x, n).buf = <<x.dir_index, x.length - 1>>
        /\ Fill(x, n).length = x.length /\ Fill(x, n).curtrack = x.curtrack
    <3>1. n = Smaller(call.count, CLUSTERSIZE - x.crpos)
      BY DEF x
    <3> HIDE DEF n
    <3>2. /\ x \in jdfcb /\ Stands(x, k) /\ x.crpos \in 0 .. CLUSTERSIZE - 1
          /\ x.crpos > 0 => x.buf = <<x.dir_index, x.length - 1>>
      BY <2>1, <2>2, <2>3 DEF x
    <3> QED BY <1>1, <3>1, <3>2, FillHolds
  <2> QED BY <1>10, <2>4 DEF x
<1>13. g.dir_index = s /\ g.starttrack = t
  BY <1>1, <1>10, FillStands
<1> HIDE DEF g, n
<1>14. fcb'[h] = g
  BY <1>4, <1>6
<1>15. h \in Busy' /\ h \in Writers'
  <2>1. Writers' = Writers
    BY <1>1, WriteStepMode, WritersKept DEF MountedInv, SavedInv
  <2> QED BY <1>1, <1>5, <2>1 DEF Busy
<1>16. WriterHolds(h)'
  <2>1. WriterHolds(h)' <=> /\ Counted(fat', fcb'[h].starttrack, fcb'[h].curtrack)
                            /\ HoldsIn(KthTrack(fat', fcb'[h].starttrack), data', fcb'[h].dir_index,
                                       fcb'[h].length - 1)
                            /\ fcb'[h].crpos > 0 => fcb'[h].buf = <<fcb'[h].dir_index, fcb'[h].length - 1>>
    BY DEF WriterHolds
  <2> HIDE DEF f, t
  <2> QED BY <1>4, <1>9, <1>12, <1>13, <1>14, <2>1
<1>17. \A k \in Busy' : fcb'[k].dir_index \in {s} => WriterHolds(k)'
  <2>1. \A k \in Busy' : fcb'[k].dir_index = s => k = h
    BY <1>1, <1>13, <1>14, <1>15 DEF OneWriterEach, Busy
  <2> QED BY <1>16, <2>1
<1>18. Unfinished(s)'
  BY <1>13, <1>14, <1>15 DEF Unfinished
<1> QED BY <1>3, <1>11, <1>17, <1>18, ContentKept

\* A close stores the last cluster, where it belongs.
LEMMA CloseHolds ==
  ASSUME fat \in FatType, TracksMirror(fat), NEW t \in Tracks, fat[t].ancestor = NONE,
         NEW f \in jdfcb, f.curtrack \in Chain(fat, t), fat[f.curtrack].successor = NONE,
         Stands(f, Cardinality(Chain(fat, t))), f.crpos # 0,
         f.curcluster < TRACK_SIZE \/ FreeTracks(fat) # {},
         Counted(fat, t, f.curtrack), NEW s,
         HoldsIn(KthTrack(fat, t), data, s, f.length - 1),
         f.crpos > 0 => f.buf = <<s, f.length - 1>>
  PROVE  LET k == OneIndexed(f)
             w == nkcfs_write_cluster(fat, k, TRUE)
         IN /\ SamePlace(f, w.fcb)
            /\ HoldsIn(KthTrack(w.fat, t), Stored(w.written, k.buf), s, f.length)
            /\ \E v \in Tracks, d \in 0 .. TRACK_SIZE - 1 :
                 /\ w.written = {Cell(v, d)}
                 /\ v = f.curtrack \/ fat[v].successor = FREE
<1> DEFINE k == OneIndexed(f)
           e == EnterTrack(fat, k)
           w == nkcfs_write_cluster(fat, k, TRUE)
           m == Cardinality(Chain(fat, t))
           n == f.length - 1
           st == [a \in Addrs |-> IF a \in {Address(e.fcb)} THEN <<s, n>> ELSE data[a]]
<1>1. /\ m \in Nat \ {0} /\ f.curcluster \in 0 .. TRACK_SIZE /\ f.length \in Nat
      /\ f.crpos \in 0 .. CLUSTERSIZE /\ CLUSTERSIZE \in Nat
  BY ChainBound, FcbFields, Geometry DEF Stands
<1>2. n \in Nat /\ Indexed(n, m, f.curcluster)
  BY <1>1, StandsIndex
<1>3. /\ k \in jdfcb /\ SamePlace(f, k) /\ k.curcluster = f.curcluster
      /\ k.curtrack = f.curtrack /\ k.buf = f.buf
  <2> DEFINE x == (f.endcluster + 1) % 65536
  <2>1. x \in Nat
    BY FcbFields
  <2>2. k = [f EXCEPT !.endcluster = x]
    BY DEF OneIndexed
  <2> HIDE DEF x, k
  <2> QED BY <2>1, <2>2 DEF jdfcb, SamePlace
<1> HIDE DEF k
<1>4. /\ e.res = "ok"
      /\ e.fcb.curtrack \in Tracks /\ e.fcb.curcluster \in 0 .. TRACK_SIZE - 1
      /\ e.fcb.curtrack = f.curtrack \/ fat[e.fcb.curtrack].successor = FREE
      /\ HoldsIn(KthTrack(e.fat, t), st, s, n + 1)
  <2>1. HoldsIn(KthTrack(fat, t), data, s, n)
    OBVIOUS
  <2>2. /\ k.curtrack \in Chain(fat, t) /\ fat[k.curtrack].successor = NONE
        /\ k.curcluster \in 0 .. TRACK_SIZE
        /\ k.curcluster < TRACK_SIZE \/ FreeTracks(fat) # {}
        /\ Counted(fat, t, k.curtrack) /\ Indexed(n, m, k.curcluster)
    BY <1>1, <1>2, <1>3
  <2> HIDE DEF n
  <2>3. /\ e.res = "ok"
        /\ e.fcb.curtrack \in Tracks /\ e.fcb.curcluster \in 0 .. TRACK_SIZE - 1
        /\ e.fcb.curtrack = k.curtrack \/ fat[e.fcb.curtrack].successor = FREE
        /\ HoldsIn(KthTrack(e.fat, t), st, s, n + 1)
    BY <1>2, <1>3, <2>1, <2>2, EnterHolds
  <2> HIDE DEF e, st
  <2> QED BY <1>3, <2>3
<1>5. w.fat = e.fat /\ w.fcb = e.fcb /\ w.written = {Address(e.fcb)}
  BY <1>4 DEF nkcfs_write_cluster
<1>6. SamePlace(k, e.fcb)
  BY <1>1, <1>3, EnterStands
<1>7. Address(e.fcb) = Cell(e.fcb.curtrack, e.fcb.curcluster)
  BY DEF Address, Cell
<1>8. Stored({Address(e.fcb)}, k.buf) = st
  <2>1. k.buf = <<s, n>>
    BY <1>1, <1>3
  <2> HIDE DEF e, n
  <2> QED BY <2>1 DEF Stored
<1> HIDE DEF e, st, w
<1>9. SamePlace(f, w.fcb)
  BY <1>3, <1>5, <1>6 DEF SamePlace
<1>10. HoldsIn(KthTrack(w.fat, t), Stored(w.written, k.buf), s, f.length)
  <2>1. n + 1 = f.length
    BY <1>1
  <2> HIDE DEF n
  <2> QED BY <1>4, <1>5, <1>8, <2>1
<1>11. \E v \in Tracks, d \in 0 .. TRACK_SIZE - 1 :
         w.written = {Cell(v, d)} /\ (v = f.curtrack \/ fat[v].successor = FREE)
  BY <1>4, <1>5, <1>7
<1> QED BY <1>9, <1>10, <1>11 DEF w, k

LEMMA ContentClose ==
  ASSUME ContentInv, FilesInv', PlainModes, NeverFull, NEW h \in Fds, CloseWriter(h),
         NEW s \in Slots, s = fcb[h].dir_index
  PROVE  ContentInv'
<1> DEFINE f == fcb[h]
           t == f.starttrack
           k == OneIndexed(f)
           v == nkcfs_write_cluster(fat, k, TRUE)
           w == IF k.crpos = 0 THEN [fat |-> fat, fcb |-> k, written |-> {}] ELSE v
<1>1. /\ call.op = "idle" /\ h \in Writers /\ h \in Busy
      /\ FilesInv /\ MountedInv /\ MountedInv'
  BY DEF CloseWriter, Ready, IsOpen, Writers, Busy, FilesInv, ContentInv
<1>2. /\ fat' = w.fat /\ fcb' = [fcb EXCEPT ![h] = w.fcb] /\ dir' = update_dir(dir, w.fcb)
      /\ data' = Stored(w.written, k.buf) /\ UNCHANGED size /\ call' = Begin("closeFat", h, 0)
  <2>1. Media = {TRUE}
    BY DEF PlainModes, Media
  <2> QED BY <2>1 DEF CloseWriter
<1>3. Touches({s})
  BY <1>1, FilesClose
<1>4. /\ f \in jdfcb /\ fat \in FatType /\ TracksMirror(fat) /\ t \in Tracks /\ fat[t].ancestor = NONE
      /\ f.curtrack \in Chain(fat, t) /\ fcb \in [Fds -> jdfcb \cup {NULL}]
      /\ dir \in [Slots -> jddir] /\ data \in [Addrs -> Tags \cup {NULL}]
      /\ f.length \in Nat /\ f.pos \in Int
  <2>1. /\ f \in jdfcb /\ fat \in FatType /\ TracksMirror(fat) /\ t \in Tracks /\ fat[t].ancestor = NONE
        /\ f.curtrack \in Chain(fat, t) /\ fcb \in [Fds -> jdfcb \cup {NULL}]
        /\ dir \in [Slots -> jddir] /\ data \in [Addrs -> Tags \cup {NULL}]
    BY <1>1, Parts DEF Anchored, TypeOK
  <2> HIDE DEF f
  <2> QED BY <2>1, FcbFields
<1>5. WriterStands(h) /\ WriterHolds(h)
  BY <1>1 DEF FilesInv, ContentInv
<1>6. /\ Stands(f, Cardinality(Chain(fat, t))) /\ Begun(f) /\ fat[f.curtrack].successor = NONE
      /\ f.curcluster < TRACK_SIZE \/ FreeTracks(fat) # {}
      /\ size[s] = f.pos
  BY <1>1, <1>5 DEF WriterStands, Tracks_, NeverFull
<1>7. /\ Counted(fat, t, f.curtrack) /\ HoldsIn(KthTrack(fat, t), data, s, f.length - 1)
      /\ f.crpos > 0 => f.buf = <<s, f.length - 1>>
  BY <1>5 DEF WriterHolds
<1>8. h \notin Busy'
  BY <1>2 DEF Busy, Begin
<1>9. \A j \in Busy' : fcb'[j].dir_index # s
  <2>1. ASSUME NEW j \in Busy' PROVE fcb'[j].dir_index # s
    <3>1. j \in Fds /\ j # h /\ fcb'[j] = fcb[j] /\ fcb[j] # NULL /\ fcb[j].omode = "E5"
      BY <1>2, <1>4, <1>8 DEF Busy, Writers
    <3> QED BY <1>1, <3>1 DEF FilesInv, OneWriterEach, Writers
  <2> QED BY <2>1
<1>10. k.crpos = f.crpos
  BY <1>4 DEF OneIndexed, jdfcb
<1>11. ASSUME k.crpos = 0
       PROVE  DataKept({s}) /\ size'[s] = 0
  <2>1. w.written = {}
    BY <1>11
  <2> HIDE DEF w
  <2>2. DataKept({s})
    BY <1>1, <1>2, <1>3, <2>1, StoredElsewhere
  <2>3. f.length = 1 /\ f.pos + CLUSTERSIZE = (1 * CLUSTERSIZE) + 0
    BY <1>6, <1>10, <1>11 DEF Begun, Stands
  <2>4. f.pos = 0
    BY <1>4, <2>3, Geometry
  <2> QED BY <1>2, <1>6, <2>2, <2>4
<1>12. ASSUME k.crpos # 0
       PROVE  DataKept({s}) /\ FileHolds(s)'
  <2>1. w = v
    BY <1>12
  <2>2. /\ SamePlace(f, v.fcb)
        /\ HoldsIn(KthTrack(v.fat, t), Stored(v.written, k.buf), s, f.length)
        /\ \E i \in Tracks, d \in 0 .. TRACK_SIZE - 1 :
             /\ v.written = {Cell(i, d)}
             /\ i = f.curtrack \/ fat[i].successor = FREE
    <3>1. f.crpos # 0
      BY <1>10, <1>12
    <3> HIDE DEF f, t
    <3> QED BY <1>4, <1>6, <1>7, <3>1, CloseHolds DEF k
  <2> HIDE DEF w, v
  <2>3. DataKept({s})
    BY <1>1, <1>2, <1>3, <2>1, <2>2, StoredElsewhere
  <2>4. dir'[s].length = f.length /\ dir'[s].starttrack = t
    BY <1>2, <1>4, <2>1, <2>2 DEF update_dir, SamePlace
  <2>5. FileHolds(s)' <=> HoldsIn(KthTrack(fat', dir'[s].starttrack), data', s, dir'[s].length)
    BY DEF FileHolds
  <2> HIDE DEF f, t, k
  <2> QED BY <1>2, <2>1, <2>2, <2>3, <2>4, <2>5
<1>13. DataKept({s}) /\ (size'[s] = 0 \/ FileHolds(s)')
  BY <1>11, <1>12
<1>14. \A r \in {s} \cap Valid(dir') : Unfinished(r)' \/ size'[r] = 0 \/ FileHolds(r)'
  BY <1>13
<1> QED BY <1>3, <1>9, <1>13, <1>14, ContentKept

LEMMA ContentNext ==
  ASSUME ContentInv, NeverFull, [Next]_vars, PlainModes,
         "seek" \notin Calls, "powerfail" \notin Calls
  PROVE  ContentInv'
<1>1. /\ FilesInv /\ FilesInv' /\ MountedInv /\ MountedInv'
  BY FilesNext DEF FilesInv, ContentInv
<1>2. Touches({}) /\ data' = data => ContentInv'
  BY <1>1, ContentQuiet
<1>3. CASE OpenCall
  <2>1. PICK h \in Fds, n \in Names, flags \in OpenFlags :
          OpenExisting(h, n, flags) \/ OpenNew(h, n, flags)
    BY <1>3 DEF OpenCall
  <2>2. CASE OpenExisting(h, n, flags)
    <3>1. data' = data
      BY <2>2 DEF OpenExisting
    <3> QED BY <1>1, <1>2, <2>2, <3>1, FilesOpenExisting
  <2>3. CASE OpenNew(h, n, flags)
    <3>1. Least(Vacant(dir)) \in Slots /\ Least(FreeTracks(fat)) \in Tracks
      BY <2>3, FreeTrack, VacantSlot DEF OpenNew
    <3> QED BY <1>1, <2>3, <3>1, ContentOpenNewAt
  <2> QED BY <2>1, <2>2, <2>3
<1>4. CASE WriteCall \/ ReadCall
  <2>1. /\ UNCHANGED <<fat, dir, size, fcb, data>> /\ call.op = "idle"
        /\ call'.op \in {"idle", "read", "write"}
    BY <1>4 DEF WriteCall, Write, ReadCall, Read, Ready, Begin
  <2> QED BY <1>1, <1>2, <2>1, FilesAlone
<1>5. ~SeekCall /\ ~PowerFail
  BY DEF SeekCall, Seek, Ready, PowerFail
<1>6. CASE CloseCall
  <2>1. PICK h \in Fds : CloseReader(h) \/ CloseWriter(h)
    BY <1>6 DEF CloseCall
  <2>2. CASE CloseReader(h)
    <3>1. /\ UNCHANGED <<fat, dir, size>> /\ fcb' = [fcb EXCEPT ![h] = NULL] /\ data' = data
          /\ h \notin Writers /\ call.op = "idle" /\ call' = call
      BY <2>2 DEF CloseReader, Ready, Writers
    <3>2. Writers' = Writers \ {h}
      BY <1>1, <3>1, WritersLess DEF MountedInv, SavedInv
    <3> QED BY <1>1, <1>2, <3>1, <3>2, FilesReader
  <2>3. CASE CloseWriter(h)
    <3>1. h \in Writers
      BY <2>3 DEF CloseWriter, IsOpen, Writers
    <3>2. fcb[h].dir_index \in Slots
      BY <1>1, <3>1, Parts
    <3> QED BY <1>1, <2>3, <3>2, ContentClose
  <2> QED BY <2>1, <2>2, <2>3
<1>7. CASE RemoveCall
  <2>1. PICK n \in Names : Remove(n)
    BY <1>7 DEF RemoveCall
  <2>2. Least(find_file(dir, n)) \in Slots
    BY <2>1, FoundSlot DEF Remove
  <2> QED BY <1>1, <2>1, <2>2, ContentRemoveAt
<1>8. CASE RenameCall
  <2>1. PICK old \in Names, new \in Names : Rename(old, new)
    BY <1>8 DEF RenameCall
  <2>2. Least(find_file(dir, old)) \in Slots
    BY <2>1, FoundSlot DEF Rename
  <2>3. data' = data
    BY <2>1 DEF Rename
  <2> QED BY <1>1, <1>2, <2>1, <2>2, <2>3, FilesRenameAt
<1>9. CASE Remount
  <2>1. UNCHANGED <<fat, dir, fcb>>
    BY <1>1, <1>9, RemountQuiet DEF MountedInv
  <2>2. UNCHANGED <<size, call, data>> /\ call.op = "idle"
    BY <1>9 DEF Remount, Mount, Ready
  <2> QED BY <1>1, <1>2, <2>1, <2>2, FilesAlone
<1>10. CASE nkcfs_getfree \/ UNCHANGED vars
  <2>1. UNCHANGED <<fat, dir, size, fcb, call, data>>
    BY <1>10 DEF nkcfs_getfree, vars
  <2>2. Writers' = Writers /\ Busy' = Busy
    BY <2>1 DEF Writers, Busy
  <2> QED BY <1>1, <1>2, <2>1, <2>2, FilesQuiet
<1>11. CASE WriteStep
  <2>1. call.fd \in Writers
    BY <1>1, <1>11 DEF WriteStep, MountedInv, SavedInv, CallsPlain
  <2>2. call.fd \in Fds /\ fcb[call.fd].dir_index \in Slots
    BY <1>1, <2>1, Parts
  <2> QED BY <1>1, <1>11, <2>2, ContentWriteAt
<1>12. CASE ReadStep
  <2>1. data' = data
    BY <1>12 DEF ReadStep
  <2> QED BY <1>1, <1>2, <1>12, <2>1, FilesRead
<1>13. CASE CloseDir
  <2>1. data' = data
    BY <1>13 DEF CloseDir, SaveDir
  <2> QED BY <1>1, <1>2, <1>13, <2>1, FilesCloseDir
<1>14. CASE CloseFat \/ RemoveFat \/ RemoveDir \/ RenameDir
  <2>1. data' = data
    BY <1>14 DEF CloseFat, RemoveFat, RemoveDir, RenameDir, SaveFat, SaveDir
  <2> QED BY <1>1, <1>2, <1>14, <2>1, FilesSave
<1> QED
  BY <1>3, <1>4, <1>5, <1>6, <1>7, <1>8, <1>9, <1>10, <1>11, <1>12, <1>13, <1>14
     DEF Next, Client, Driver

LEMMA ContentInit == Init => ContentInv
<1> SUFFICES ASSUME Init PROVE ContentInv
  OBVIOUS
<1>1. \A h \in Fds : fcb[h] = NULL
  BY DEF Init
<1>2. Busy = {}
  BY <1>1 DEF Writers, Busy
<1>3. Valid(dir) = {}
  BY DEF Init, Valid, FREE, VALID
<1> QED BY <1>2, <1>3, FilesInit DEF ContentInv

\* As long as no handle that writes stands behind the last track of its file on
\* a full volume, every file that nobody has open for writing holds, cluster for
\* cluster along its chain, what was written to it: however tracks are taken,
\* given back and taken again, no flush stores a cluster in a wrong place or over
\* a cluster of another file, and no close counts a cluster that is not stored
\* (no call seeks, the medium takes every write).
THEOREM FilesKeepTheirContents ==
  ASSUME PlainModes, "seek" \notin Calls, "powerfail" \notin Calls
  PROVE  Spec /\ []NeverFull => []FilesHoldWhatWasWritten
<1>1. ContentInv /\ NeverFull /\ [Next]_vars => ContentInv'
  BY ContentNext
<1>2. ASSUME ContentInv, NEW s \in Valid(dir), Settled(s), size[s] > 0
      PROVE  FileHolds(s)
  <2>1. FilesInv /\ MountedInv
    BY <1>2 DEF ContentInv, FilesInv
  <2>2. \A h \in Writers : IsOpen(h) /\ h \in Fds /\ "WRIT" \in fcb[h].flags
    BY <2>1 DEF MountedInv, SavedInv, Writers, Plain, IsOpen
  <2>3. ~Unfinished(s)
    BY <1>2, <2>2 DEF Unfinished, Busy, Settled
  <2>4. size[s] # 0
    BY <1>2, <2>1, Parts
  <2> QED BY <1>2, <2>3, <2>4 DEF ContentInv
<1>3. ASSUME NEW s \in Valid(dir), FileHolds(s), NEW k \in 0 .. dir[s].length - 1
      PROVE  LET t == KthTrack(fat, dir[s].starttrack)[k \div TRACK_SIZE] IN
             Linked(t) /\ data[(t * TRACK_SIZE) + (k % TRACK_SIZE)] = <<s, k>>
  <2> DEFINE p == KthTrack(fat, dir[s].starttrack)
  <2>1. Linked(p[k \div TRACK_SIZE]) /\ data[Place(p, k)] = <<s, k>>
    BY <1>3 DEF FileHolds, HoldsIn
  <2> QED BY <2>1 DEF Place, Cell
<1>4. ContentInv => FilesHoldWhatWasWritten
  BY <1>2, <1>3 DEF FilesHoldWhatWasWritten
<1> QED BY <1>1, <1>4, ContentInit, PTL DEF Spec

-----------------------------------------------------------------------------
(* Where a handle that reads stands *)

\* On the cluster it has in its buffer, of a file of n clusters whose tracks p
\* counts.
ReadsAt(f, p, n) ==
  /\ f.lasttrack = 0 /\ f.eof = FALSE
  /\ f.length = n /\ f.crcluster < n
  /\ f.crcluster \div TRACK_SIZE \in 0 .. FAT_ENTRIES
  /\ f.curtrack = p[f.crcluster \div TRACK_SIZE] /\ f.curcluster = f.crcluster % TRACK_SIZE
  /\ f.pos = (f.crcluster * CLUSTERSIZE) + f.crpos
  /\ f.buf = <<f.dir_index, f.crcluster>>

\* The next cluster is fetched from where the file has it.
LEMMA NextReads ==
  ASSUME NEW ft, NEW dt, NEW t \in Tracks, NEW f \in jdfcb, NEW n \in Nat,
         HoldsIn(KthTrack(ft, t), dt, f.dir_index, n),
         ReadsAt(f, KthTrack(ft, t), n), f.crcluster + 1 # n, f.crpos = CLUSTERSIZE
  PROVE  LET r == nkcfs_read_cluster(ft, dt, f, TRUE) IN
         r.res = "ok" /\ ReadsAt(r.fcb, KthTrack(ft, t), n)
<1> DEFINE p == KthTrack(ft, t)
           c == f.crcluster
           j == c \div TRACK_SIZE
           i == c % TRACK_SIZE
           next == get_next_track(ft, f)
           x == NextCluster(ft, f)
           g == x.fcb
           r == nkcfs_read_cluster(ft, dt, f, TRUE)
<1>1. /\ c \in Nat /\ c + 1 \in 0 .. n - 1 /\ TRACK_SIZE \in Nat \ {0} /\ CLUSTERSIZE \in Nat
      /\ f.curtrack \in Tracks /\ f.lasttrack = 0 /\ f.eof = FALSE
      /\ f.curcluster \in Nat /\ f.pos \in Int /\ f.crpos \in Int
      /\ j \in 0 .. FAT_ENTRIES /\ f.curtrack = p[j] /\ f.curcluster = i
      /\ f.pos = (c * CLUSTERSIZE) + CLUSTERSIZE /\ f.length = n
  BY FcbFields, Geometry DEF ReadsAt
<1>2. j \in Nat /\ i \in 0 .. TRACK_SIZE - 1 /\ c = (j * TRACK_SIZE) + i
  BY <1>1, Division
<1>3. f.curtrack # f.lasttrack
  BY <1>1, Geometry DEF Tracks
<1>4. /\ (c + 1) \div TRACK_SIZE \in 0 .. FAT_ENTRIES
      /\ Linked(p[(c + 1) \div TRACK_SIZE])
      /\ dt[Place(p, c + 1)] = <<f.dir_index, c + 1>>
  BY <1>1 DEF HoldsIn
<1> HIDE DEF i, j, p
<1>5. /\ i = TRACK_SIZE - 1 => (c + 1) \div TRACK_SIZE = j + 1 /\ (c + 1) % TRACK_SIZE = 0
      /\ i # TRACK_SIZE - 1 => (c + 1) \div TRACK_SIZE = j /\ (c + 1) % TRACK_SIZE = i + 1
  <2> HIDE DEF c
  <2>1. CASE i = TRACK_SIZE - 1
    <3>1. (j + 1) * TRACK_SIZE = (j * TRACK_SIZE) + TRACK_SIZE /\ j * TRACK_SIZE \in Nat
      BY <1>1, <1>2
    <3>2. c + 1 = ((j + 1) * TRACK_SIZE) + 0
      BY <1>1, <1>2, <2>1, <3>1
    <3>3. 0 \in 0 .. TRACK_SIZE - 1 /\ j + 1 \in Nat
      BY <1>1, <1>2
    <3>4. (((j + 1) * TRACK_SIZE) + 0) \div TRACK_SIZE = j + 1
          /\ (((j + 1) * TRACK_SIZE) + 0) % TRACK_SIZE = 0
      BY <1>1, <3>3, Remainder
    <3> QED BY <2>1, <3>2, <3>4
  <2>2. CASE i # TRACK_SIZE - 1
    <3>1. i + 1 \in 0 .. TRACK_SIZE - 1
      BY <1>1, <1>2, <2>2
    <3>2. c + 1 = (j * TRACK_SIZE) + (i + 1)
      <4>1. j * TRACK_SIZE \in Nat
        BY <1>1, <1>2
      <4> QED BY <1>1, <1>2, <4>1
    <3> DEFINE k == i + 1
    <3> HIDE DEF k
    <3>3. k \in 0 .. TRACK_SIZE - 1
      BY <3>1 DEF k
    <3>4. ((j * TRACK_SIZE) + k) \div TRACK_SIZE = j /\ ((j * TRACK_SIZE) + k) % TRACK_SIZE = k
      <4>1. j \in Nat /\ TRACK_SIZE \in Nat \ {0}
        BY <1>1, <1>2
      <4> QED BY ONLY <3>3, <4>1, Remainder
    <3>5. i + 1 = k
      BY DEF k
    <3>6. (c + 1) \div TRACK_SIZE = j /\ (c + 1) % TRACK_SIZE = k
      BY ONLY <3>2, <3>4, <3>5
    <3> QED BY ONLY <2>2, <3>5, <3>6
  <2> QED BY <2>1, <2>2
<1>6. i = TRACK_SIZE - 1 => next = p[j + 1] /\ Linked(next)
  <2>1. ASSUME i = TRACK_SIZE - 1 PROVE next = p[j + 1] /\ Linked(next)
    <3>1. j + 1 \in 0 .. FAT_ENTRIES /\ j + 1 # 0 /\ (j + 1) - 1 = j /\ Linked(p[j + 1])
      BY <1>2, <1>4, <1>5, <2>1
    <3>2. p[j + 1] = After(ft, p[j])
      BY <3>1, KthTrackPoint DEF p
    <3> QED BY <1>1, <3>1, <3>2 DEF After, Linked, get_next_track
  <2> QED BY <2>1
<1>7. /\ x.res = "ok" /\ g \in jdfcb
      /\ g.curtrack = p[(c + 1) \div TRACK_SIZE] /\ g.curcluster = (c + 1) % TRACK_SIZE
      /\ g.crcluster = c + 1 /\ g.crpos = 0
      /\ g.lasttrack = 0 /\ g.eof = FALSE /\ g.length = n /\ g.pos = f.pos
      /\ g.dir_index = f.dir_index
  <2>1. CASE i = TRACK_SIZE - 1
    <3> DEFINE y == [f EXCEPT !.curtrack = next, !.curcluster = 0, !.crcluster = @ + 1, !.crpos = 0]
    <3>1. x = [res |-> "ok", fcb |-> y]
      BY <1>1, <1>3, <1>6, <2>1 DEF NextCluster
    <3>2. /\ y.curtrack = next /\ y.curcluster = 0 /\ y.crcluster = c + 1 /\ y.crpos = 0
          /\ y.lasttrack = f.lasttrack /\ y.eof = f.eof /\ y.length = f.length /\ y.pos = f.pos
          /\ y.dir_index = f.dir_index
      BY DEF jdfcb
    <3>3. g \in jdfcb
      BY NextTyped
    <3> HIDE DEF x, y
    <3>4. x.res = "ok" /\ x.fcb = y
      BY <3>1
    <3> QED BY <1>1, <1>5, <1>6, <2>1, <3>2, <3>3, <3>4
  <2>2. CASE i # TRACK_SIZE - 1
    <3> DEFINE y == [f EXCEPT !.curcluster = @ + 1, !.crcluster = @ + 1, !.crpos = 0]
    <3>1. x = [res |-> "ok", fcb |-> y]
      BY <1>1, <1>3, <2>2 DEF NextCluster
    <3>2. /\ y.curtrack = f.curtrack /\ y.curcluster = f.curcluster + 1 /\ y.crcluster = c + 1
          /\ y.crpos = 0 /\ y.lasttrack = f.lasttrack /\ y.eof = f.eof /\ y.length = f.length
          /\ y.pos = f.pos /\ y.dir_index = f.dir_index
      BY DEF jdfcb
    <3>3. g \in jdfcb
      BY NextTyped
    <3> HIDE DEF x, y
    <3>4. x.res = "ok" /\ x.fcb = y
      BY <3>1
    <3> QED BY <1>1, <1>5, <2>2, <3>2, <3>3, <3>4
  <2> QED BY <2>1, <2>2
<1>8. Held(dt, g) = <<f.dir_index, c + 1>>
  <2>1. Address(g) = Place(p, c + 1)
    BY <1>7 DEF Address, Place, Cell
  <2>2. (c + 1) % TRACK_SIZE \in 0 .. TRACK_SIZE - 1
    <3>1. c + 1 \in Nat
      BY <1>1
    <3> QED BY <1>1, <3>1, Division
  <2>3. Place(p, c + 1) \in Addrs
    BY <1>4, <2>2, CellOnMedium DEF Place, Linked
  <2> QED BY <1>4, <2>1, <2>3 DEF Held
<1>9. r = [res |-> "ok", fcb |-> [g EXCEPT !.buf = Held(dt, g)]]
  <2> HIDE DEF x
  <2>1. x.res = "ok"
    BY <1>7
  <2> QED BY <2>1 DEF nkcfs_read_cluster, x
<1> HIDE DEF x
<1> DEFINE b == Held(dt, g)
           z == [g EXCEPT !.buf = b]
<1>10. /\ z.lasttrack = g.lasttrack /\ z.eof = g.eof /\ z.length = g.length
       /\ z.crcluster = g.crcluster /\ z.curtrack = g.curtrack /\ z.curcluster = g.curcluster
       /\ z.pos = g.pos /\ z.crpos = g.crpos /\ z.dir_index = g.dir_index /\ z.buf = b
  BY <1>7 DEF jdfcb
<1>11. r.res = "ok" /\ r.fcb = z
  <2> HIDE DEF r, z
  <2> QED BY <1>9 DEF z
<1> HIDE DEF z, r, b, g
<1>12. f.pos = ((c + 1) * CLUSTERSIZE) + 0
  <2>1. (c + 1) * CLUSTERSIZE = (c * CLUSTERSIZE) + CLUSTERSIZE /\ (c + 1) * CLUSTERSIZE \in Nat
    <3>1. c \in Nat /\ CLUSTERSIZE \in Nat
      BY <1>1
    <3> HIDE DEF c
    <3> QED BY <3>1
  <2> QED BY <1>1, <2>1
<1>13. ReadsAt(z, p, n)
  <2>1. c + 1 < n
    BY <1>1
  <2>2. z.buf = <<z.dir_index, z.crcluster>>
    BY <1>7, <1>8, <1>10 DEF b
  <2>3. z.pos = (z.crcluster * CLUSTERSIZE) + z.crpos
    BY <1>7, <1>10, <1>12
  <2> HIDE DEF c
  <2> QED BY <1>4, <1>7, <1>10, <2>1, <2>2, <2>3 DEF ReadsAt
<1> QED BY <1>11, <1>13 DEF r, p

-----------------------------------------------------------------------------
(* Every handle that reads *)

Readers == {h \in Fds : fcb[h] # NULL /\ fcb[h].omode = "E4"}

\* Opened while the file was being made: on the one cluster the entry had.
Early(f) == f.length = 1 /\ f.endcluster = 65535 /\ f.crcluster = 0

ReaderStands(h) ==
  LET e == dir[fcb[h].dir_index] IN ReadsAt(fcb[h], KthTrack(fat, e.starttrack), e.length)

ReaderFine(h) ==
  \/ Early(fcb[h])
  \/ /\ ~Unfinished(fcb[h].dir_index)
     /\ size[fcb[h].dir_index] = 0 \/ ReaderStands(h)

\* The entry of a file that was closed is not one an early reader saw.
Finished(s) == dir[s].length > 0 /\ (dir[s].length = 1 => dir[s].endcluster = 1)

ReadersInv ==
  /\ ContentInv
  /\ \A h \in Busy : dir[fcb[h].dir_index].endcluster = 0
  /\ \A s \in Valid(dir) : Unfinished(s) \/ Finished(s)
  /\ \A h \in Readers : ReaderFine(h)

\* The entries of the other files stay as they are.
EntriesKept(S) == \A s \in Valid(dir') \ S : dir'[s].endcluster = dir[s].endcluster

\* A step keeps the invariant if it does so for the files it touches.
LEMMA ReadersKept ==
  ASSUME ReadersInv, ContentInv', NEW S \in SUBSET Slots, Touches(S), EntriesKept(S),
         \A h \in Busy' : fcb'[h].dir_index \in S => dir'[fcb'[h].dir_index].endcluster = 0,
         \A s \in S \cap Valid(dir') : Unfinished(s)' \/ Finished(s)',
         \A h \in Readers' : \/ h \in Readers /\ fcb'[h] = fcb[h] /\ fcb[h].dir_index \notin S
                             \/ ReaderFine(h)'
  PROVE  ReadersInv'
<1>1. ContentInv /\ MountedInv /\ MountedInv' /\ AllAnchored(fat', dir', fcb')
  <2>1. ContentInv /\ MountedInv /\ MountedInv' /\ VolumeInv'
    BY DEF ReadersInv, ContentInv, FilesInv, MountedInv
  <2>2. AllAnchored(fat', dir', fcb')
    BY <2>1 DEF VolumeInv, HandlesAnchored, IsOpen, AllAnchored
  <2> QED BY <2>1, <2>2
<1>2. \A s \in Valid(dir') \ S : /\ Untouched(s) /\ dir'[s].endcluster = dir[s].endcluster
                                 /\ Unfinished(s) <=> Unfinished(s)'
  BY DEF Touches, EntriesKept, Unfinished
<1>3. ASSUME NEW h \in Busy', fcb'[h].dir_index \notin S
      PROVE  dir'[fcb'[h].dir_index].endcluster = 0
  <2>1. h \in Busy /\ fcb'[h] = fcb[h]
    BY <1>3 DEF Touches
  <2>2. fcb'[h].dir_index \in Valid(dir') \ S
    BY <1>1, <1>3, WritersAfter DEF Busy
  <2> QED BY <1>2, <2>1, <2>2 DEF ReadersInv
<1>4. ASSUME NEW s \in Valid(dir') \ S
      PROVE  Unfinished(s)' \/ Finished(s)'
  <2>1. s \in Valid(dir) /\ Untouched(s)
    BY <1>2 DEF Untouched
  <2>2. Unfinished(s) \/ Finished(s)
    BY <2>1 DEF ReadersInv
  <2> QED BY <1>2, <2>1, <2>2 DEF Finished, Untouched
<1>5. ASSUME NEW h \in Readers', h \in Readers, fcb'[h] = fcb[h],
             NEW s, s = fcb[h].dir_index, s \notin S
      PROVE  ReaderFine(h)'
  <2>1. ReaderFine(h) /\ h \in Fds /\ fcb[h] # NULL
    BY <1>5 DEF ReadersInv, Readers
  <2>2. s \in Valid(dir') \ S
    <3>1. fcb[h] \in jdfcb /\ Anchored(fat', dir', fcb'[h])
      BY <1>1, <1>5, <2>1, Parts DEF AllAnchored
    <3> QED BY <1>5, <3>1, FcbFields DEF Anchored, Valid
  <2>3. s \in Valid(dir) /\ Untouched(s) /\ (Unfinished(s) <=> Unfinished(s)')
    BY <1>2, <2>2 DEF Untouched
  <2>4. PICK t \in Tracks : t = dir[s].starttrack
    BY <1>1, <2>3, Parts
  <2>5. /\ dir'[s].starttrack = t /\ dir'[s].length = dir[s].length /\ size'[s] = size[s]
        /\ \A u \in Chain(fat, t) : fat'[u] = fat[u]
    BY <2>3, <2>4 DEF Untouched
  <2>6. ReadsAt(fcb[h], KthTrack(fat, t), dir[s].length) => ReadsAt(fcb[h], KthTrack(fat', t), dir[s].length)
    <3> DEFINE k == fcb[h].crcluster \div TRACK_SIZE
    <3>1. k \in 0 .. FAT_ENTRIES => KthTrack(fat', t)[k] = KthTrack(fat, t)[k]
      BY <2>5, KthSame
    <3> QED BY <3>1 DEF ReadsAt
  <2>7. ReaderFine(h) <=>
          \/ Early(fcb[h])
          \/ /\ ~Unfinished(s)
             /\ size[s] = 0 \/ ReadsAt(fcb[h], KthTrack(fat, t), dir[s].length)
    BY <1>5, <2>4 DEF ReaderFine, ReaderStands
  <2>8. ReaderFine(h)' <=>
          \/ Early(fcb'[h])
          \/ /\ ~\E k \in Busy' : fcb'[k].dir_index = fcb'[h].dir_index
             /\ \/ size'[fcb'[h].dir_index] = 0
                \/ ReadsAt(fcb'[h], KthTrack(fat', dir'[fcb'[h].dir_index].starttrack),
                           dir'[fcb'[h].dir_index].length)
    BY DEF ReaderFine, ReaderStands, Unfinished
  <2>9. Unfinished(s)' <=> \E k \in Busy' : fcb'[k].dir_index = s
    BY DEF Unfinished
  <2> QED BY <1>5, <2>1, <2>3, <2>5, <2>6, <2>7, <2>8, <2>9
<1>6. \A h \in Readers' : ReaderFine(h)'
  BY <1>5
<1> QED BY <1>3, <1>4, <1>6 DEF ReadersInv

\* Files and handles left alone; handles may be let go.
LEMMA ReadersQuiet ==
  ASSUME ReadersInv, ContentInv', Touches({}), EntriesKept({}),
         \A h \in Readers' : h \in Readers /\ fcb'[h] = fcb[h]
  PROVE  ReadersInv'
<1>1. {} \in SUBSET Slots
  OBVIOUS
<1> QED BY <1>1, ReadersKept

\* A handle that reads a file while it is written saw the entry it began with.
LEMMA ReadersOf ==
  ASSUME ReadersInv, NEW h \in Readers, Unfinished(fcb[h].dir_index)
  PROVE  Early(fcb[h])
BY DEF ReadersInv, ReaderFine

\* What the handle copies is in its buffer, and it stays where it is.
LEMMA ReadAdvances ==
  ASSUME NEW f \in jdfcb, NEW c \in Nat
  PROVE  LET n == Smaller(c, CLUSTERSIZE - f.crpos)
             g == [f EXCEPT !.crpos = @ + n, !.pos = @ + n]
         IN /\ g \in jdfcb /\ g.dir_index = f.dir_index /\ g.length = f.length
            /\ g.crcluster = f.crcluster
            /\ n # c => g.crpos = CLUSTERSIZE
            /\ Early(f) => Early(g)
            /\ \A p, m : ReadsAt(f, p, m) => ReadsAt(g, p, m)
<1> DEFINE n == Smaller(c, CLUSTERSIZE - f.crpos)
           g == [f EXCEPT !.crpos = @ + n, !.pos = @ + n]
<1>1. n \in Int /\ f.crpos \in Int /\ f.pos \in Int /\ CLUSTERSIZE \in Nat
      /\ (n # c => f.crpos + n = CLUSTERSIZE)
  BY FcbFields, Geometry DEF Smaller
<1> HIDE DEF n
<1>2. g \in jdfcb
  <2>1. f.crpos + n \in Int /\ f.pos + n \in Int
    BY <1>1
  <2>2. \A p, q \in Int : [f EXCEPT !.crpos = p, !.pos = q] \in jdfcb
    BY DEF jdfcb
  <2> QED BY <2>1, <2>2, Zenon
<1>3. /\ g.crpos = f.crpos + n /\ g.pos = f.pos + n /\ g.dir_index = f.dir_index
      /\ g.length = f.length /\ g.crcluster = f.crcluster /\ g.endcluster = f.endcluster
      /\ g.lasttrack = f.lasttrack /\ g.eof = f.eof /\ g.curtrack = f.curtrack
      /\ g.curcluster = f.curcluster /\ g.buf = f.buf
  BY DEF jdfcb
<1> HIDE DEF g
<1>4. Early(f) => Early(g)
  BY <1>3 DEF Early
<1>5. ASSUME NEW p, NEW m, ReadsAt(f, p, m) PROVE ReadsAt(g, p, m)
  <2> DEFINE y == f.crcluster * CLUSTERSIZE
  <2>1. y \in Int
    BY <1>1, FcbFields
  <2>2. f.pos = y + f.crpos
    BY <1>5 DEF ReadsAt
  <2> HIDE DEF y
  <2>3. f.pos + n = y + (f.crpos + n)
    BY <1>1, <2>1, <2>2
  <2>4. g.pos = (g.crcluster * CLUSTERSIZE) + g.crpos
    BY <1>3, <2>3 DEF y
  <2> QED BY <1>3, <1>5, <2>4 DEF ReadsAt
<1> QED BY <1>1, <1>2, <1>3, <1>4, <1>5 DEF g, n

\* The handles that read while another one writes saw the entry it began with.
LEMMA ReadersAside ==
  ASSUME ReadersInv, NEW h \in Busy, NEW s, s = fcb[h].dir_index, h \notin Readers',
         \A k \in Fds : k # h => fcb'[k] = fcb[k]
  PROVE  \A r \in Readers' : \/ r \in Readers /\ fcb'[r] = fcb[r] /\ fcb[r].dir_index \notin {s}
                             \/ ReaderFine(r)'
<1>1. ASSUME NEW r \in Readers', fcb[r].dir_index = s PROVE ReaderFine(r)'
  <2>1. r \in Readers /\ fcb'[r] = fcb[r]
    BY DEF Readers
  <2>2. Unfinished(fcb[r].dir_index)
    BY <1>1 DEF Unfinished
  <2>3. Early(fcb'[r])
    BY <2>1, <2>2, ReadersOf
  <2>4. Early(fcb[r])' <=> Early(fcb'[r])
    BY DEF Early
  <2> QED BY <2>3, <2>4 DEF ReaderFine
<1>2. \A r \in Readers' : r \in Readers /\ fcb'[r] = fcb[r]
  BY DEF Readers
<1> QED BY <1>1, <1>2

LEMMA ReadersWriteAt ==
  ASSUME ReadersInv, ContentInv', PlainModes, WriteStep,
         NEW h \in Fds, h = call.fd, NEW s \in Slots, s = fcb[h].dir_index
  PROVE  ReadersInv'
<1>1. /\ call.op = "write" /\ h \in Writers /\ call.count > 0 /\ dir' = dir
      /\ ContentInv /\ FilesInv /\ MountedInv /\ FilesInv' /\ MountedInv'
  BY DEF WriteStep, ReadersInv, ContentInv, FilesInv, MountedInv, SavedInv, CallsPlain
<1>2. Touches({s})
  BY <1>1, FilesWriteAt
<1>3. Writers' = Writers
  BY <1>1, WriteStepMode, WritersKept DEF MountedInv, SavedInv
<1>4. call'.op \in {"idle", "write"}
  <2>1. PICK c, b : call' = Idle \/ call' = [call EXCEPT !.count = c, !.bp = b]
    BY DEF WriteStep
  <2> QED BY <1>1, <2>1, RoundKeepsCall, Parts
<1>5. h \in Busy /\ h \in Busy' /\ h \notin Readers'
  BY <1>1, <1>3, <1>4 DEF Busy, Writers, Readers
<1>6. PICK g : fcb' = [fcb EXCEPT ![h] = g]
  BY DEF WriteStep
<1>7. \A k \in Fds : k # h => fcb'[k] = fcb[k]
  BY <1>1, <1>6, Parts
<1>8. \A r \in Readers' : \/ r \in Readers /\ fcb'[r] = fcb[r] /\ fcb[r].dir_index \notin {s}
                          \/ ReaderFine(r)'
  BY <1>5, <1>7, ReadersAside
<1>9. fcb'[h].dir_index = s
  <2> DEFINE w == Flushed(fcb[h], TRUE)
             n == Smaller(call.count, CLUSTERSIZE - w.fcb.crpos)
  <2>1. Media = {TRUE}
    BY DEF PlainModes, Media
  <2>2. fcb' = [fcb EXCEPT ![h] = Fill(w.fcb, n)]
    BY <2>1 DEF WriteStep
  <2>3. fcb[h] \in jdfcb /\ fat \in FatType
    BY <1>1, Parts
  <2>4. w.fcb \in jdfcb /\ w.fcb.dir_index = s
    BY <2>3, FlushedTyped, FlushedMoves DEF Moves, Follows, Extends, Same
  <2> HIDE DEF w, n
  <2>5. Fill(w.fcb, n).dir_index = s
    BY <2>4, FillStays DEF Stays, Same
  <2> QED BY <1>1, <2>2, <2>5, Parts
<1>10. Unfinished(s)'
  BY <1>5, <1>9 DEF Unfinished
<1>11. dir'[s].endcluster = 0 /\ EntriesKept({s}) /\ {s} \in SUBSET Slots
  BY <1>1, <1>5 DEF ReadersInv, EntriesKept
<1> QED BY <1>2, <1>8, <1>10, <1>11, ReadersKept

LEMMA ReadersClose ==
  ASSUME ReadersInv, ContentInv', PlainModes, NEW h \in Fds, CloseWriter(h),
         NEW s \in Slots, s = fcb[h].dir_index
  PROVE  ReadersInv'
<1> DEFINE f == fcb[h]
           k == OneIndexed(f)
           e == EnterTrack(fat, k)
           v == nkcfs_write_cluster(fat, k, TRUE)
           w == IF k.crpos = 0 THEN [fat |-> fat, fcb |-> k, written |-> {}] ELSE v
           m == Cardinality(Chain(fat, f.starttrack))
<1>1. /\ call.op = "idle" /\ h \in Writers /\ h \in Busy
      /\ FilesInv /\ MountedInv /\ FilesInv' /\ MountedInv'
  BY DEF CloseWriter, Ready, IsOpen, Writers, Busy, FilesInv, ContentInv, ReadersInv
<1>2. fcb' = [fcb EXCEPT ![h] = w.fcb] /\ dir' = update_dir(dir, w.fcb) /\ call' = Begin("closeFat", h, 0)
  <2>1. Media = {TRUE}
    BY DEF PlainModes, Media
  <2> QED BY <2>1 DEF CloseWriter
<1>3. Touches({s})
  BY <1>1, FilesClose
<1>4. /\ f \in jdfcb /\ fat \in FatType /\ f.starttrack \in Tracks
      /\ fcb \in [Fds -> jdfcb \cup {NULL}] /\ dir \in [Slots -> jddir]
  <2>1. f \in jdfcb /\ fat \in FatType /\ fcb \in [Fds -> jdfcb \cup {NULL}] /\ dir \in [Slots -> jddir]
    BY <1>1, Parts
  <2> HIDE DEF f
  <2> QED BY <2>1, FcbFields
<1>5. m \in Nat \ {0} /\ Stands(f, m) /\ Begun(f) /\ fat[f.curtrack].successor = NONE
  <2>1. WriterStands(h)
    BY <1>1 DEF FilesInv
  <2>2. m \in Nat \ {0}
    BY <1>4, ChainBound
  <2> QED BY <2>1, <2>2 DEF WriterStands, Tracks_
<1>6. SamePlace(f, w.fcb)
  BY <1>4, <1>5, CloseStands
<1>7. ASSUME f.length = 1 PROVE w.fcb.endcluster = 1
  <2>1. f.curcluster = 0 /\ f.endcluster = 0
    <3>1. /\ f.curcluster \in Nat /\ f.endcluster = f.curcluster /\ TRACK_SIZE \in Nat \ {0}
          /\ 1 + TRACK_SIZE = (TRACK_SIZE * m) + f.curcluster + 1
      BY <1>4, <1>5, <1>7, FcbFields, Geometry DEF Stands
    <3> HIDE DEF m
    <3>2. TRACK_SIZE * m >= TRACK_SIZE /\ TRACK_SIZE * m \in Nat
      BY <1>5, <3>1
    <3> QED BY <3>1, <3>2
  <2>2. k = [f EXCEPT !.endcluster = 1]
    BY <2>1 DEF OneIndexed
  <2> HIDE DEF k
  <2>3. k.endcluster = 1 /\ k.curcluster = 0
    BY <1>4, <2>1, <2>2 DEF jdfcb
  <2>4. e.fcb = k
    BY <2>3, Geometry DEF EnterTrack
  <2>5. v.fcb = e.fcb
    BY DEF nkcfs_write_cluster
  <2>6. w.fcb = k
    BY <2>4, <2>5
  <2> QED BY <2>3, <2>6
<1> HIDE DEF w
<1>8. /\ dir'[s].length = f.length /\ dir'[s].endcluster = w.fcb.endcluster
      /\ \A r \in Slots : r # s => dir'[r] = dir[r]
  BY <1>2, <1>4, <1>6 DEF update_dir, SamePlace
<1>9. Finished(s)'
  <2>1. f.length > 0
    BY <1>5 DEF Stands
  <2> HIDE DEF f
  <2> QED BY <1>7, <1>8, <2>1 DEF Finished
<1>10. fcb'[h] = w.fcb /\ \A j \in Fds : j # h => fcb'[j] = fcb[j]
  BY <1>2, <1>4
<1>11. h \notin Readers'
  <2>1. Writers' = Writers
    BY <1>1, CloseWriterMode, WritersKept DEF MountedInv, SavedInv
  <2> QED BY <1>1, <2>1 DEF Readers, Writers
<1>12. \A r \in Readers' : \/ r \in Readers /\ fcb'[r] = fcb[r] /\ fcb[r].dir_index \notin {s}
                           \/ ReaderFine(r)'
  BY <1>1, <1>10, <1>11, ReadersAside
<1>13. \A j \in Busy' : fcb'[j].dir_index # s
  <2>1. ASSUME NEW j \in Busy' PROVE fcb'[j].dir_index # s
    <3>1. j \in Fds /\ j # h /\ fcb'[j] = fcb[j] /\ fcb[j] # NULL /\ fcb[j].omode = "E5"
      BY <1>2, <1>10 DEF Busy, Writers, Begin
    <3> QED BY <1>1, <3>1 DEF FilesInv, OneWriterEach, Writers
  <2> QED BY <2>1
<1>14. EntriesKept({s}) /\ {s} \in SUBSET Slots
  BY <1>8 DEF EntriesKept, Valid
<1> QED BY <1>3, <1>9, <1>12, <1>13, <1>14, ReadersKept

LEMMA ReadersOpenNewAt ==
  ASSUME ReadersInv, ContentInv', PlainModes, NEW h \in Fds, NEW n \in Names,
         NEW flags \in OpenFlags, OpenNew(h, n, flags),
         NEW s \in Slots, s = Least(Vacant(dir)), NEW t \in Tracks, t = Least(FreeTracks(fat))
  PROVE  ReadersInv'
<1> DEFINE g == CreatedFcb(n, flags, t, s)
<1>1. /\ FilesInv /\ MountedInv /\ MountedInv' /\ ContentInv
      /\ fcb' = [fcb EXCEPT ![h] = g] /\ dir' = update_dir(dir, g)
      /\ call.op = "idle" /\ call' = call
  BY DEF OpenNew, Ready, FilesInv, ContentInv, ReadersInv
<1>2. Touches({s})
  BY <1>1, FilesOpenNewAt
<1>3. g.dir_index = s /\ g.endcluster = 0 /\ g.omode = "E5"
  BY DEF CreatedFcb
<1>4. g # NULL
  BY FreeTrack, VacantSlot, CreatedTyped, NullAssumption, ClientAssumption DEF OpenNew
<1> HIDE DEF g
<1>5. fcb'[h] = g /\ \A k \in Fds : k # h => fcb'[k] = fcb[k]
  BY <1>1, Parts
<1>6. h \in Busy' /\ h \notin Readers'
  BY <1>1, <1>3, <1>4, <1>5 DEF Busy, Writers, Readers
<1>7. dir'[s].endcluster = 0 /\ \A r \in Slots : r # s => dir'[r] = dir[r]
  BY <1>1, <1>3, Parts DEF update_dir
<1>8. dir[s].id # VALID
  BY VacantSlot DEF OpenNew
<1>9. \A r \in Readers' : r \in Readers /\ fcb'[r] = fcb[r] /\ fcb[r].dir_index \notin {s}
  BY <1>1, <1>5, <1>6, <1>8, Parts DEF Readers, AllAnchored, Anchored
<1>10. Unfinished(s)'
  BY <1>3, <1>5, <1>6 DEF Unfinished
<1>11. EntriesKept({s}) /\ {s} \in SUBSET Slots
  BY <1>7 DEF EntriesKept, Valid
<1> QED BY <1>2, <1>7, <1>9, <1>10, <1>11, ReadersKept

LEMMA ReadersRemoveAt ==
  ASSUME ReadersInv, ContentInv', NEW n \in Names, Remove(n),
         NEW s \in Slots, s = Least(find_file(dir, n))
  PROVE  ReadersInv'
<1>1. /\ FilesInv /\ MountedInv /\ MountedInv'
      /\ fcb' = fcb /\ dir' = [dir EXCEPT ![s].id = NONE]
  BY DEF Remove, FilesInv, ContentInv, ReadersInv
<1>2. Touches({s})
  BY <1>1, FilesRemoveAt
<1>3. dir'[s].id # VALID /\ \A r \in Slots : r # s => dir'[r] = dir[r]
  BY <1>1, Parts DEF jddir, VALID, NONE
<1>4. AllAnchored(fat', dir', fcb')
  BY <1>1 DEF MountedInv, VolumeInv, HandlesAnchored, IsOpen, AllAnchored
<1>5. \A h \in Fds : fcb'[h] # NULL => fcb'[h].dir_index # s
  BY <1>3, <1>4 DEF AllAnchored, Anchored
<1>6. \A r \in Readers' : r \in Readers /\ fcb'[r] = fcb[r] /\ fcb[r].dir_index \notin {s}
  BY <1>1, <1>5 DEF Readers
<1>7. \A j \in Busy' : fcb'[j].dir_index # s
  BY <1>5 DEF Busy, Writers
<1>8. {s} \cap Valid(dir') = {} /\ EntriesKept({s}) /\ {s} \in SUBSET Slots
  BY <1>3 DEF EntriesKept, Valid
<1> QED BY <1>2, <1>6, <1>7, <1>8, ReadersKept

\* A handle opened to read a file that holds its clusters has the first one.
LEMMA OpenedReads ==
  ASSUME TypeOK, NEW n \in Names, NEW flags \in OpenFlags, flags = {"READ"},
         NEW s \in Valid(dir), NEW t \in Tracks, t = dir[s].starttrack,
         dir[s].length > 0, HoldsIn(KthTrack(fat, t), data, s, dir[s].length)
  PROVE  ReadsAt(OpenedFcb(n, flags, s, TRUE), KthTrack(fat, t), dir[s].length)
<1> DEFINE e == dir[s]
           p == KthTrack(fat, t)
           f == [name |-> n, flags |-> flags, dir_index |-> s,
                 starttrack |-> e.starttrack,
                 endcluster |-> (e.endcluster + 65535) % 65536,
                 length |-> e.length, curtrack |-> e.starttrack, curcluster |-> 0,
                 lasttrack |-> 0, crpos |-> 0, crcluster |-> 0, pos |-> 0,
                 omode |-> IF "READ" \in Granted(n, flags) THEN "E4" ELSE "E5",
                 eof |-> FALSE, buf |-> NULL]
           b == Held(data, f)
           g == [f EXCEPT !.buf = b]
<1>1. OpenedFcb(n, flags, s, TRUE) = g
  BY DEF OpenedFcb
<1>2. f.curtrack = t /\ f.curcluster = 0
  OBVIOUS
<1>3. Address(f) = Cell(t, 0)
  BY <1>2 DEF Address, Cell
<1> HIDE DEF b
<1>4. /\ g.dir_index = s /\ g.length = e.length /\ g.curtrack = t /\ g.curcluster = 0
      /\ g.lasttrack = 0 /\ g.crpos = 0 /\ g.crcluster = 0 /\ g.pos = 0 /\ g.eof = FALSE
      /\ g.buf = b
  OBVIOUS
<1>5. TRACK_SIZE \in Nat \ {0} /\ CLUSTERSIZE \in Nat /\ FAT_ENTRIES \in Nat /\ e.length \in Nat
  <2>1. e \in jddir
    BY DEF TypeOK, Valid
  <2> HIDE DEF e
  <2> QED BY <2>1, Geometry DEF jddir
<1>6. 0 \div TRACK_SIZE = 0 /\ 0 % TRACK_SIZE = 0
  BY <1>5
<1>7. p[0] = t
  BY KthTrackPoint, Geometry
<1>8. data[Cell(t, 0)] = <<s, 0>>
  <2>1. 0 \in 0 .. e.length - 1
    BY <1>5
  <2>2. data[Place(p, 0)] = <<s, 0>>
    BY <2>1 DEF HoldsIn
  <2> QED BY <1>6, <1>7, <2>2 DEF Place
<1>9. Cell(t, 0) \in Addrs
  <2>1. 0 \in 0 .. TRACK_SIZE - 1
    BY <1>5
  <2> QED BY <2>1, CellOnMedium
<1>10. b = <<s, 0>>
  <2> HIDE DEF f
  <2> QED BY <1>3, <1>8, <1>9 DEF b, Held
<1> HIDE DEF g, p, e
<1>11. ReadsAt(g, p, e.length)
  <2>1. 0 * CLUSTERSIZE = 0
    BY <1>5
  <2>2. e.length > 0
    BY DEF e
  <2> QED BY <1>4, <1>5, <1>6, <1>7, <1>10, <2>1, <2>2 DEF ReadsAt
<1> QED BY <1>1, <1>11 DEF p, e

LEMMA ReadersOpenExisting ==
  ASSUME ReadersInv, ContentInv', PlainModes, NEW h \in Fds, NEW n \in Names,
         NEW flags \in OpenFlags, OpenExisting(h, n, flags)
  PROVE  ReadersInv'
<1>1. /\ FilesInv /\ ContentInv /\ MountedInv /\ MountedInv'
      /\ call.op = "idle" /\ call' = call /\ fcb[h] = NULL /\ UNCHANGED <<fat, dir, size, data>>
      /\ flags = {"READ"} /\ find_file(dir, n) # {}
  BY DEF OpenExisting, Ready, IsOpen, PlainModes, FilesInv, ContentInv, ReadersInv
<1>2. PICK s \in Slots : s = Least(find_file(dir, n)) /\ s \in Valid(dir)
  BY <1>1, FoundSlot
<1> DEFINE g == OpenedFcb(n, flags, s, TRUE)
<1>3. fcb' = [fcb EXCEPT ![h] = g]
  <2>1. Media = {TRUE}
    BY DEF PlainModes, Media
  <2> QED BY <1>2, <2>1 DEF OpenExisting
<1>4. Touches({})
  BY <1>1, FilesOpenExisting
<1>5. /\ g.omode = "E4" /\ g.dir_index = s /\ g.crcluster = 0 /\ g.length = dir[s].length
      /\ g.endcluster = (dir[s].endcluster + 65535) % 65536
  BY <1>1 DEF OpenedFcb, Granted
<1>6. PICK t \in Tracks : t = dir[s].starttrack
  BY <1>1, <1>2, Parts
<1>7. \A k \in Busy : fcb'[k] = fcb[k]
  BY <1>1, <1>3, Parts DEF Busy, Writers
<1>8. Busy' = Busy
  <2>1. fcb'[h] = g
    BY <1>1, <1>3, Parts
  <2>2. \A k \in Fds : k \in Writers' <=> k \in Writers
    <3> HIDE DEF g
    <3> QED BY <1>1, <1>3, <1>5, <2>1, Parts DEF Writers
  <2>3. Writers' = Writers
    BY <2>2 DEF Writers
  <2> QED BY <1>1, <2>3 DEF Busy
<1>9. Unfinished(s) => Early(g)
  <2>1. ASSUME Unfinished(s) PROVE Early(g)
    <3>1. PICK k \in Busy : fcb[k].dir_index = s
      BY <2>1 DEF Unfinished
    <3>2. dir[s].length = 1 /\ dir[s].endcluster = 0
      BY <1>1, <3>1 DEF ReadersInv, FilesInv, WriterStands
    <3>3. (0 + 65535) % 65536 = 65535
      OBVIOUS
    <3> HIDE DEF g
    <3> QED BY <1>5, <3>2, <3>3 DEF Early
  <2> QED BY <2>1
<1>10. ~Unfinished(s) => size[s] = 0 \/ ReadsAt(g, KthTrack(fat, t), dir[s].length)
  <2>1. ASSUME ~Unfinished(s), size[s] # 0 PROVE ReadsAt(g, KthTrack(fat, t), dir[s].length)
    <3>1. HoldsIn(KthTrack(fat, t), data, s, dir[s].length)
      BY <1>1, <1>2, <1>6, <2>1 DEF ContentInv, FileHolds
    <3>2. dir[s].length > 0
      BY <1>2, <2>1 DEF ReadersInv, Finished
    <3> QED BY <1>1, <1>2, <1>6, <3>1, <3>2, OpenedReads, Parts
  <2> QED BY <2>1
<1> HIDE DEF g
<1>11. fcb'[h] = g /\ \A k \in Fds : k # h => fcb'[k] = fcb[k]
  BY <1>1, <1>3, Parts
<1>12. ReaderFine(h)'
  <2>1. ReaderFine(h)' <=>
          \/ Early(fcb'[h])
          \/ /\ ~\E k \in Busy' : fcb'[k].dir_index = fcb'[h].dir_index
             /\ \/ size'[fcb'[h].dir_index] = 0
                \/ ReadsAt(fcb'[h], KthTrack(fat', dir'[fcb'[h].dir_index].starttrack),
                           dir'[fcb'[h].dir_index].length)
    BY DEF ReaderFine, ReaderStands, Unfinished
  <2>2. Unfinished(s) <=> \E k \in Busy' : fcb'[k].dir_index = s
    BY <1>7, <1>8 DEF Unfinished
  <2> QED BY <1>1, <1>5, <1>6, <1>9, <1>10, <1>11, <2>1, <2>2
<1>13. \A k \in Readers' : \/ k \in Readers /\ fcb'[k] = fcb[k] /\ fcb[k].dir_index \notin {}
                           \/ ReaderFine(k)'
  BY <1>11, <1>12 DEF Readers
<1>14. EntriesKept({}) /\ {} \in SUBSET Slots
  BY <1>1 DEF EntriesKept
<1> QED BY <1>4, <1>13, <1>14, ReadersKept

\* A move of a handle that reads, onto a file control block that is fine.
LEMMA ReadersMove ==
  ASSUME ReadersInv, ContentInv', Touches({}), UNCHANGED <<fat, dir, size>>, Busy' = Busy,
         NEW h \in Fds, h \in Readers, NEW g \in jdfcb, fcb' = [fcb EXCEPT ![h] = g],
         NEW s, s = fcb[h].dir_index, g.dir_index = s,
         \/ Early(g)
         \/ ~Unfinished(s) /\ (size[s] = 0 \/ ReadsAt(g, KthTrack(fat, dir[s].starttrack), dir[s].length))
  PROVE  ReadersInv'
<1>1. MountedInv /\ h \notin Busy
  BY DEF ReadersInv, ContentInv, FilesInv, Readers, Busy, Writers
<1>2. fcb'[h] = g /\ \A k \in Fds : k # h => fcb'[k] = fcb[k]
  BY <1>1, Parts
<1>3. Unfinished(s) <=> \E k \in Busy' : fcb'[k].dir_index = s
  BY <1>1, <1>2 DEF Unfinished, Busy, Writers
<1>4. ReaderFine(h)' <=>
        \/ Early(fcb'[h])
        \/ /\ ~\E k \in Busy' : fcb'[k].dir_index = fcb'[h].dir_index
           /\ \/ size'[fcb'[h].dir_index] = 0
              \/ ReadsAt(fcb'[h], KthTrack(fat', dir'[fcb'[h].dir_index].starttrack),
                         dir'[fcb'[h].dir_index].length)
  BY DEF ReaderFine, ReaderStands, Unfinished
<1>5. ReaderFine(h)'
  BY <1>2, <1>3, <1>4
<1>6. \A k \in Readers' : \/ k \in Readers /\ fcb'[k] = fcb[k] /\ fcb[k].dir_index \notin {}
                          \/ ReaderFine(k)'
  BY <1>2, <1>5 DEF Readers
<1>7. EntriesKept({}) /\ {} \in SUBSET Slots
  BY DEF EntriesKept
<1> QED BY <1>6, <1>7, ReadersKept

LEMMA ReadersRead ==
  ASSUME ReadersInv, ContentInv', PlainModes, ReadStep
  PROVE  ReadersInv'
<1> DEFINE h == call.fd
           n == Smaller(call.count, CLUSTERSIZE - fcb[h].crpos)
           f == [fcb[h] EXCEPT !.crpos = @ + n, !.pos = @ + n]
           r == nkcfs_read_cluster(fat, data, f, TRUE)
           x == [r.fcb EXCEPT !.eof = TRUE]
           s == fcb[h].dir_index
           t == dir[s].starttrack
           Fine(g) == \/ Early(g)
                      \/ ~Unfinished(s) /\ (size[s] = 0 \/ ReadsAt(g, KthTrack(fat, t), dir[s].length))
<1>1. /\ FilesInv /\ ContentInv /\ MountedInv /\ FilesInv' /\ MountedInv' /\ TypeOK /\ SavedInv
      /\ call.op = "read" /\ h \in Fds \ Writers /\ UNCHANGED <<fat, dir, size, data>>
      /\ call.count \in Nat /\ fcb[h] \in jdfcb /\ data \in [Addrs -> Tags \cup {NULL}]
  BY DEF ReadStep, ReadersInv, ContentInv, FilesInv, MountedInv, SavedInv, CallsPlain, TypeOK, OnHandle
<1>2. h \in Readers
  BY <1>1, FcbFields, NullAssumption DEF Readers, Writers
<1>3. Touches({})
  BY <1>1, FilesRead
<1>4. Busy' = Busy
  <2>1. Writers' = Writers
    BY <1>1, ReadStepMode, WritersKept DEF SavedInv
  <2>2. call'.op \in {"idle", "read"}
    <3>1. PICK c, b : call' = Idle \/ call' = [call EXCEPT !.count = c, !.bp = b]
      BY DEF ReadStep, ReadEnds
    <3>2. call = [op |-> call.op, fd |-> call.fd, count |-> call.count, bp |-> call.bp]
      BY <1>1 DEF TypeOK
    <3>3. CASE call' = [call EXCEPT !.count = c, !.bp = b]
      <4>1. call' = [op |-> call.op, fd |-> call.fd, count |-> c, bp |-> b]
        BY <3>2, <3>3
      <4> QED BY <1>1, <4>1
    <3> QED BY <3>1, <3>3 DEF Idle
  <2> QED BY <1>1, <2>1, <2>2 DEF Busy
<1>5. /\ f \in jdfcb /\ f.dir_index = s /\ f.length = fcb[h].length
      /\ f.crcluster = fcb[h].crcluster
      /\ n # call.count => f.crpos = CLUSTERSIZE
      /\ Early(fcb[h]) => Early(f)
      /\ \A p, m : ReadsAt(fcb[h], p, m) => ReadsAt(f, p, m)
  BY <1>1, ReadAdvances
<1>6. Fine(f)
  <2>1. \/ Early(fcb[h])
        \/ ~Unfinished(s) /\ (size[s] = 0 \/ ReadsAt(fcb[h], KthTrack(fat, t), dir[s].length))
    BY <1>2 DEF ReadersInv, ReaderFine, ReaderStands
  <2> HIDE DEF f
  <2> QED BY <1>5, <2>1
<1>7. \/ fcb' = [fcb EXCEPT ![h] = f]
      \/ /\ n # call.count /\ f.crcluster + 1 # f.length
         /\ \/ r.res = "ok" /\ fcb' = [fcb EXCEPT ![h] = r.fcb]
            \/ r.res # "ok" /\ fcb' = [fcb EXCEPT ![h] = x]
            \/ r.res # "ok" /\ fcb' = [fcb EXCEPT ![h] = r.fcb]
  <2>1. Media = {TRUE}
    BY DEF PlainModes, Media
  <2> QED BY <2>1 DEF ReadStep, ReadEnds
<1>8. s \in Valid(dir) /\ s \in Slots /\ t \in Tracks /\ dir[s].length \in Nat
  <2>1. AllAnchored(fat, dir, fcb) /\ dir \in [Slots -> jddir] /\ s \in Slots
    BY <1>1, Parts, FcbFields
  <2>2. s \in Valid(dir)
    BY <1>1, <1>2, <2>1 DEF AllAnchored, Anchored, Valid, Readers
  <2> QED BY <1>1, <2>1, <2>2, Parts DEF jddir
<1> HIDE DEF n, f
<1>9. /\ r.fcb \in jdfcb /\ x \in jdfcb /\ r.fcb.dir_index = s /\ x.dir_index = s
  <2>1. r.fcb \in jdfcb /\ r.fcb.dir_index = s
    <3>1. r.fcb \in jdfcb
      BY <1>1, <1>5, ReadClusterTyped
    <3>2. Moves(fat, f, fat, r.fcb)
      BY <1>5, ReadMoves
    <3> HIDE DEF r
    <3>3. r.fcb.dir_index = f.dir_index
      BY <3>2 DEF Moves, Follows, Extends, Same
    <3> QED BY <1>5, <3>1, <3>3
  <2> HIDE DEF r
  <2> QED BY <2>1 DEF jdfcb
<1>10. ASSUME n # call.count, f.crcluster + 1 # f.length
       PROVE  \/ r.res = "ok" /\ Fine(r.fcb)
              \/ Fine(r.fcb) /\ Fine(x)
  <2>1. ~Early(f)
    BY <1>10 DEF Early
  <2>2. ~Unfinished(s)
    BY <1>6, <2>1
  <2>3. CASE size[s] = 0
    BY <2>2, <2>3
  <2>4. ASSUME size[s] # 0 PROVE r.res = "ok" /\ Fine(r.fcb)
    <3>1. ReadsAt(f, KthTrack(fat, t), dir[s].length)
      BY <1>6, <2>1, <2>4
    <3>2. HoldsIn(KthTrack(fat, t), data, s, dir[s].length)
      BY <1>1, <1>8, <2>2, <2>4 DEF ContentInv, FileHolds
    <3>3. f.crcluster + 1 # dir[s].length /\ f.crpos = CLUSTERSIZE
      BY <1>5, <1>10, <3>1 DEF ReadsAt
    <3>4. r.res = "ok" /\ ReadsAt(r.fcb, KthTrack(fat, t), dir[s].length)
      BY <1>5, <1>8, <3>1, <3>2, <3>3, NextReads
    <3> QED BY <2>2, <3>4
  <2> QED BY <2>3, <2>4
<1> HIDE DEF r, x
<1>11. ASSUME NEW g \in jdfcb, fcb' = [fcb EXCEPT ![h] = g], g.dir_index = s, Fine(g)
       PROVE  ReadersInv'
  <2> HIDE DEF h, t
  <2>1. fcb' = [fcb EXCEPT ![h] = g]
    BY <1>11
  <2> QED BY <1>1, <1>2, <1>3, <1>4, <1>11, <2>1, ReadersMove DEF t
<1> HIDE DEF Fine, s, h
<1> QED BY <1>5, <1>6, <1>7, <1>9, <1>10, <1>11

LEMMA ReadersNext ==
  ASSUME ReadersInv, NeverFull, [Next]_vars, PlainModes,
         "seek" \notin Calls, "powerfail" \notin Calls
  PROVE  ReadersInv'
<1>1. /\ ContentInv /\ ContentInv' /\ FilesInv /\ MountedInv /\ MountedInv'
  <2>1. ContentInv /\ ContentInv'
    BY ContentNext DEF ReadersInv
  <2> QED BY <2>1 DEF ContentInv, FilesInv
<1>2. dir' = dir => EntriesKept({})
  BY DEF EntriesKept
<1>3. fcb' = fcb => \A h \in Readers' : h \in Readers /\ fcb'[h] = fcb[h]
  BY DEF Readers
<1>4. Touches({}) /\ dir' = dir /\ fcb' = fcb => ReadersInv'
  BY <1>1, <1>2, <1>3, ReadersQuiet
<1>5. ASSUME NEW h, fcb' = [fcb EXCEPT ![h] = NULL]
      PROVE  \A k \in Readers' : k \in Readers /\ fcb'[k] = fcb[k]
  BY <1>1, <1>5, Parts DEF Readers
<1>6. CASE OpenCall
  <2>1. PICK h \in Fds, n \in Names, flags \in OpenFlags :
          OpenExisting(h, n, flags) \/ OpenNew(h, n, flags)
    BY <1>6 DEF OpenCall
  <2>2. CASE OpenNew(h, n, flags)
    <3>1. Least(Vacant(dir)) \in Slots /\ Least(FreeTracks(fat)) \in Tracks
      BY <2>2, FreeTrack, VacantSlot DEF OpenNew
    <3> QED BY <1>1, <2>2, <3>1, ReadersOpenNewAt
  <2> QED BY <1>1, <2>1, <2>2, ReadersOpenExisting
<1>7. CASE WriteCall \/ ReadCall
  <2>1. /\ UNCHANGED <<fat, dir, size, fcb>> /\ call.op = "idle"
        /\ call'.op \in {"idle", "read", "write"}
    BY <1>7 DEF WriteCall, Write, ReadCall, Read, Ready, Begin
  <2> QED BY <1>1, <1>4, <2>1, FilesAlone
<1>8. ~SeekCall /\ ~PowerFail
  BY DEF SeekCall, Seek, Ready, PowerFail
<1>9. CASE CloseCall
  <2>1. PICK h \in Fds : CloseReader(h) \/ CloseWriter(h)
    BY <1>9 DEF CloseCall
  <2>2. CASE CloseReader(h)
    <3>1. /\ UNCHANGED <<fat, dir, size>> /\ fcb' = [fcb EXCEPT ![h] = NULL]
          /\ h \notin Writers /\ call.op = "idle" /\ call' = call
      BY <2>2 DEF CloseReader, Ready, Writers
    <3>2. Writers' = Writers \ {h}
      BY <1>1, <3>1, WritersLess DEF MountedInv, SavedInv
    <3>3. Touches({})
      BY <1>1, <3>1, <3>2, FilesReader
    <3>4. \A k \in Readers' : k \in Readers /\ fcb'[k] = fcb[k]
      BY <1>5, <3>1
    <3> QED BY <1>1, <1>2, <3>1, <3>3, <3>4, ReadersQuiet
  <2>3. CASE CloseWriter(h)
    <3>1. h \in Writers
      BY <2>3 DEF CloseWriter, IsOpen, Writers
    <3>2. fcb[h].dir_index \in Slots
      BY <1>1, <3>1, Parts
    <3> QED BY <1>1, <2>3, <3>2, ReadersClose
  <2> QED BY <2>1, <2>2, <2>3
<1>10. CASE RemoveCall
  <2>1. PICK n \in Names : Remove(n)
    BY <1>10 DEF RemoveCall
  <2>2. Least(find_file(dir, n)) \in Slots
    BY <2>1, FoundSlot DEF Remove
  <2> QED BY <1>1, <2>1, <2>2, ReadersRemoveAt
<1>11. CASE RenameCall
  <2>1. PICK old \in Names, new \in Names : Rename(old, new)
    BY <1>11 DEF RenameCall
  <2>2. Least(find_file(dir, old)) \in Slots
    BY <2>1, FoundSlot DEF Rename
  <2>3. Touches({})
    BY <1>1, <2>1, <2>2, FilesRenameAt
  <2>4. EntriesKept({}) /\ fcb' = fcb
    <3>1. dir' = [dir EXCEPT ![Least(find_file(dir, old))].name = new] /\ fcb' = fcb
      BY <2>1 DEF Rename
    <3>2. \A s \in Slots : dir'[s].endcluster = dir[s].endcluster
      BY <1>1, <3>1, Parts DEF jddir
    <3> QED BY <3>1, <3>2 DEF EntriesKept, Valid
  <2> QED BY <1>1, <1>3, <2>3, <2>4, ReadersQuiet
<1>12. CASE Remount
  <2>1. UNCHANGED <<fat, dir, fcb>>
    BY <1>1, <1>12, RemountQuiet DEF MountedInv
  <2>2. UNCHANGED <<size, call>> /\ call.op = "idle"
    BY <1>12 DEF Remount, Mount, Ready
  <2> QED BY <1>1, <1>4, <2>1, <2>2, FilesAlone
<1>13. CASE nkcfs_getfree \/ UNCHANGED vars
  <2>1. UNCHANGED <<fat, dir, size, fcb, call>>
    BY <1>13 DEF nkcfs_getfree, vars
  <2>2. Writers' = Writers /\ Busy' = Busy
    BY <2>1 DEF Writers, Busy
  <2> QED BY <1>1, <1>4, <2>1, <2>2, FilesQuiet
<1>14. CASE WriteStep
  <2>1. call.fd \in Writers
    BY <1>1, <1>14 DEF WriteStep, MountedInv, SavedInv, CallsPlain
  <2>2. call.fd \in Fds /\ fcb[call.fd].dir_index \in Slots
    BY <1>1, <2>1, Parts
  <2> QED BY <1>1, <1>14, <2>2, ReadersWriteAt
<1>15. CASE ReadStep
  BY <1>1, <1>15, ReadersRead
<1>16. CASE CloseDir
  <2>1. Touches({})
    BY <1>1, <1>16, FilesCloseDir
  <2>2. dir' = dir /\ fcb' = [fcb EXCEPT ![call.fd] = NULL]
    BY <1>16 DEF CloseDir, SaveDir
  <2>3. \A k \in Readers' : k \in Readers /\ fcb'[k] = fcb[k]
    BY <1>5, <2>2
  <2> QED BY <1>1, <1>2, <2>1, <2>2, <2>3, ReadersQuiet
<1>17. CASE CloseFat \/ RemoveFat \/ RemoveDir \/ RenameDir
  <2>1. dir' = dir /\ fcb' = fcb
    BY <1>17 DEF CloseFat, RemoveFat, RemoveDir, RenameDir, SaveFat, SaveDir
  <2> QED BY <1>1, <1>4, <1>17, <2>1, FilesSave
<1> QED
  BY <1>6, <1>7, <1>8, <1>9, <1>10, <1>11, <1>12, <1>13, <1>14, <1>15, <1>16, <1>17
     DEF Next, Client, Driver

LEMMA ReadersInit == Init => ReadersInv
<1> SUFFICES ASSUME Init PROVE ReadersInv
  OBVIOUS
<1>1. \A h \in Fds : fcb[h] = NULL
  BY DEF Init
<1>2. Busy = {} /\ Readers = {}
  BY <1>1 DEF Writers, Busy, Readers
<1>3. Valid(dir) = {}
  BY DEF Init, Valid, FREE, VALID
<1> QED BY <1>2, <1>3, ContentInit DEF ReadersInv

\* As long as no handle that writes stands behind the last track of its file on
\* a full volume, a handle that reads a finished file as the directory has it
\* holds in its buffer the cluster its position is in, whatever other clients
\* open, write, close, remove and rename between its reads: the next read copies
\* what belongs there (no call seeks, the medium takes every write).
THEOREM ReadersHoldTheirPosition ==
  ASSUME PlainModes, "seek" \notin Calls, "powerfail" \notin Calls
  PROVE  Spec /\ []NeverFull => []BufferHoldsPosition
<1>1. ReadersInv /\ NeverFull /\ [Next]_vars => ReadersInv'
  BY ReadersNext
<1>2. ASSUME ReadersInv, NEW h \in Fds, IsOpen(h), fcb[h].omode = "E4",
             Settled(fcb[h].dir_index), size[fcb[h].dir_index] > 0, Current(h)
      PROVE  fcb[h].buf = <<fcb[h].dir_index, (fcb[h].pos - fcb[h].crpos) \div CLUSTERSIZE>>
  <2> DEFINE f == fcb[h]
             s == f.dir_index
             c == f.crcluster
  <2>1. FilesInv /\ MountedInv /\ h \in Readers
    BY <1>2 DEF ReadersInv, ContentInv, FilesInv, Readers, IsOpen
  <2>2. \A k \in Writers : IsOpen(k) /\ k \in Fds /\ "WRIT" \in fcb[k].flags
    BY <2>1 DEF FilesInv, MountedInv, SavedInv, Writers, Plain, IsOpen
  <2>3. ~Unfinished(s)
    BY <1>2, <2>2 DEF Unfinished, Busy, Settled
  <2>4. /\ f \in jdfcb /\ s \in Valid(dir) /\ dir[s] \in jddir /\ c \in Nat
        /\ f.pos \in Int /\ f.crpos \in Int /\ size[s] # 0
    <3>1. f \in jdfcb /\ f # NULL /\ Anchored(fat, dir, f)
      BY <1>2, <2>1, Parts DEF IsOpen, AllAnchored
    <3> QED BY <1>2, <2>1, <3>1, FcbFields, Parts DEF Anchored, Valid
  <2>5. Finished(s)
    BY <1>2, <2>3, <2>4 DEF ReadersInv
  <2>6. ~Early(f)
    <3>1. (1 + 65535) % 65536 # 65535
      OBVIOUS
    <3>2. f.length = dir[s].length /\ f.endcluster = (dir[s].endcluster + 65535) % 65536
      BY <1>2 DEF Current
    <3> HIDE DEF f, s
    <3> QED BY <2>5, <3>1, <3>2 DEF Early, Finished
  <2>7. ReaderStands(h)
    BY <1>2, <2>1, <2>3, <2>4, <2>6 DEF ReadersInv, ReaderFine
  <2>8. f.pos = (c * CLUSTERSIZE) + f.crpos /\ f.buf = <<s, c>>
    BY <2>7 DEF ReaderStands, ReadsAt
  <2> HIDE DEF f, s, c
  <2>9. CLUSTERSIZE \in Nat \ {0} /\ 0 \in 0 .. CLUSTERSIZE - 1
    BY Geometry
  <2>10. c * CLUSTERSIZE \in Nat
    BY <2>4, <2>9
  <2>11. f.pos - f.crpos = (c * CLUSTERSIZE) + 0
    BY <2>4, <2>8, <2>10
  <2>12. ((c * CLUSTERSIZE) + 0) \div CLUSTERSIZE = c
    BY <2>4, <2>9, Remainder
  <2> QED BY <2>8, <2>11, <2>12 DEF f, s
<1>3. ReadersInv => BufferHoldsPosition
  BY <1>2 DEF BufferHoldsPosition
<1> QED BY <1>1, <1>3, ReadersInit, PTL DEF Spec

-----------------------------------------------------------------------------
(* A volume with room for what its clients write *)

\* All slots may hold files of t tracks, and no file is longer.
Room(t) ==
  /\ t \in Nat \ {0}
  /\ MaxPos <= t * (TRACK_SIZE * CLUSTERSIZE)
  /\ NUM_JD_DIR_ENTRIES * t < FAT_ENTRIES

\* n sets of at most t elements have at most n * t of them: were there a least
\* number of sets that have more, those before and the last would not.
LEMMA UnionBound ==
  ASSUME NEW n \in Nat, NEW t \in Nat, NEW c,
         \A i \in 0 .. n - 1 : IsFiniteSet(c[i]) /\ Cardinality(c[i]) <= t
  PROVE  LET u == UNION {c[i] : i \in 0 .. n - 1} IN
         IsFiniteSet(u) /\ Cardinality(u) <= n * t
<1> DEFINE U(k) == UNION {c[i] : i \in 0 .. k - 1}
           Few(k) == IsFiniteSet(U(k)) /\ Cardinality(U(k)) <= k * t
           Bad == {k \in 0 .. n : ~Few(k)}
<1>1. Few(0)
  <2>1. U(0) = {}
    OBVIOUS
  <2>2. 0 * t = 0
    OBVIOUS
  <2> HIDE DEF U
  <2> QED BY <2>1, <2>2, FS_EmptySet
<1>2. ASSUME NEW k \in 0 .. n - 1, Few(k) PROVE Few(k + 1)
  <2>1. U(k + 1) = U(k) \cup c[k]
    <3>1. 0 .. (k + 1) - 1 = (0 .. k - 1) \cup {k}
      OBVIOUS
    <3> QED BY <3>1
  <2>2. IsFiniteSet(c[k]) /\ Cardinality(c[k]) <= t /\ Cardinality(c[k]) \in Nat
    BY FS_CardinalityType
  <2>3. (k + 1) * t = (k * t) + t /\ k * t \in Nat
    OBVIOUS
  <2> HIDE DEF U
  <2>4. IsFiniteSet(U(k) \cup c[k]) /\ Cardinality(U(k) \cup c[k]) <= Cardinality(U(k)) + Cardinality(c[k])
    <3>1. IsFiniteSet(U(k) \cap c[k]) /\ Cardinality(U(k) \cap c[k]) \in Nat
      BY <1>2, FS_Subset, FS_CardinalityType
    <3>2. Cardinality(U(k)) \in Nat
      BY <1>2, FS_CardinalityType
    <3> DEFINE x == Cardinality(U(k))
               y == Cardinality(c[k])
               z == Cardinality(U(k) \cap c[k])
    <3>3. IsFiniteSet(U(k) \cup c[k]) /\ Cardinality(U(k) \cup c[k]) = x + y - z
      BY <1>2, <2>2, FS_Union
    <3>4. x \in Nat /\ y \in Nat /\ z \in Nat
      BY <2>2, <3>1, <3>2
    <3> HIDE DEF x, y, z
    <3>5. x + y - z <= x + y
      BY <3>4
    <3> QED BY <3>3, <3>5 DEF x, y
  <2>5. Cardinality(U(k)) \in Nat /\ Cardinality(U(k) \cup c[k]) \in Nat
    BY <1>2, <2>4, FS_CardinalityType
  <2> DEFINE x == Cardinality(U(k))
             y == Cardinality(c[k])
             z == Cardinality(U(k) \cup c[k])
             l == k * t
  <2>6. x \in Nat /\ y \in Nat /\ z \in Nat /\ l \in Nat /\ t \in Nat
        /\ x <= l /\ y <= t /\ z <= x + y
    BY <1>2, <2>2, <2>3, <2>4, <2>5
  <2> HIDE DEF x, y, z, l
  <2>7. z <= l + t
    BY <2>6
  <2> QED BY <2>1, <2>3, <2>4, <2>7 DEF z, l
<1> HIDE DEF Few
<1>3. ASSUME Bad # {} PROVE FALSE
  <2> DEFINE b == Least(Bad)
  <2>1. Bad \in SUBSET Nat
    OBVIOUS
  <2>2. b \in Bad /\ \A k \in Bad : b <= k
    BY <1>3, <2>1, LeastFirst
  <2> HIDE DEF b
  <2>3. b \in 0 .. n /\ ~Few(b) /\ b # 0
    BY <1>1, <2>2
  <2>4. b - 1 \in 0 .. n - 1 /\ ~(b <= b - 1) /\ (b - 1) + 1 = b
    BY <2>3
  <2>5. Few(b - 1)
    BY <2>2, <2>4
  <2> QED BY <1>2, <2>3, <2>4, <2>5
<1>4. Few(n)
  BY <1>3
<1> QED BY <1>4 DEF Few

\* A writer within the bound has at most t tracks, and fewer when it stands
\* behind the last.
LEMMA FewTracks ==
  ASSUME NEW t, Room(t), NEW f \in jdfcb, NEW m \in Nat \ {0}, Stands(f, m), Begun(f),
         f.pos <= MaxPos
  PROVE  m <= t /\ (f.curcluster = TRACK_SIZE => m + 1 <= t)
<1> DEFINE q == f.length - 1
           a == TRACK_SIZE * t
           b == q * CLUSTERSIZE
<1>1. /\ t \in Nat \ {0} /\ f.pos \in Int /\ MaxPos \in Nat
      /\ TRACK_SIZE \in Nat \ {0} /\ CLUSTERSIZE \in Nat \ {0}
      /\ f.curcluster \in 0 .. TRACK_SIZE /\ f.crpos \in 0 .. CLUSTERSIZE
      /\ f.length \in Nat \ {0} /\ f.pos <= MaxPos
  BY FcbFields, Geometry, ClientAssumption DEF Room, Stands
<1>2. q \in Nat /\ b \in Nat /\ a \in Nat \ {0}
  BY <1>1
<1>3. f.pos = b + f.crpos
  <2>1. f.length * CLUSTERSIZE = b + CLUSTERSIZE
    BY <1>1
  <2>2. f.pos + CLUSTERSIZE = (f.length * CLUSTERSIZE) + f.crpos
    BY DEF Stands
  <2> DEFINE y == f.length * CLUSTERSIZE
  <2>3. y = b + CLUSTERSIZE /\ f.pos + CLUSTERSIZE = y + f.crpos
    BY <2>1, <2>2
  <2> HIDE DEF b, y
  <2> QED BY <1>1, <1>2, <2>3
<1>4. q + TRACK_SIZE = (TRACK_SIZE * m) + f.curcluster
  <2>1. f.length + TRACK_SIZE = (TRACK_SIZE * m) + f.curcluster + 1
    BY DEF Stands
  <2>2. TRACK_SIZE * m \in Nat
    BY <1>1
  <2> QED BY <1>1, <2>1, <2>2
<1>5. q < a
  <2> SUFFICES ASSUME q >= a PROVE FALSE
    BY <1>2
  <2>1. f.crpos > 0
    <3>1. f.length # 1
      BY <1>1, <1>2
    <3> QED BY <1>1, <3>1 DEF Begun
  <2>2. b >= a * CLUSTERSIZE
    <3> HIDE DEF q, a
    <3>1. \A x, y \in Nat : x >= y => x * CLUSTERSIZE >= y * CLUSTERSIZE
      BY <1>1
    <3> QED BY <1>2, <3>1
  <2>3. a * CLUSTERSIZE = t * (TRACK_SIZE * CLUSTERSIZE)
    BY <1>1
  <2>4. MaxPos <= a * CLUSTERSIZE /\ a * CLUSTERSIZE \in Nat
    BY <1>1, <1>2, <2>3 DEF Room
  <2> HIDE DEF a, b, q
  <2> QED BY <1>1, <1>2, <1>3, <2>1, <2>2, <2>4
<1> HIDE DEF q, b
<1>6. \A x \in Nat \ {0} : TRACK_SIZE * x < a + TRACK_SIZE => x <= t
  <2>1. ASSUME NEW x \in Nat \ {0}, ~(x <= t) PROVE TRACK_SIZE * x >= a + TRACK_SIZE
    <3>1. x >= t + 1
      BY <1>1, <2>1
    <3>2. \A y, z \in Nat : y >= z => TRACK_SIZE * y >= TRACK_SIZE * z
      BY <1>1
    <3>3. TRACK_SIZE * x >= TRACK_SIZE * (t + 1)
      BY <1>1, <3>1, <3>2
    <3>4. TRACK_SIZE * (t + 1) = a + TRACK_SIZE
      BY <1>1
    <3> QED BY <3>3, <3>4
  <2>2. \A x \in Nat \ {0} : TRACK_SIZE * x \in Nat
    BY <1>1
  <2> HIDE DEF a
  <2> QED BY <1>1, <1>2, <2>1, <2>2
<1> DEFINE c == TRACK_SIZE * m
<1>7. c \in Nat /\ TRACK_SIZE * (m + 1) = c + TRACK_SIZE
  BY <1>1
<1> HIDE DEF a
<1>8. m <= t
  <2>1. c < a + TRACK_SIZE
    <3> HIDE DEF c
    <3> QED BY <1>1, <1>2, <1>4, <1>5, <1>7 DEF c
  <2> QED BY <1>6, <2>1
<1>9. ASSUME f.curcluster = TRACK_SIZE PROVE m + 1 <= t
  <2>1. c + TRACK_SIZE < a + TRACK_SIZE
    <3> HIDE DEF c
    <3> QED BY <1>1, <1>2, <1>4, <1>5, <1>7, <1>9 DEF c
  <2>2. m + 1 \in Nat \ {0}
    OBVIOUS
  <2> QED BY <1>6, <1>7, <2>1, <2>2
<1> QED BY <1>8, <1>9

\* What a write in progress still brings.
Coming(h) == IF call.op = "write" /\ call.fd = h THEN call.count ELSE 0

RoomInv(t) ==
  /\ FilesInv
  /\ \A h \in Busy : fcb[h].pos + Coming(h) <= MaxPos
  /\ \A h \in Writers \ Busy : fcb[h].curcluster < TRACK_SIZE
  /\ \A s \in Valid(dir) : Unfinished(s) \/ Cardinality(Chain(fat, dir[s].starttrack)) <= t

\* A writer has no more tracks than its file may have.
LEMMA WriterFits ==
  ASSUME NEW t, Room(t), RoomInv(t), NEW h \in Busy
  PROVE  /\ Tracks_(h) \in Nat \ {0} /\ Tracks_(h) <= t
         /\ fcb[h].curcluster = TRACK_SIZE => Tracks_(h) + 1 <= t
<1>1. MountedInv /\ h \in Writers /\ WriterStands(h) /\ fcb[h].pos + Coming(h) <= MaxPos
  BY DEF RoomInv, FilesInv, Busy
<1>2. fcb[h] \in jdfcb /\ call.count \in Nat /\ MaxPos \in Nat /\ fcb[h].starttrack \in Tracks
  BY <1>1, Parts, FcbFields, ClientAssumption DEF TypeOK
<1>3. Coming(h) \in Nat /\ fcb[h].pos \in Int
  BY <1>2, FcbFields DEF Coming
<1>4. fcb[h].pos <= MaxPos
  BY <1>1, <1>2, <1>3
<1>5. Tracks_(h) \in Nat \ {0}
  BY <1>2, ChainBound DEF Tracks_
<1> QED BY <1>1, <1>2, <1>4, <1>5, FewTracks DEF WriterStands

\* With room for every file a writer behind its last track finds a free one: the
\* tracks in use and the one it needs fit in the tracks of all slots.
LEMMA RoomLeft ==
  ASSUME NEW t, Room(t), RoomInv(t)
  PROVE  NeverFull
<1>1. MountedInv /\ NoLostTracks /\ FilesInv
  BY DEF RoomInv, FilesInv, MountedInv, VolumeInv
<1> SUFFICES ASSUME NEW h \in Writers, ~(fcb[h].curcluster < TRACK_SIZE), FreeTracks(fat) = {}
             PROVE  FALSE
  BY DEF NeverFull
<1> DEFINE r == fcb[h].dir_index
           n == NUM_JD_DIR_ENTRIES
           own(i) == IF i \in Valid(dir) THEN Chain(fat, dir[i].starttrack) ELSE {}
           c == [i \in 0 .. n - 1 |-> own(i) \cup (IF i = r THEN {0} ELSE {})]
           u == UNION {c[i] : i \in 0 .. n - 1}
<1>2. h \in Busy
  BY DEF RoomInv
<1>3. fcb[h].curcluster = TRACK_SIZE
  <2>1. fcb[h].curcluster \in 0 .. TRACK_SIZE
    BY <1>1, <1>2 DEF FilesInv, WriterStands, Stands
  <2> QED BY <2>1, Geometry
<1>4. /\ r \in Valid(dir) /\ n \in Nat /\ t \in Nat /\ FAT_ENTRIES \in Nat
      /\ \A s \in Valid(dir) : s \in 0 .. n - 1
  BY <1>1, Parts, Geometry DEF Room, Slots, Valid
<1>5. \A k \in Busy : Tracks_(k) = Cardinality(Chain(fat, dir[fcb[k].dir_index].starttrack))
  BY <1>1, Parts DEF Tracks_, Busy
<1>6. \A s \in Valid(dir) : Cardinality(Chain(fat, dir[s].starttrack)) <= t
  BY <1>5, WriterFits DEF RoomInv, Unfinished
<1>7. Cardinality(Chain(fat, dir[r].starttrack)) + 1 <= t
  BY <1>2, <1>3, <1>5, WriterFits
<1> HIDE DEF r
<1>8. ASSUME NEW i \in 0 .. n - 1 PROVE IsFiniteSet(c[i]) /\ Cardinality(c[i]) <= t
  <2>1. CASE i = r
    <3>1. c[i] = Chain(fat, dir[r].starttrack) \cup {0}
      BY <1>4, <2>1
    <3> HIDE DEF c
    <3>2. /\ IsFiniteSet(c[i])
          /\ \/ Cardinality(c[i]) = Cardinality(Chain(fat, dir[r].starttrack))
             \/ Cardinality(c[i]) = Cardinality(Chain(fat, dir[r].starttrack)) + 1
      BY <3>1, ChainFinite, FS_AddElement
    <3>3. Cardinality(Chain(fat, dir[r].starttrack)) \in Nat
      BY ChainFinite
    <3> QED BY <1>4, <1>7, <3>2, <3>3
  <2>2. CASE i # r /\ i \in Valid(dir)
    <3>1. c[i] = Chain(fat, dir[i].starttrack)
      BY <2>2
    <3> HIDE DEF c
    <3> QED BY <1>6, <2>2, <3>1, ChainFinite
  <2>3. CASE i # r /\ i \notin Valid(dir)
    <3>1. c[i] = {}
      BY <2>3
    <3> HIDE DEF c
    <3> QED BY <1>4, <3>1, FS_EmptySet
  <2> QED BY <2>1, <2>2, <2>3
<1>9. 0 .. FAT_ENTRIES - 1 \in SUBSET u
  <2>1. ASSUME NEW x \in 0 .. FAT_ENTRIES - 1 PROVE \E i \in 0 .. n - 1 : x \in c[i]
    <3>1. CASE x = 0
      BY <1>4, <3>1
    <3>2. CASE x # 0
      <4>1. x \in Tracks
        BY <1>4, <3>2 DEF Tracks
      <4>2. fat[x].successor # FREE
        BY <4>1 DEF FreeTracks
      <4>3. PICK s \in Valid(dir) : x \in Chain(fat, dir[s].starttrack)
        BY <1>1, <4>1, <4>2 DEF NoLostTracks
      <4> QED BY <1>4, <4>3
    <3> QED BY <3>1, <3>2
  <2> HIDE DEF c
  <2> QED BY <2>1
<1> HIDE DEF c
<1>10. IsFiniteSet(u) /\ Cardinality(u) <= n * t
  BY <1>4, <1>8, UnionBound
<1> HIDE DEF u
<1>11. Cardinality(0 .. FAT_ENTRIES - 1) = FAT_ENTRIES
  <2>1. 0 \in Int /\ FAT_ENTRIES - 1 \in Int /\ ~(0 > FAT_ENTRIES - 1)
    BY GeometryAssumption
  <2>2. Cardinality(0 .. FAT_ENTRIES - 1) = (FAT_ENTRIES - 1) - 0 + 1
    BY <2>1, FS_Interval
  <2> QED BY <1>4, <2>2
<1>12. FAT_ENTRIES <= Cardinality(u) /\ Cardinality(u) \in Nat
  <2>1. \A v \in SUBSET u : Cardinality(v) <= Cardinality(u)
    BY <1>10, FS_Subset
  <2>2. Cardinality(0 .. FAT_ENTRIES - 1) <= Cardinality(u)
    BY <1>9, <2>1, Zenon
  <2>3. Cardinality(u) \in Nat
    BY <1>10, FS_CardinalityType
  <2> QED BY <1>11, <2>2, <2>3
<1> DEFINE y == n * t
<1>13. y \in Nat /\ y < FAT_ENTRIES /\ Cardinality(u) <= y
  BY <1>4, <1>10 DEF Room
<1> HIDE DEF y
<1> QED BY <1>4, <1>12, <1>13

\* A step keeps the invariant if it does so for the files it touches.
LEMMA RoomKept ==
  ASSUME NEW t, RoomInv(t), FilesInv', NEW S \in SUBSET Slots, Touches(S),
         \A h \in Busy' : fcb'[h].pos + Coming(h)' <= MaxPos,
         \A h \in Writers' \ Busy' : fcb'[h].curcluster < TRACK_SIZE,
         \A s \in S \cap Valid(dir') :
           Unfinished(s)' \/ Cardinality(Chain(fat', dir'[s].starttrack)) <= t
  PROVE  RoomInv(t)'
<1>1. ASSUME NEW s \in Valid(dir') \ S
      PROVE  Unfinished(s)' \/ Cardinality(Chain(fat', dir'[s].starttrack)) <= t
  <2>1. Untouched(s) /\ (Unfinished(s) <=> Unfinished(s)')
    BY <1>1 DEF Touches, Unfinished
  <2>2. s \in Valid(dir) /\ dir'[s].starttrack = dir[s].starttrack /\ dir[s].starttrack \in Tracks
    BY <2>1, Parts DEF Untouched, RoomInv, FilesInv
  <2>3. Chain(fat', dir'[s].starttrack) = Chain(fat, dir[s].starttrack)
    BY <2>1, <2>2, ChainSame DEF Untouched
  <2> QED BY <2>1, <2>2, <2>3 DEF RoomInv
<1> QED BY <1>1 DEF RoomInv

\* No write begins or goes on, and no file is closed.
LEMMA RoomQuiet ==
  ASSUME NEW t, RoomInv(t), FilesInv', Touches({}),
         call'.op # "write" \/ call' = call,
         call'.op \notin {"closeFat", "closeDir"} \/ UNCHANGED <<fcb, Busy>>
  PROVE  RoomInv(t)'
<1>1. ASSUME NEW h \in Busy' PROVE fcb'[h].pos + Coming(h)' <= MaxPos
  <2>1. h \in Busy /\ fcb'[h] = fcb[h]
    BY <1>1 DEF Touches
  <2>2. MountedInv /\ h \in Writers
    BY <2>1 DEF RoomInv, FilesInv, Busy
  <2>3. call.count \in Nat /\ fcb[h].pos \in Int /\ MaxPos \in Nat
    BY <2>2, Parts, FcbFields, ClientAssumption DEF TypeOK
  <2>4. fcb[h].pos + Coming(h) <= MaxPos
    BY <2>1 DEF RoomInv
  <2>5. Coming(h)' = Coming(h) \/ Coming(h)' = 0
    BY DEF Coming
  <2>6. Coming(h) \in Nat
    BY <2>3 DEF Coming
  <2> QED BY <2>1, <2>3, <2>4, <2>5, <2>6
<1>2. ASSUME NEW h \in Writers' \ Busy' PROVE fcb'[h].curcluster < TRACK_SIZE
  <2>1. UNCHANGED <<fcb, Busy>>
    BY <1>2 DEF Busy
  <2>2. h \in Writers \ Busy
    BY <1>2, <2>1 DEF Writers
  <2> QED BY <2>1, <2>2 DEF RoomInv
<1>3. {} \in SUBSET Slots
  OBVIOUS
<1> QED BY <1>1, <1>2, <1>3, RoomKept

LEMMA RoomOpenNewAt ==
  ASSUME NEW p, RoomInv(p), FilesInv', PlainModes, NEW h \in Fds, NEW n \in Names,
         NEW flags \in OpenFlags, OpenNew(h, n, flags),
         NEW s \in Slots, s = Least(Vacant(dir)), NEW t \in Tracks, t = Least(FreeTracks(fat))
  PROVE  RoomInv(p)'
<1> DEFINE g == CreatedFcb(n, flags, t, s)
<1>1. /\ FilesInv /\ MountedInv /\ MountedInv' /\ call.op = "idle" /\ call' = call
      /\ fcb' = [fcb EXCEPT ![h] = g] /\ fcb[h] = NULL /\ MaxPos \in Nat
  BY ClientAssumption DEF OpenNew, Ready, IsOpen, RoomInv, FilesInv
<1>2. Touches({s})
  BY <1>1, FilesOpenNewAt
<1>3. g.dir_index = s /\ g.pos = 0 /\ g.omode = "E5"
  BY DEF CreatedFcb
<1>4. g # NULL
  BY FreeTrack, VacantSlot, CreatedTyped, NullAssumption, ClientAssumption DEF OpenNew
<1> HIDE DEF g
<1>5. fcb'[h] = g /\ \A k \in Fds : k # h => fcb'[k] = fcb[k]
  BY <1>1, Parts
<1>6. Busy' = Writers' /\ Busy = Writers
  BY <1>1 DEF Busy
<1>7. ASSUME NEW k \in Busy' PROVE fcb'[k].pos + Coming(k)' <= MaxPos
  <2>1. k \in Fds /\ Coming(k)' = 0 /\ Coming(k) = 0
    BY <1>1, <1>7 DEF Coming, Busy, Writers
  <2>2. CASE k = h
    BY <1>1, <1>3, <1>5, <2>1, <2>2
  <2>3. CASE k # h
    <3>1. k \in Busy /\ fcb'[k] = fcb[k]
      BY <1>5, <1>6, <1>7, <2>1, <2>3 DEF Writers
    <3> QED BY <2>1, <3>1 DEF RoomInv
  <2> QED BY <2>2, <2>3
<1>8. Unfinished(s)'
  <2>1. h \in Busy'
    BY <1>3, <1>4, <1>5, <1>6 DEF Writers
  <2> QED BY <1>3, <1>5, <2>1 DEF Unfinished
<1>9. {s} \in SUBSET Slots
  OBVIOUS
<1> QED BY <1>2, <1>6, <1>7, <1>8, <1>9, RoomKept

LEMMA RoomWriteCall ==
  ASSUME NEW t, RoomInv(t), FilesInv', NEW h \in Fds, NEW n \in Requests, Write(h, n)
  PROVE  RoomInv(t)'
<1>1. /\ UNCHANGED <<fat, dir, size, fcb>> /\ call.op = "idle" /\ call' = Begin("write", h, n)
      /\ fcb[h].pos + n <= MaxPos /\ FilesInv /\ MountedInv'
  BY DEF Write, Ready, InBounds, RoomInv, FilesInv
<1>2. call'.op = "write" /\ call'.fd = h /\ call'.count = n
  BY <1>1 DEF Begin
<1>3. Touches({})
  BY <1>1, <1>2, FilesAlone
<1>4. Busy' = Busy /\ Writers' = Busy'
  BY <1>1, <1>2 DEF Busy, Writers
<1>5. \A k \in Busy' : fcb'[k].pos + Coming(k)' <= MaxPos
  <2>1. ASSUME NEW k \in Busy' PROVE fcb'[k].pos + Coming(k)' <= MaxPos
    <3>1. k \in Busy /\ fcb'[k] = fcb[k] /\ fcb[k].pos + Coming(k) <= MaxPos /\ Coming(k) = 0
      BY <1>1, <1>4, <2>1 DEF RoomInv, Coming
    <3>2. Coming(k)' = IF k = h THEN n ELSE 0
      BY <1>2 DEF Coming
    <3> QED BY <1>1, <3>1, <3>2
  <2> QED BY <2>1
<1>6. {} \in SUBSET Slots
  OBVIOUS
<1> QED BY <1>3, <1>4, <1>5, <1>6, RoomKept

LEMMA RoomWriteAt ==
  ASSUME NEW t, RoomInv(t), FilesInv', PlainModes, WriteStep,
         NEW h \in Fds, h = call.fd, NEW s \in Slots, s = fcb[h].dir_index
  PROVE  RoomInv(t)'
<1> DEFINE f == fcb[h]
           w == Flushed(f, TRUE)
           n == Smaller(call.count, CLUSTERSIZE - w.fcb.crpos)
           g == Fill(w.fcb, n)
           m == Tracks_(h)
<1>1. /\ call.op = "write" /\ h \in Writers /\ call.count \in Nat /\ call.count > 0
      /\ FilesInv /\ MountedInv /\ MountedInv' /\ TypeOK /\ call.bp \in Int
  BY DEF WriteStep, RoomInv, FilesInv, MountedInv, SavedInv, CallsPlain, TypeOK
<1>2. h \in Busy /\ WriterStands(h) /\ f \in jdfcb /\ fat \in FatType
  BY <1>1, Parts DEF Busy, FilesInv
<1>3. /\ fcb' = [fcb EXCEPT ![h] = g]
      /\ call' = IF n = call.count THEN Idle
                 ELSE [call EXCEPT !.count = @ - n, !.bp = @ + n]
  <2>1. Media = {TRUE}
    BY DEF PlainModes, Media
  <2> QED BY <2>1 DEF WriteStep
<1>4. Touches({s})
  BY <1>1, FilesWriteAt
<1>5. m \in Nat /\ Stands(f, m) /\ fat[f.curtrack].successor = NONE
  BY <1>2, ChainFinite DEF WriterStands, Tracks_
<1>6. /\ w.fcb.pos = f.pos /\ w.fcb.dir_index = s /\ w.fcb \in jdfcb
      /\ \E k \in Nat : Stands(w.fcb, k)
  <2>1. m + 1 \in Nat
    BY <1>5
  <2> QED BY <1>2, <1>5, <2>1, FlushedStands, FlushedTyped
<1> HIDE DEF w
<1>7. n \in Nat /\ g.pos = f.pos + n /\ g.dir_index = s
  BY <1>1, <1>6, FillStands
<1>8. f.pos \in Int /\ f.pos + call.count <= MaxPos
  <2>1. f.pos + Coming(h) <= MaxPos /\ Coming(h) = call.count
    BY <1>1, <1>2 DEF RoomInv, Coming
  <2> QED BY <1>2, <2>1, FcbFields
<1> HIDE DEF n, g
<1>9. fcb'[h] = g /\ \A k \in Fds : k # h => fcb'[k] = fcb[k]
  BY <1>1, <1>3, Parts
<1>10. \/ call'.op = "idle" /\ n = call.count
       \/ call'.op = "write" /\ call'.fd = h /\ call'.count = call.count - n
  <2>1. CASE n = call.count
    BY <1>3, <2>1 DEF Idle
  <2>2. CASE n # call.count
    BY <1>1, <1>3, <2>2 DEF TypeOK
  <2> QED BY <2>1, <2>2
<1>11. Writers' = Writers /\ Busy' = Writers' /\ Busy = Writers
  <2>1. Writers' = Writers
    BY <1>1, WriteStepMode, WritersKept DEF MountedInv, SavedInv
  <2> QED BY <1>1, <1>10, <2>1 DEF Busy
<1>12. ASSUME NEW k \in Busy' PROVE fcb'[k].pos + Coming(k)' <= MaxPos
  <2>1. k \in Fds /\ k \in Busy
    BY <1>11, <1>12 DEF Writers
  <2>2. CASE k = h
    <3>1. Coming(h)' = call.count - n
      BY <1>1, <1>7, <1>10 DEF Coming
    <3>2. (f.pos + n) + (call.count - n) <= MaxPos
      BY <1>1, <1>7, <1>8
    <3> QED BY <1>7, <1>9, <2>2, <3>1, <3>2
  <2>3. CASE k # h
    <3>1. Coming(k) = 0 /\ Coming(k)' = 0
      BY <1>1, <1>10, <2>3 DEF Coming
    <3> QED BY <1>9, <2>1, <2>3, <3>1 DEF RoomInv
  <2> QED BY <2>2, <2>3
<1>13. Unfinished(s)'
  BY <1>2, <1>7, <1>9, <1>11 DEF Unfinished
<1>14. {s} \in SUBSET Slots
  OBVIOUS
<1> QED BY <1>4, <1>11, <1>12, <1>13, <1>14, RoomKept

LEMMA RoomClose ==
  ASSUME NEW t, Room(t), RoomInv(t), FilesInv', PlainModes, NEW h \in Fds, CloseWriter(h),
         NEW s \in Slots, s = fcb[h].dir_index
  PROVE  RoomInv(t)'
<1> DEFINE f == fcb[h]
           k == OneIndexed(f)
           e == EnterTrack(fat, k)
           v == nkcfs_write_cluster(fat, k, TRUE)
           w == IF k.crpos = 0 THEN [fat |-> fat, fcb |-> k, written |-> {}] ELSE v
           m == Tracks_(h)
<1>1. /\ call.op = "idle" /\ h \in Writers /\ h \in Busy /\ Busy = Writers
      /\ FilesInv /\ MountedInv /\ MountedInv'
  BY DEF CloseWriter, Ready, IsOpen, Writers, Busy, RoomInv, FilesInv
<1>2. /\ fat' = w.fat /\ fcb' = [fcb EXCEPT ![h] = w.fcb] /\ dir' = update_dir(dir, w.fcb)
      /\ call' = Begin("closeFat", h, 0)
  <2>1. Media = {TRUE}
    BY DEF PlainModes, Media
  <2> QED BY <2>1 DEF CloseWriter
<1>3. Touches({s})
  BY <1>1, FilesClose
<1>4. NeverFull /\ m \in Nat \ {0} /\ m <= t /\ (f.curcluster = TRACK_SIZE => m + 1 <= t) /\ t \in Nat
  BY <1>1, RoomLeft, WriterFits DEF Room
<1>5. /\ f \in jdfcb /\ fat \in FatType
      /\ dir \in [Slots -> jddir] /\ fcb \in [Fds -> jdfcb \cup {NULL}]
      /\ Stands(f, m) /\ Begun(f) /\ fat[f.curtrack].successor = NONE
      /\ f.curcluster < TRACK_SIZE \/ FreeTracks(fat) # {}
  BY <1>1, <1>4, Parts DEF FilesInv, WriterStands, NeverFull
<1>6. /\ k \in jdfcb /\ SamePlace(f, k) /\ k.curcluster = f.curcluster
      /\ k.crpos = f.crpos /\ k.curtrack = f.curtrack
  <2> DEFINE x == (f.endcluster + 1) % 65536
  <2>1. x \in Nat
    BY <1>5, FcbFields
  <2>2. k = [f EXCEPT !.endcluster = x]
    BY DEF OneIndexed
  <2> HIDE DEF x, k
  <2> QED BY <1>5, <2>1, <2>2 DEF jdfcb, SamePlace
<1> HIDE DEF k
<1>7. /\ SamePlace(f, w.fcb) /\ w.fcb.curcluster < TRACK_SIZE
      /\ \/ w.fat = fat
         \/ f.curcluster = TRACK_SIZE
            /\ \E i \in Tracks : fat[i].successor = FREE /\ w.fat = Grown(fat, f.curtrack, i)
  <2>1. ASSUME k.crpos = 0
        PROVE  SamePlace(f, w.fcb) /\ w.fcb.curcluster < TRACK_SIZE /\ w.fat = fat
    <3>1. w.fat = fat /\ w.fcb = k
      BY <2>1
    <3>2. f.curcluster = 0
      BY <1>5, <1>6, <2>1 DEF Begun
    <3> HIDE DEF w
    <3> QED BY <1>6, <3>1, <3>2, Geometry
  <2>2. ASSUME k.crpos # 0
        PROVE  /\ SamePlace(f, w.fcb) /\ w.fcb.curcluster < TRACK_SIZE
               /\ \/ w.fat = fat
                  \/ f.curcluster = TRACK_SIZE
                     /\ \E i \in Tracks : fat[i].successor = FREE /\ w.fat = Grown(fat, f.curtrack, i)
    <3>1. w.fat = e.fat /\ w.fcb = e.fcb
      BY <2>2 DEF nkcfs_write_cluster
    <3>2. k.curcluster \in 0 .. TRACK_SIZE /\ fat[k.curtrack].successor = NONE
      BY <1>5, <1>6 DEF Stands
    <3>3. /\ SamePlace(k, e.fcb)
          /\ \/ e.fat = fat /\ e.fcb = k /\ k.curcluster < TRACK_SIZE
             \/ FreeTracks(fat) = {} /\ k.curcluster = TRACK_SIZE
             \/ /\ k.curcluster = TRACK_SIZE /\ e.fcb.curcluster = 0
                /\ \E i \in Tracks : fat[i].successor = FREE /\ e.fat = Grown(fat, k.curtrack, i)
      BY <1>5, <1>6, <3>2, EnterStands
    <3> HIDE DEF w, e
    <3>4. SamePlace(f, w.fcb)
      BY <1>6, <3>1, <3>3 DEF SamePlace
    <3> QED BY <1>5, <1>6, <3>1, <3>3, <3>4, Geometry
  <2> HIDE DEF w
  <2> QED BY <2>1, <2>2
<1> HIDE DEF w
<1>8. dir'[s].starttrack = f.starttrack
  BY <1>2, <1>5, <1>7 DEF update_dir, SamePlace
<1>9. Cardinality(Chain(fat', f.starttrack)) <= t
  <2>1. CASE w.fat = fat
    BY <1>2, <1>4, <2>1 DEF Tracks_
  <2>2. ASSUME f.curcluster = TRACK_SIZE, NEW i \in Tracks, fat[i].successor = FREE,
               w.fat = Grown(fat, f.curtrack, i)
        PROVE  Cardinality(Chain(fat', f.starttrack)) <= t
    <3>1. Cardinality(Chain(fat', f.starttrack)) = m + 1
      BY <1>1, <1>2, <1>5, <2>2, WrittenChain
    <3> QED BY <1>4, <2>2, <3>1
  <2> QED BY <1>7, <2>1, <2>2
<1> HIDE DEF f
<1>10. fcb'[h] = w.fcb /\ \A j \in Fds : j # h => fcb'[j] = fcb[j]
  BY <1>2, <1>5
<1>11. Busy' = Writers' \ {h} /\ call'.op = "closeFat"
  BY <1>2 DEF Busy, Begin
<1>12. ASSUME NEW j \in Busy' PROVE fcb'[j].pos + Coming(j)' <= MaxPos
  <2>1. j \in Busy /\ fcb'[j] = fcb[j]
    BY <1>1, <1>10, <1>11, <1>12 DEF Writers
  <2>2. Coming(j)' = 0 /\ Coming(j) = 0
    BY <1>1, <1>11 DEF Coming
  <2> QED BY <2>1, <2>2 DEF RoomInv
<1>13. \A j \in Writers' \ Busy' : fcb'[j].curcluster < TRACK_SIZE
  BY <1>7, <1>10, <1>11
<1>14. {s} \in SUBSET Slots
  OBVIOUS
<1> QED BY <1>3, <1>8, <1>9, <1>12, <1>13, <1>14, RoomKept

LEMMA RoomNext ==
  ASSUME NEW t, Room(t), RoomInv(t), [Next]_vars, PlainModes,
         "seek" \notin Calls, "powerfail" \notin Calls
  PROVE  RoomInv(t)'
<1>1. FilesInv /\ FilesInv' /\ MountedInv /\ MountedInv'
  BY FilesNext DEF RoomInv, FilesInv
<1>2. Touches({}) /\ call'.op \notin {"write", "closeFat", "closeDir"} => RoomInv(t)'
  BY <1>1, RoomQuiet
<1>3. Touches({}) /\ call' = call /\ call.op = "idle" => RoomInv(t)'
  BY <1>1, RoomQuiet
<1>4. CASE OpenCall
  <2>1. PICK h \in Fds, n \in Names, flags \in OpenFlags :
          OpenExisting(h, n, flags) \/ OpenNew(h, n, flags)
    BY <1>4 DEF OpenCall
  <2>2. CASE OpenExisting(h, n, flags)
    <3>1. call' = call /\ call.op = "idle"
      BY <2>2 DEF OpenExisting, Ready
    <3> QED BY <1>1, <1>3, <2>2, <3>1, FilesOpenExisting
  <2>3. CASE OpenNew(h, n, flags)
    <3>1. Least(Vacant(dir)) \in Slots /\ Least(FreeTracks(fat)) \in Tracks
      BY <2>3, FreeTrack, VacantSlot DEF OpenNew
    <3> QED BY <1>1, <2>3, <3>1, RoomOpenNewAt
  <2> QED BY <2>1, <2>2, <2>3
<1>5. CASE WriteCall
  BY <1>1, <1>5, RoomWriteCall DEF WriteCall
<1>6. CASE ReadCall
  <2>1. /\ UNCHANGED <<fat, dir, size, fcb>> /\ call.op = "idle"
        /\ call'.op \in {"idle", "read"}
    BY <1>6 DEF ReadCall, Read, Ready, Begin
  <2> QED BY <1>1, <1>2, <2>1, FilesAlone
<1>7. ~SeekCall /\ ~PowerFail
  BY DEF SeekCall, Seek, Ready, PowerFail
<1>8. CASE CloseCall
  <2>1. PICK h \in Fds : CloseReader(h) \/ CloseWriter(h)
    BY <1>8 DEF CloseCall
  <2>2. CASE CloseReader(h)
    <3>1. /\ UNCHANGED <<fat, dir, size>> /\ fcb' = [fcb EXCEPT ![h] = NULL]
          /\ h \notin Writers /\ call.op = "idle" /\ call' = call
      BY <2>2 DEF CloseReader, Ready, Writers
    <3>2. Writers' = Writers \ {h}
      BY <1>1, <3>1, WritersLess DEF MountedInv, SavedInv
    <3> QED BY <1>1, <1>3, <3>1, <3>2, FilesReader
  <2>3. CASE CloseWriter(h)
    <3>1. h \in Writers
      BY <2>3 DEF CloseWriter, IsOpen, Writers
    <3>2. fcb[h].dir_index \in Slots
      BY <1>1, <3>1, Parts
    <3> QED BY <1>1, <2>3, <3>2, RoomClose
  <2> QED BY <2>1, <2>2, <2>3
<1>9. CASE RemoveCall
  <2>1. PICK n \in Names : Remove(n)
    BY <1>9 DEF RemoveCall
  <2> DEFINE s == Least(find_file(dir, n))
  <2>2. s \in Slots
    BY <2>1, FoundSlot DEF Remove
  <2>3. /\ call.op = "idle" /\ call'.op = "removeFat" /\ fcb' = fcb
        /\ dir' = [dir EXCEPT ![s].id = NONE]
    BY <2>1 DEF Remove, Ready, Idle
  <2>4. Touches({s})
    BY <1>1, <2>1, <2>2, FilesRemoveAt
  <2> HIDE DEF s
  <2>5. s \notin Valid(dir')
    BY <1>1, <2>2, <2>3, Parts DEF jddir, VALID, NONE, Valid
  <2>6. Busy' = Writers' /\ Writers' = Writers /\ Busy = Writers
    BY <2>3 DEF Busy, Writers
  <2>7. \A k \in Busy' : fcb'[k].pos + Coming(k)' <= MaxPos
    <3>1. \A k : Coming(k) = 0 /\ Coming(k)' = 0
      BY <2>3 DEF Coming
    <3> QED BY <2>3, <2>6, <3>1 DEF RoomInv
  <2>8. {s} \in SUBSET Slots
    BY <2>2
  <2> QED BY <1>1, <2>4, <2>5, <2>6, <2>7, <2>8, RoomKept
<1>10. CASE RenameCall
  <2>1. PICK old \in Names, new \in Names : Rename(old, new)
    BY <1>10 DEF RenameCall
  <2>2. Least(find_file(dir, old)) \in Slots
    BY <2>1, FoundSlot DEF Rename
  <2>3. call'.op = "renameDir"
    BY <2>1 DEF Rename, Idle
  <2> QED BY <1>1, <1>2, <2>1, <2>2, <2>3, FilesRenameAt
<1>11. CASE Remount
  <2>1. UNCHANGED <<fat, dir, fcb>>
    BY <1>1, <1>11, RemountQuiet DEF MountedInv
  <2>2. UNCHANGED <<size, call>> /\ call.op = "idle"
    BY <1>11 DEF Remount, Mount, Ready
  <2> QED BY <1>1, <1>3, <2>1, <2>2, FilesAlone
<1>12. CASE nkcfs_getfree \/ UNCHANGED vars
  <2>1. UNCHANGED <<fat, dir, size, fcb, call>>
    BY <1>12 DEF nkcfs_getfree, vars
  <2>2. Writers' = Writers /\ Busy' = Busy
    BY <2>1 DEF Writers, Busy
  <2>3. Touches({})
    BY <1>1, <2>1, <2>2, FilesQuiet
  <2> QED BY <1>1, <2>1, <2>2, <2>3, RoomQuiet
<1>13. CASE WriteStep
  <2>1. call.fd \in Writers
    BY <1>1, <1>13 DEF WriteStep, MountedInv, SavedInv, CallsPlain
  <2>2. call.fd \in Fds /\ fcb[call.fd].dir_index \in Slots
    BY <1>1, <2>1, Parts
  <2> QED BY <1>1, <1>13, <2>2, RoomWriteAt
<1>14. CASE ReadStep
  <2>1. call'.op \in {"idle", "read"}
    <3>1. PICK c, b : call' = Idle \/ call' = [call EXCEPT !.count = c, !.bp = b]
      BY <1>14 DEF ReadStep, ReadEnds
    <3>2. call = [op |-> call.op, fd |-> call.fd, count |-> call.count, bp |-> call.bp]
      BY <1>1, Parts DEF TypeOK
    <3>3. call.op = "read"
      BY <1>14 DEF ReadStep
    <3>4. CASE call' = [call EXCEPT !.count = c, !.bp = b]
      <4>1. call' = [op |-> call.op, fd |-> call.fd, count |-> c, bp |-> b]
        BY <3>2, <3>4
      <4> QED BY <3>3, <4>1
    <3> QED BY <3>1, <3>4 DEF Idle
  <2> QED BY <1>1, <1>2, <1>14, <2>1, FilesRead
<1>15. CASE CloseDir
  <2>1. call'.op = "idle"
    BY <1>15 DEF CloseDir, SaveDir, Idle
  <2> QED BY <1>1, <1>2, <1>15, <2>1, FilesCloseDir
<1>16. CASE CloseFat
  <2>1. /\ fcb' = fcb /\ call.op = "closeFat" /\ call'.op = "closeDir" /\ call'.fd = call.fd
    BY <1>1, <1>16, Parts DEF CloseFat, SaveFat, TypeOK
  <2>2. Busy' = Busy
    BY <2>1 DEF Busy, Writers
  <2>3. Touches({})
    BY <1>1, <1>16, FilesSave
  <2> QED BY <1>1, <2>1, <2>2, <2>3, RoomQuiet
<1>17. CASE RemoveFat \/ RemoveDir \/ RenameDir
  <2>1. call'.op \in {"removeDir", "idle"}
    BY <1>1, <1>17, Parts DEF RemoveFat, RemoveDir, RenameDir, SaveFat, SaveDir, Idle, TypeOK
  <2> QED BY <1>1, <1>2, <1>17, <2>1, FilesSave
<1> QED
  BY <1>4, <1>5, <1>6, <1>7, <1>8, <1>9, <1>10, <1>11, <1>12, <1>13, <1>14, <1>15, <1>16, <1>17
     DEF Next, Client, Driver

LEMMA RoomInit ==
  ASSUME NEW t, Init
  PROVE  RoomInv(t)
<1>1. \A h \in Fds : fcb[h] = NULL
  BY DEF Init
<1>2. Busy = {} /\ Writers = {}
  BY <1>1 DEF Writers, Busy
<1>3. Valid(dir) = {}
  BY DEF Init, Valid, FREE, VALID
<1> QED BY <1>2, <1>3, FilesInit DEF RoomInv

\* On a volume with room for a file of the longest length in every slot no
\* writer ever stands behind its last track with no free track left: the tracks
\* that remove gives back are all there again, and no file holds more tracks
\* than its bytes need (no call seeks, the medium takes every write).
THEOREM RoomSuffices ==
  ASSUME PlainModes, "seek" \notin Calls, "powerfail" \notin Calls, NEW CONSTANT t, Room(t)
  PROVE  Spec => []NeverFull
<1>1. Init => RoomInv(t)
  BY RoomInit
<1>2. RoomInv(t) /\ [Next]_vars => RoomInv(t)'
  BY RoomNext
<1>3. RoomInv(t) => NeverFull
  BY RoomLeft
<1> QED BY <1>1, <1>2, <1>3, PTL DEF Spec

\* Hence on such a volume files hold what was written to them, entries are
\* covered by tracks, and readers hold their position, in every behaviour.
THEOREM FilesAreRightWithRoom ==
  ASSUME PlainModes, "seek" \notin Calls, "powerfail" \notin Calls, NEW CONSTANT t, Room(t)
  PROVE  Spec => [](LengthCovered /\ FilesHoldWhatWasWritten /\ BufferHoldsPosition)
<1>1. Spec => []NeverFull
  BY RoomSuffices
<1>2. Spec /\ []NeverFull => []LengthCovered
  BY LengthsAreCovered
<1>3. Spec /\ []NeverFull => []FilesHoldWhatWasWritten
  BY FilesKeepTheirContents
<1>4. Spec /\ []NeverFull => []BufferHoldsPosition
  BY ReadersHoldTheirPosition
<1> QED BY <1>1, <1>2, <1>3, <1>4, PTL
=============================================================================
