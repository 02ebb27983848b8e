--------------------------- MODULE StreamsProofs ---------------------------
(* Theorems about the stream table and the handle table, for tables of      *)
(* every size and every set of names, objects and volumes.                  *)
EXTENDS Streams, WellFoundedInduction, TLAPS

-----------------------------------------------------------------------------
(* The states the operators work on *)

StateType ==
  [pstreams : Seq(Objects \cup {NULL}), file : [Objects -> Chars \cup {NULL}],
   HPOOL : SUBSET Handles, filelist : [Fds -> OpenFile \cup {NULL}],
   files : SUBSET File, driveName : Drives \cup {NULL}]

Typed(st) == st \in StateType /\ Len(st.pstreams) \in STDFILES .. NFILE

Matched(st) == \A h \in Handles : h \in st.HPOOL <=> st.filelist[h] # NULL

Listed(st) ==
  /\ \A i \in 1 .. Len(st.pstreams) : i > STDFILES <=> st.pstreams[i] # NULL
  /\ \A s \in Objects :
       st.file[s] # NULL <=> \E i \in 1 .. Len(st.pstreams) : st.pstreams[i] = s
  /\ \A i, j \in 1 .. Len(st.pstreams) :
       st.pstreams[i] = st.pstreams[j] /\ st.pstreams[i] # NULL => i = j

Sound(st) == Typed(st) /\ Matched(st) /\ Listed(st)

\* Every stream has a handle of its own with an open file behind it.
Owned(st) ==
  \A s \in Objects : st.file[s] # NULL =>
    /\ st.file[s] \in Handles
    /\ st.filelist[st.file[s]] # NULL
    /\ \A r \in Objects : st.file[r] = st.file[s] => r = s

\* Of the handles open on a file one at most may write.
Single(st) ==
  \A h, k \in Fds :
    /\ st.filelist[h] # NULL /\ st.filelist[k] # NULL
    /\ FileOf(st.filelist[h].name) = FileOf(st.filelist[k].name)
    /\ {"WRIT"} \subseteq st.filelist[h].flags \cap st.filelist[k].flags
    => h = k

\* Files that are open are on their volumes.
Backed(st) ==
  \A h \in Fds : st.filelist[h] # NULL => FileOf(st.filelist[h].name) \in st.files

\* Clients reach each volume by one path.
OnePath == \A p, q \in Paths : p = q

\* And they write every name the way the handle table stores it, on a machine
\* with one volume.
OneSpelling == OnePath /\ Spellings = {PLAIN} /\ \A d, e \in Drives : d = e

Honest(st) == (OnePath => Single(st)) /\ (OneSpelling => Backed(st))

\* Names are well formed, and a char holds every handle.
PlainHandles == Codes = {EZERO} /\ Handles \subseteq 10 .. 127

FlagSets == SUBSET {"READ", "WRIT", "CREATE"}

LEMMA Ranges ==
  /\ STDFILES \in Nat /\ STDFILES > 0 /\ NFILE \in Nat /\ STDFILES < NFILE
  /\ Handles \subseteq Nat /\ 0 \notin Handles
  /\ Handles \subseteq Fds /\ 0 \in Fds /\ EZERO = 0
  /\ NULL \notin Objects /\ NULL \notin Drives /\ NULL \notin Chars
  /\ NULL \notin OpenFile
BY TableAssumption, NullAssumption DEF Fds, EZERO

LEMMA PlainName ==
  ASSUME NEW n \in Name, n.code = EZERO
  PROVE  Plain(n) \in Stored /\ FileOf(Plain(n)) = FileOf(n)
BY TableAssumption DEF Plain, Stored, Name, FileOf

LEMMA FileOfName ==
  ASSUME NEW n \in Name
  PROVE  FileOf(n) \in File
BY DEF FileOf, File, Name

\* With one path a file has one stored name.
LEMMA OneName ==
  ASSUME OnePath, NEW n \in Stored, NEW o \in Stored, FileOf(n) = FileOf(o)
  PROVE  n = o
<1>1. n.drive = o.drive /\ n.base = o.base
  BY DEF FileOf
<1>2. n.path = o.path
  BY DEF OnePath, Stored, Name
<1>3. n.spelling = o.spelling /\ n.code = o.code /\ n \in Name /\ o \in Name
  BY DEF Stored
<1> QED BY <1>1, <1>2, <1>3 DEF Name

LEMMA CharOf ==
  ASSUME NEW id \in Fds
  PROVE  /\ Char(id) \in Chars /\ Char(id) # NULL
         /\ Handles \subseteq 10 .. 127 => Char(id) = id
<1>1. Char(id) \in Chars
  BY DEF Chars
<1>2. ASSUME Handles \subseteq 10 .. 127 PROVE Char(id) = id
  <2>1. id \in Nat /\ id <= 127
    BY <1>2, TableAssumption DEF Fds, EZERO, EINVDRV
  <2> QED BY <2>1 DEF Char
<1> QED BY <1>1, <1>2, Ranges

\* alloc_handle gives out a handle nobody holds, or 0.
LEMMA FreshHandle ==
  ASSUME NEW st, alloc_handle(st) # 0
  PROVE  alloc_handle(st) \in Handles \ st.HPOOL
<1> DEFINE R == OpToRel(<, Nat)
           free == Handles \ st.HPOOL
<1>1. IsWellFoundedOn(R, Nat)
  BY NatLessThanWellFounded
<1>2. \A x, y \in Nat : <<x, y>> \in R <=> x < y
  BY DEF OpToRel
<1>3. free # {} /\ free \in SUBSET Nat
  BY Ranges DEF alloc_handle
<1> HIDE DEF R
<1>4. PICK x \in free : \A y \in free : ~(<<y, x>> \in R)
  BY <1>1, <1>3, WFMin, Zenon
<1>5. ASSUME NEW y \in free PROVE x <= y
  <2>1. x \in Nat /\ y \in Nat
    BY <1>3
  <2>2. ~(y < x)
    BY <1>2, <1>4, <2>1, Zenon
  <2> QED BY <2>1, <2>2
<1> QED BY <1>3, <1>5 DEF alloc_handle

LEMMA HandleRange ==
  ASSUME NEW st
  PROVE  alloc_handle(st) \in Fds
BY FreshHandle, Ranges

-----------------------------------------------------------------------------
(* Opening and closing a handle *)

LEMMA CheckedSound ==
  ASSUME NEW st, Sound(st), NEW n \in Name
  PROVE  /\ Sound(Checked(st, n))
         /\ Checked(st, n).pstreams = st.pstreams /\ Checked(st, n).file = st.file
         /\ Checked(st, n).HPOOL = st.HPOOL
         /\ Checked(st, n).filelist = st.filelist /\ Checked(st, n).files = st.files
<1>1. (IF n.code = EINVDRV THEN NULL ELSE n.drive) \in Drives \cup {NULL}
  BY DEF Name
<1>2. st \in StateType
  BY DEF Sound, Typed
<1>3. /\ Checked(st, n) \in StateType
      /\ Checked(st, n).pstreams = st.pstreams /\ Checked(st, n).file = st.file
      /\ Checked(st, n).HPOOL = st.HPOOL
      /\ Checked(st, n).filelist = st.filelist /\ Checked(st, n).files = st.files
  BY <1>1, <1>2 DEF Checked, StateType
<1> QED BY <1>3 DEF Sound, Typed, Matched, Listed

LEMMA OpenedSound ==
  ASSUME NEW st, Sound(st), NEW n \in Stored, NEW flags \in FlagSets
  PROVE  /\ Sound(Opened(st, n, flags))
         /\ Opened(st, n, flags).pstreams = st.pstreams
         /\ Opened(st, n, flags).file = st.file
         /\ Opened(st, n, flags).filelist[alloc_handle(st)] # NULL
         /\ Opened(st, n, flags).filelist[alloc_handle(st)].name = n
         /\ Opened(st, n, flags).filelist[alloc_handle(st)].flags = Granted(st, n, flags)
         /\ Opened(st, n, flags).files = st.files \cup {FileOf(n)}
         /\ \A h \in Fds : h # alloc_handle(st) =>
              Opened(st, n, flags).filelist[h] = st.filelist[h]
<1> DEFINE h == alloc_handle(st)
           e == [name |-> n, flags |-> Granted(st, n, flags)]
           o == Opened(st, n, flags)
<1>1. st \in StateType /\ h \in Fds
  BY HandleRange DEF Sound, Typed
<1>2. e \in OpenFile /\ e.name = n /\ e.flags = Granted(st, n, flags)
  BY DEF OpenFile, Granted, FlagSets
<1>3. Taken(st, h) \in SUBSET Handles
  BY <1>1 DEF Taken, StateType
<1>4. o = [st EXCEPT !.HPOOL = Taken(st, h),
                     !.filelist = [st.filelist EXCEPT ![h] = e],
                     !.files = st.files \cup {FileOf(n)}]
  BY DEF Opened
<1> HIDE DEF h, e, o
<1>5. /\ o \in StateType
      /\ o.pstreams = st.pstreams /\ o.file = st.file
      /\ o.HPOOL = Taken(st, h) /\ o.files = st.files \cup {FileOf(n)}
      /\ o.filelist = [st.filelist EXCEPT ![h] = e]
  <2>1. FileOf(n) \in File
    BY FileOfName DEF Stored
  <2> QED BY <1>1, <1>2, <1>3, <1>4, <2>1 DEF StateType
<1>6. e # NULL
  BY <1>2, Ranges
<1>7. st.filelist \in [Fds -> OpenFile \cup {NULL}] /\ st.HPOOL \subseteq Handles
  BY <1>1 DEF StateType
<1>8. o.filelist[h] # NULL /\ o.filelist[h] = e /\ \A k \in Fds : k # h => o.filelist[k] = st.filelist[k]
  BY <1>1, <1>5, <1>6, <1>7
<1>9. Matched(o)
  BY <1>5, <1>7, <1>8, Ranges DEF Sound, Matched, Taken
<1> QED BY <1>2, <1>5, <1>8, <1>9 DEF Sound, Typed, Listed, h, o

\* What is opened twice is opened for reading only, and exists.
LEMMA OpenedHonest ==
  ASSUME NEW st, Sound(st), Honest(st), NEW n \in Stored, NEW flags \in FlagSets
  PROVE  Honest(Opened(st, n, flags))
<1> DEFINE h == alloc_handle(st)
           o == Opened(st, n, flags)
<1>1. /\ h \in Fds /\ o.filelist[h].name = n /\ o.filelist[h].flags = Granted(st, n, flags)
      /\ o.files = st.files \cup {FileOf(n)}
      /\ \A k \in Fds : k # h => o.filelist[k] = st.filelist[k]
  BY OpenedSound, HandleRange
<1> HIDE DEF h, o
<1>2. ASSUME NEW k \in Fds, k # h, o.filelist[k] # NULL, o.filelist[k].name = n
      PROVE  "WRIT" \notin o.filelist[h].flags
  <2>1. k \in OpenAs(st, n)
    BY <1>1, <1>2 DEF OpenAs
  <2> QED BY <1>1, <2>1 DEF Granted
<1>5. Sound(o)
  BY OpenedSound DEF o
<1>6. \A k \in Fds : o.filelist[k] # NULL => o.filelist[k].name \in Stored
  BY <1>5 DEF Sound, Typed, StateType, OpenFile
<1>3. ASSUME OnePath,
             NEW k \in Fds, NEW j \in Fds, o.filelist[k] # NULL, o.filelist[j] # NULL,
             FileOf(o.filelist[k].name) = FileOf(o.filelist[j].name),
             {"WRIT"} \subseteq o.filelist[k].flags \cap o.filelist[j].flags
      PROVE  k = j
  <2>0. o.filelist[k].name = o.filelist[j].name
    BY <1>3, <1>6, OneName
  <2>1. "WRIT" \in o.filelist[k].flags /\ "WRIT" \in o.filelist[j].flags
    BY <1>3
  <2>2. CASE k = h \/ j = h
    BY <1>1, <1>2, <1>3, <2>0, <2>1, <2>2
  <2>3. CASE k # h /\ j # h
    BY <1>1, <1>3, <2>3 DEF Honest, Single
  <2> QED BY <2>2, <2>3
<1>4. Backed(st) => Backed(o)
  BY <1>1 DEF Backed
<1> QED BY <1>3, <1>4 DEF Honest, Single, o

\* What _ll_open answers and leaves: the tables stay sound, no handle that is
\* open is lost, and without malformed names a new handle is a fresh one.
LEMMA OpenAnswers ==
  ASSUME NEW st, Sound(st), NEW n \in Name, NEW flags \in FlagSets,
         NEW a \in ll_open(st, n, flags)
  PROVE  /\ Sound(a.st) /\ a.id \in Fds
         /\ a.st.pstreams = st.pstreams /\ a.st.file = st.file
         /\ Honest(st) => Honest(a.st)
         /\ \A h \in Handles : st.filelist[h] # NULL => a.st.filelist[h] # NULL
         /\ Codes = {EZERO} /\ a.id # 0 =>
              /\ a.id \in Handles
              /\ st.filelist[a.id] = NULL /\ a.st.filelist[a.id] # NULL
<1> DEFINE at == Checked(st, n)
           o == Opened(at, Plain(n), flags)
<1>1. /\ Sound(at) /\ at.pstreams = st.pstreams /\ at.file = st.file
      /\ at.HPOOL = st.HPOOL /\ at.filelist = st.filelist
      /\ Honest(st) => Honest(at)
  BY CheckedSound DEF Honest, Single, Backed
<1>2. \/ n.code # EZERO /\ a = [id |-> n.code, st |-> at]
      \/ n.code = EZERO /\ a = [id |-> 0, st |-> at]
      \/ n.code = EZERO /\ a = [id |-> alloc_handle(at), st |-> o]
  BY Zenon DEF ll_open
<1> HIDE DEF at, o
<1>3. CASE n.code # EZERO /\ a = [id |-> n.code, st |-> at]
  <2>1. a.id = n.code /\ a.st = at /\ n.code \in Codes
    BY <1>3 DEF Name
  <2> QED BY <1>1, <1>3, <2>1 DEF Fds
<1>4. CASE n.code = EZERO /\ a = [id |-> 0, st |-> at]
  <2>1. a.id = 0 /\ a.st = at
    BY <1>4
  <2> QED BY <1>1, <2>1, Ranges
<1>5. CASE n.code = EZERO /\ a = [id |-> alloc_handle(at), st |-> o]
  <2> DEFINE h == alloc_handle(at)
  <2>1. a.id = h /\ a.st = o /\ h \in Fds
    BY <1>5, HandleRange
  <2>2. /\ Sound(o) /\ o.pstreams = at.pstreams /\ o.file = at.file
        /\ o.filelist[h] # NULL
        /\ \A k \in Fds : k # h => o.filelist[k] = at.filelist[k]
    BY <1>1, <1>5, PlainName, OpenedSound DEF o
  <2>4. Honest(st) => Honest(o)
    BY <1>1, <1>5, PlainName, OpenedHonest DEF o
  <2>3. h # 0 => h \in Handles /\ at.filelist[h] = NULL
    BY <1>1, FreshHandle DEF Sound, Matched
  <2> HIDE DEF h
  <2> QED BY <1>1, <2>1, <2>2, <2>3, <2>4, Ranges
<1> QED BY <1>2, <1>3, <1>4, <1>5

LEMMA CloseSound ==
  ASSUME NEW st, Sound(st), NEW fd \in Chars
  PROVE  /\ Sound(ll_close(st, fd))
         /\ ll_close(st, fd).pstreams = st.pstreams
         /\ ll_close(st, fd).file = st.file
         /\ Honest(st) => Honest(ll_close(st, fd))
         /\ \A h \in Fds : h # fd => ll_close(st, fd).filelist[h] = st.filelist[h]
<1> DEFINE c == [st EXCEPT !.filelist = [st.filelist EXCEPT ![fd] = NULL],
                           !.HPOOL = st.HPOOL \ {fd}]
<1>1. CASE fd \notin Fds \/ st.filelist[fd] = NULL
  BY <1>1 DEF ll_close
<1>2. CASE fd \in Fds /\ st.filelist[fd] # NULL
  <2>1. ll_close(st, fd) = c
    BY <1>2 DEF ll_close
  <2>2. st \in StateType
    BY DEF Sound, Typed
  <2>3. /\ c \in StateType
        /\ c.pstreams = st.pstreams /\ c.file = st.file
        /\ c.HPOOL = st.HPOOL \ {fd} /\ c.files = st.files
        /\ c.filelist = [st.filelist EXCEPT ![fd] = NULL]
    BY <2>2 DEF StateType
  <2>4. st.filelist \in [Fds -> OpenFile \cup {NULL}] /\ st.HPOOL \subseteq Handles
    BY <2>2 DEF StateType
  <2> HIDE DEF c
  <2>5. c.filelist[fd] = NULL /\ \A h \in Fds : h # fd => c.filelist[h] = st.filelist[h]
    BY <1>2, <2>3, <2>4
  <2>6. Matched(c)
    BY <2>3, <2>5, Ranges DEF Sound, Matched
  <2>7. \A h \in Fds : c.filelist[h] # NULL => st.filelist[h] = c.filelist[h]
    BY <2>5
  <2>8. Honest(st) => Honest(c)
    BY <2>3, <2>7 DEF Honest, Single, Backed
  <2> QED BY <2>1, <2>3, <2>5, <2>6, <2>8 DEF Sound, Typed, Listed
<1> QED BY <1>1, <1>2

-----------------------------------------------------------------------------
(* The stream table *)

\* Appending a stream that is not listed keeps the table exact.
LEMMA InstalledSound ==
  ASSUME NEW st, Sound(st), Len(st.pstreams) # NFILE,
         NEW s \in Objects, ~IsStream(st, s),
         NEW id \in Fds, NEW append, NEW r \in Installed(st, s, id, append)
  PROVE  /\ Sound(r) /\ r.files = st.files /\ r.filelist = st.filelist
         /\ \/ r = st
            \/ id # 0 /\ r.file = [st.file EXCEPT ![s] = Char(id)]
<1> DEFINE p == Append(st.pstreams, s)
           f == [st.file EXCEPT ![s] = Char(id)]
           t == [st EXCEPT !.file = f, !.pstreams = p]
<1>1. r = st \/ (id # 0 /\ r = t)
  BY DEF Installed
<1>2. CASE r = st
  BY <1>2
<1>3. CASE id # 0 /\ r = t
  <2>1. /\ st \in StateType /\ st.pstreams \in Seq(Objects \cup {NULL})
        /\ st.file \in [Objects -> Chars \cup {NULL}]
        /\ Len(st.pstreams) \in STDFILES .. NFILE
    BY DEF Sound, Typed, StateType
  <2>2. /\ p \in Seq(Objects \cup {NULL}) /\ Len(p) = Len(st.pstreams) + 1
        /\ \A i \in 1 .. Len(st.pstreams) : p[i] = st.pstreams[i]
        /\ p[Len(p)] = s
    BY <2>1
  <2>3. f \in [Objects -> Chars \cup {NULL}] /\ f[s] = Char(id)
        /\ \A q \in Objects : q # s => f[q] = st.file[q]
    BY <2>1, CharOf
  <2> HIDE DEF p, f
  <2>4. /\ t \in StateType
        /\ t.pstreams = p /\ t.file = f
        /\ t.filelist = st.filelist /\ t.HPOOL = st.HPOOL /\ t.files = st.files
    BY <2>1, <2>2, <2>3 DEF StateType
  <2> HIDE DEF t
  <2> DEFINE l == Len(st.pstreams)
  <2>5. l \in Nat /\ l >= STDFILES /\ l < NFILE /\ Len(p) = l + 1
    BY <2>1, <2>2, Ranges
  <2>6. /\ \A i \in 1 .. l : i > STDFILES <=> st.pstreams[i] # NULL
        /\ \A q \in Objects : st.file[q] # NULL <=> \E i \in 1 .. l : st.pstreams[i] = q
        /\ \A i, j \in 1 .. l :
             st.pstreams[i] = st.pstreams[j] /\ st.pstreams[i] # NULL => i = j
    BY DEF Sound, Listed
  <2>7. \A i \in 1 .. l : p[i] = st.pstreams[i] /\ p[i] # s
    BY <2>2, <2>6 DEF IsStream
  <2>8. p[l + 1] = s /\ s # NULL /\ Char(id) # NULL
    BY <2>2, <2>5, Ranges, CharOf
  <2> HIDE DEF l
  <2>9. \A i \in 1 .. l + 1 : i \in 1 .. l \/ i = l + 1
    BY <2>5
  <2>10. \A i \in 1 .. l : i \in 1 .. l + 1
    BY <2>5
  <2>11. \A i \in 1 .. l + 1 : i > STDFILES <=> p[i] # NULL
    BY <2>5, <2>6, <2>7, <2>8, <2>9, Ranges
  <2>12. \A q \in Objects : f[q] # NULL <=> \E i \in 1 .. l + 1 : p[i] = q
    <3> SUFFICES ASSUME NEW q \in Objects
                 PROVE  f[q] # NULL <=> \E i \in 1 .. l + 1 : p[i] = q
      OBVIOUS
    <3>1. CASE q = s
      <4>1. l + 1 \in 1 .. l + 1
        BY <2>5
      <4> QED BY <3>1, <4>1, <2>3, <2>8
    <3>2. CASE q # s
      BY <3>2, <2>3, <2>6, <2>7, <2>8, <2>9, <2>10
    <3> QED BY <3>1, <3>2
  <2>13. \A i, j \in 1 .. l + 1 : p[i] = p[j] /\ p[i] # NULL => i = j
    BY <2>6, <2>7, <2>8, <2>9
  <2>14. Listed(t)
    BY <2>4, <2>5, <2>11, <2>12, <2>13 DEF Listed
  <2>15. Typed(t)
    BY <2>4, <2>5, Ranges DEF Typed
  <2> QED BY <1>3, <2>4, <2>14, <2>15 DEF Sound, Matched, f
<1> QED BY <1>1, <1>2, <1>3

LEMMA FopenSound ==
  ASSUME NEW st, Sound(st), NEW s \in Objects, ~IsStream(st, s),
         NEW n \in Name, NEW m \in Modes, NEW r \in basefopen(st, s, n, m)
  PROVE  /\ Sound(r)
         /\ PlainHandles /\ Owned(st) => Owned(r)
         /\ Honest(st) => Honest(r)
<1>1. m.flags \in FlagSets
  BY DEF Modes, FlagSets
<1>2. CASE r = st
  BY <1>2
<1>3. CASE /\ Len(st.pstreams) # NFILE
           /\ \E a \in ll_open(st, n, m.flags) : r \in Installed(a.st, s, a.id, m.append)
  <2>1. PICK a \in ll_open(st, n, m.flags) : r \in Installed(a.st, s, a.id, m.append)
    BY <1>3
  <2>2. /\ Sound(a.st) /\ a.id \in Fds
        /\ a.st.pstreams = st.pstreams /\ a.st.file = st.file
        /\ Honest(st) => Honest(a.st)
        /\ \A h \in Handles : st.filelist[h] # NULL => a.st.filelist[h] # NULL
        /\ Codes = {EZERO} /\ a.id # 0 =>
             /\ a.id \in Handles
             /\ st.filelist[a.id] = NULL /\ a.st.filelist[a.id] # NULL
    BY <1>1, OpenAnswers
  <2>3. ~IsStream(a.st, s) /\ Len(a.st.pstreams) # NFILE
    BY <1>3, <2>2 DEF IsStream
  <2>4. /\ Sound(r) /\ r.files = a.st.files /\ r.filelist = a.st.filelist
        /\ \/ r = a.st
           \/ a.id # 0 /\ r.file = [a.st.file EXCEPT ![s] = Char(a.id)]
    <3>1. Sound(a.st) /\ a.id \in Fds /\ r \in Installed(a.st, s, a.id, m.append)
      BY <2>1, <2>2
    <3> QED BY <3>1, <2>3, InstalledSound, SMTT(60)
  <2>5. ASSUME PlainHandles, Owned(st)
        PROVE  Owned(r)
    <3>0. Char(a.id) = a.id /\ a.id # NULL /\ Codes = {EZERO}
      BY <2>2, <2>5, CharOf DEF PlainHandles
    <3>1. CASE r = a.st
      BY <2>2, <3>0, <2>5, <3>1, Ranges DEF Owned
    <3>2. CASE a.id # 0 /\ r.file = [st.file EXCEPT ![s] = a.id]
                        /\ r.filelist = a.st.filelist
      <4>1. st.file \in [Objects -> Chars \cup {NULL}]
        BY DEF Sound, Typed, StateType
      <4>2. r.file[s] = a.id /\ \A q \in Objects : q # s => r.file[q] = st.file[q]
        BY <3>2, <4>1
      <4>3. /\ a.id \in Handles
            /\ st.filelist[a.id] = NULL /\ r.filelist[a.id] # NULL
        BY <2>2, <3>0, <3>2
      <4>4. \A q \in Objects : q # s => r.file[q] # a.id
        BY <2>5, <3>0, <4>2, <4>3 DEF Owned
      <4>5. \A h \in Handles : st.filelist[h] # NULL => r.filelist[h] # NULL
        BY <2>2, <3>2
      <4> QED BY <2>5, <4>2, <4>3, <4>4, <4>5 DEF Owned
    <3> QED BY <2>2, <2>4, <3>0, <3>1, <3>2
  <2>6. Honest(st) => Honest(r)
    BY <2>2, <2>4 DEF Honest, Single, Backed
  <2> QED BY <2>4, <2>5, <2>6
<1> QED BY <1>2, <1>3 DEF basefopen

\* Moving the last entry into the gap takes one stream out and no other.
LEMMA DroppedSound ==
  ASSUME NEW st, Sound(st), NEW s \in Objects, IsStream(st, s)
  PROVE  LET t == [st EXCEPT !.pstreams = Dropped(st.pstreams, s),
                             !.file = [st.file EXCEPT ![s] = NULL]]
         IN /\ Sound(t) /\ t.filelist = st.filelist /\ t.files = st.files
            /\ t.file = [st.file EXCEPT ![s] = NULL]
<1> DEFINE p == st.pstreams
           l == Len(p)
           d == Dropped(p, s)
           f == [st.file EXCEPT ![s] = NULL]
           t == [st EXCEPT !.pstreams = d, !.file = f]
<1>1. /\ st \in StateType /\ p \in Seq(Objects \cup {NULL})
      /\ st.file \in [Objects -> Chars \cup {NULL}]
      /\ l \in STDFILES .. NFILE /\ l \in Nat
  BY Ranges DEF Sound, Typed, StateType
<1>2. /\ \A i \in 1 .. l : i > STDFILES <=> p[i] # NULL
      /\ \A q \in Objects : st.file[q] # NULL <=> \E i \in 1 .. l : p[i] = q
      /\ \A i, j \in 1 .. l : p[i] = p[j] /\ p[i] # NULL => i = j
  BY DEF Sound, Listed
<1>3. PICK k \in 1 .. l : p[k] = s
  BY <1>2 DEF IsStream
<1>4. k > STDFILES /\ s # NULL
  BY <1>2, <1>3, Ranges
<1>5. l - 1 \in Nat /\ l - 1 \in STDFILES .. NFILE /\ l > STDFILES
  BY <1>1, <1>4, Ranges
<1>6. \A i \in 1 .. l : p[i] \in Objects \cup {NULL}
  BY <1>1
<1>7. /\ d = [i \in 1 .. l - 1 |-> IF p[i] = s THEN p[l] ELSE p[i]]
      /\ \A i \in 1 .. l - 1 : i \in 1 .. l
      /\ l \in 1 .. l
  BY <1>1, <1>5, Ranges DEF Dropped
<1>8. /\ \A i \in 1 .. l - 1 : d[i] = IF p[i] = s THEN p[l] ELSE p[i]
      /\ d \in [1 .. l - 1 -> Objects \cup {NULL}]
  BY <1>6, <1>7
<1>9. d \in Seq(Objects \cup {NULL}) /\ Len(d) = l - 1
  BY <1>5, <1>8
<1>10. /\ f \in [Objects -> Chars \cup {NULL}] /\ f[s] = NULL
       /\ \A q \in Objects : q # s => f[q] = st.file[q]
  BY <1>1
<1> HIDE DEF d, f
<1>11. /\ t \in StateType
       /\ t.pstreams = d /\ t.file = f
       /\ t.filelist = st.filelist /\ t.HPOOL = st.HPOOL /\ t.files = st.files
  BY <1>1, <1>9, <1>10 DEF StateType
<1>len. l \in Nat
  BY <1>1
<1> HIDE DEF t, l, p
<1>12. \A i \in 1 .. l - 1 : p[i] = s => i = k /\ k # l
  BY <1>2, <1>3, <1>4, <1>5, <1>7
<1>13. \A i \in 1 .. l - 1 : i > STDFILES <=> d[i] # NULL
  BY <1>2, <1>4, <1>5, <1>7, <1>8, <1>12
<1>14. \A i \in 1 .. l - 1 : d[i] # s
  BY <1>2, <1>3, <1>4, <1>7, <1>8, <1>12
<1>15. \A q \in Objects : f[q] # NULL <=> \E i \in 1 .. l - 1 : d[i] = q
  <2> SUFFICES ASSUME NEW q \in Objects
               PROVE  f[q] # NULL <=> \E i \in 1 .. l - 1 : d[i] = q
    OBVIOUS
  <2>1. CASE q = s
    BY <2>1, <1>10, <1>14
  <2>2. CASE q # s
    <3>1. ASSUME NEW i \in 1 .. l, p[i] = q
          PROVE  \E j \in 1 .. l - 1 : d[j] = q
      <4>1. CASE i = l
        <5>1. k # l
          BY <1>3, <2>2, <3>1, <4>1
        <5>2. k \in Nat /\ l \in Nat /\ k >= 1 /\ k <= l
          BY <1>3, <1>len
        <5>3. k \in 1 .. l - 1
          BY <5>1, <5>2
        <5> QED BY <1>3, <1>8, <3>1, <4>1, <5>3
      <4>2. CASE i # l
        <5>1. i \in 1 .. l - 1
          BY <1>len, <4>2
        <5> QED BY <1>8, <2>2, <3>1, <5>1
      <4> QED BY <4>1, <4>2
    <3>2. ASSUME NEW i \in 1 .. l - 1, d[i] = q
          PROVE  \E j \in 1 .. l : p[j] = q
      BY <1>7, <1>8, <3>2
    <3> QED BY <1>2, <1>10, <2>2, <3>1, <3>2
  <2> QED BY <2>1, <2>2
<1>16. ASSUME NEW i \in 1 .. l - 1, NEW j \in 1 .. l - 1, d[i] = d[j], d[i] # NULL
       PROVE  i = j
  <2>1. i \in 1 .. l /\ j \in 1 .. l /\ i # l /\ j # l
    BY <1>5, <1>7
  <2> QED BY <1>2, <1>7, <1>8, <1>12, <1>16, <2>1
<1>17. Listed(t)
  BY <1>9, <1>11, <1>13, <1>15, <1>16 DEF Listed
<1>18. Typed(t)
  BY <1>5, <1>9, <1>11 DEF Typed
<1>19. Matched(t)
  BY <1>11 DEF Sound, Matched
<1> QED BY <1>11, <1>17, <1>18, <1>19 DEF Sound, t, d, f, p

LEMMA FcloseSound ==
  ASSUME NEW st, Sound(st), NEW s \in Objects, IsStream(st, s)
  PROVE  /\ Sound(basefclose(st, s)) /\ ~IsStream(basefclose(st, s), s)
         /\ Owned(st) => Owned(basefclose(st, s))
         /\ Honest(st) => Honest(basefclose(st, s))
<1> DEFINE t == [st EXCEPT !.pstreams = Dropped(st.pstreams, s),
                           !.file = [st.file EXCEPT ![s] = NULL]]
           fd == st.file[s]
           c == basefclose(st, s)
<1>1. /\ Sound(t) /\ t.filelist = st.filelist /\ t.files = st.files
      /\ t.file = [st.file EXCEPT ![s] = NULL]
  BY DroppedSound
<1>2. c = ll_close(t, fd)
  BY DEF basefclose
<1>3. st.file \in [Objects -> Chars \cup {NULL}]
  BY DEF Sound, Typed, StateType
<1>4. fd \in Chars
  BY <1>3 DEF IsStream
<1> HIDE DEF t, c
<1>5. /\ Sound(c) /\ c.file = t.file /\ (Honest(t) => Honest(c))
      /\ \A h \in Fds : h # fd => c.filelist[h] = t.filelist[h]
  BY <1>1, <1>2, <1>4, CloseSound
<1>6. c.file[s] = NULL /\ \A q \in Objects : q # s => c.file[q] = st.file[q]
  BY <1>1, <1>3, <1>5
<1>7. ASSUME Owned(st) PROVE Owned(c)
  <2> SUFFICES ASSUME NEW q \in Objects, c.file[q] # NULL
               PROVE  /\ c.file[q] \in Handles
                      /\ c.filelist[c.file[q]] # NULL
                      /\ \A r \in Objects : c.file[r] = c.file[q] => r = q
    BY DEF Owned
  <2>1. q # s /\ c.file[q] = st.file[q]
    BY <1>6
  <2>2. /\ st.file[q] \in Handles /\ st.filelist[st.file[q]] # NULL
        /\ \A r \in Objects : st.file[r] = st.file[q] => r = q
    BY <1>7, <2>1 DEF Owned
  <2>3. st.file[q] # fd /\ st.file[q] \in Fds
    BY <2>1, <2>2, Ranges
  <2> HIDE DEF fd
  <2>4. c.filelist[st.file[q]] = st.filelist[st.file[q]]
    BY <1>1, <1>5, <2>3
  <2>5. \A r \in Objects : c.file[r] = c.file[q] => r = q
    BY <1>6, <2>1, <2>2
  <2> QED BY <2>1, <2>2, <2>4, <2>5
<1>8. Honest(st) => Honest(c)
  BY <1>1, <1>5 DEF Honest, Single, Backed
<1> QED BY <1>5, <1>6, <1>7, <1>8 DEF IsStream, c

-----------------------------------------------------------------------------
(* Removing and renaming: neither table changes. *)

\* Where names are written the way they are stored, comparing the name is
\* comparing the file.
LEMMA NotOpen ==
  ASSUME NEW st, Sound(st), OneSpelling, NEW n \in Name, n.code = EZERO,
         OpenAs(st, n) = {}, NEW h \in Fds, st.filelist[h] # NULL
  PROVE  FileOf(st.filelist[h].name) # FileOf(n)
<1>1. n \in Stored
  BY DEF Stored, OneSpelling, Name
<1>2. st.filelist[h].name \in Stored
  BY DEF Sound, Typed, StateType, OpenFile
<1>3. st.filelist[h].name # n
  BY DEF OpenAs
<1> QED BY <1>1, <1>2, <1>3, OneName DEF OneSpelling

LEMMA RemoveSound ==
  ASSUME NEW st, Sound(st), NEW n \in Name, NEW r \in ll_remove(st, n)
  PROVE  /\ Sound(r) /\ r.file = st.file /\ r.filelist = st.filelist
         /\ Honest(st) => Honest(r)
<1> DEFINE at == Checked(st, n)
           gone == at.files \ {FileOf(n)}
<1>1. /\ Sound(at) /\ at.file = st.file /\ at.filelist = st.filelist
      /\ at.files = st.files
  BY CheckedSound
<1>2. \/ r = at
      \/ /\ r = [at EXCEPT !.files = gone]
         /\ n.code = EZERO /\ OpenAs(at, n) = {}
  BY DEF ll_remove
<1> HIDE DEF at
<1>3. at \in StateType
  BY <1>1 DEF Sound, Typed
<1>4. gone \in SUBSET File
  BY <1>3 DEF StateType
<1>6. st.files \ {FileOf(n)} \subseteq gone
  BY <1>1
<1> HIDE DEF gone
<1>5. /\ r \in StateType /\ r.pstreams = at.pstreams /\ r.file = at.file
      /\ r.HPOOL = at.HPOOL /\ r.filelist = at.filelist
      /\ r.files = at.files \/ (r.files = gone /\ n.code = EZERO /\ OpenAs(at, n) = {})
  BY <1>2, <1>3, <1>4 DEF StateType
<1>7. ASSUME OneSpelling, Backed(st) PROVE Backed(r)
  <2>1. CASE r.files = at.files
    BY <1>1, <1>5, <1>7, <2>1 DEF Backed
  <2>2. CASE r.files = gone /\ n.code = EZERO /\ OpenAs(at, n) = {}
    BY <1>1, <1>5, <1>6, <1>7, <2>2, NotOpen DEF Backed
  <2> QED BY <1>5, <2>1, <2>2
<1>8. Honest(st) => Honest(r)
  BY <1>1, <1>5, <1>7 DEF Honest, Single
<1> QED BY <1>1, <1>5, <1>8 DEF Sound, Typed, Matched, Listed

LEMMA RenameSound ==
  ASSUME NEW st, Sound(st), NEW old \in Name, NEW new \in Name,
         NEW r \in ll_rename(st, old, new)
  PROVE  /\ Sound(r) /\ r.file = st.file /\ r.filelist = st.filelist
         /\ Honest(st) => Honest(r)
<1> DEFINE on(n) == [drive |-> st.driveName, base |-> n.base]
           moved == (st.files \ {on(old)}) \cup {on(new)}
<1>1. CASE r = st
  BY <1>1
<1>2. CASE /\ OpenAs(st, old) = {} /\ st.driveName # NULL /\ old.code = EZERO
           /\ r = [st EXCEPT !.files = moved]
  <2>1. st \in StateType /\ st.driveName \in Drives
    BY <1>2 DEF Sound, Typed, StateType
  <2>2. on(new) \in File
    BY <2>1 DEF File, Name
  <2>3. OneSpelling => on(old) = FileOf(old)
    BY <2>1 DEF OneSpelling, FileOf, Name
  <2>4. moved \in SUBSET File
    BY <2>1, <2>2 DEF StateType
  <2>5. OneSpelling => st.files \ {FileOf(old)} \subseteq moved
    BY <2>3
  <2> HIDE DEF moved
  <2>6. /\ r \in StateType /\ r.pstreams = st.pstreams /\ r.file = st.file
        /\ r.HPOOL = st.HPOOL /\ r.filelist = st.filelist /\ r.files = moved
    BY <1>2, <2>1, <2>4 DEF StateType
  <2>7. ASSUME OneSpelling, Backed(st) PROVE Backed(r)
    BY <1>2, <2>5, <2>6, <2>7, NotOpen DEF Backed
  <2>8. Honest(st) => Honest(r)
    BY <2>6, <2>7 DEF Honest, Single
  <2> QED BY <2>6, <2>8 DEF Sound, Typed, Matched, Listed
<1> QED BY <1>1, <1>2 DEF ll_rename

-----------------------------------------------------------------------------
(* The invariants *)

StreamsInv == TypeOK /\ HandlesMatch /\ TableExact

LEMMA StateSound ==
  StreamsInv <=> Sound(State)
<1> DEFINE st == State
<1>1. /\ st.pstreams = pstreams /\ st.file = file /\ st.HPOOL = HPOOL
      /\ st.filelist = filelist /\ st.files = files /\ st.driveName = driveName
  BY DEF State
<1>2. st \in StateType <=>
        /\ pstreams \in Seq(Objects \cup {NULL}) /\ file \in [Objects -> Chars \cup {NULL}]
        /\ HPOOL \in SUBSET Handles /\ filelist \in [Fds -> OpenFile \cup {NULL}]
        /\ files \in SUBSET File /\ driveName \in Drives \cup {NULL}
  BY DEF StateType, State
<1> HIDE DEF st
<1> QED BY <1>1, <1>2 DEF StreamsInv, TypeOK, HandlesMatch, TableExact,
                          Sound, Typed, Matched, Listed, st

LEMMA BecomeSound ==
  ASSUME NEW st, Sound(st), Become(st)
  PROVE  StreamsInv'
<1>1. st \in StateType
  BY DEF Sound, Typed
<1> QED BY <1>1 DEF Sound, Typed, Matched, Listed, StateType, Become,
                    StreamsInv, TypeOK, HandlesMatch, TableExact

\* Every call leads from sound tables to a sound state with owned handles.
LEMMA StepSound ==
  ASSUME StreamsInv, Next
  PROVE  \E st : /\ Become(st) /\ Sound(st)
                 /\ PlainHandles /\ Owned(State) => Owned(st)
                 /\ Honest(State) => Honest(st)
<1>1. Sound(State)
  BY StateSound
<1>2. CASE \E s \in Objects, n \in Name, m \in Modes : fopen(s, n, m)
  <2>1. PICK s \in Objects, n \in Name, m \in Modes : fopen(s, n, m)
    BY <1>2
  <2>2. PICK r \in basefopen(State, s, n, m) : Become(r)
    BY <2>1 DEF fopen
  <2>3. ~IsStream(State, s)
    BY <2>1 DEF fopen
  <2> QED BY <1>1, <2>2, <2>3, FopenSound
<1>3. CASE \E s \in Objects : fclose(s)
  BY <1>1, <1>3, FcloseSound DEF fclose
<1>4. CASE \E s \in Objects, n \in Name, m \in Modes : freopen(s, n, m)
  <2>1. PICK s \in Objects, n \in Name, m \in Modes : freopen(s, n, m)
    BY <1>4
  <2> DEFINE c == basefclose(State, s)
  <2>2. /\ Sound(c) /\ ~IsStream(c, s)
        /\ Owned(State) => Owned(c)
        /\ Honest(State) => Honest(c)
    BY <1>1, <2>1, FcloseSound DEF freopen
  <2>3. PICK r \in {c} \cup basefopen(c, s, n, m) : Become(r)
    BY <2>1 DEF freopen
  <2> HIDE DEF c
  <2>4. CASE r = c
    BY <2>2, <2>3, <2>4
  <2>5. CASE r \in basefopen(c, s, n, m)
    <3>1. /\ Sound(r) /\ (PlainHandles /\ Owned(c) => Owned(r))
          /\ Honest(c) => Honest(r)
      BY <2>2, <2>5, FopenSound
    <3> QED BY <2>2, <2>3, <3>1
  <2> QED BY <2>3, <2>4, <2>5
<1>5. CASE \E n \in Name : remove(n)
  <2>1. PICK n \in Name : remove(n)
    BY <1>5
  <2>2. PICK r \in ll_remove(State, n) : Become(r)
    BY <2>1 DEF remove
  <2> QED BY <1>1, <2>2, RemoveSound DEF Owned
<1>6. CASE \E old, new \in Name : rename(old, new)
  <2>1. PICK old \in Name, new \in Name : rename(old, new)
    BY <1>6
  <2>2. PICK r \in ll_rename(State, old, new) : Become(r)
    BY <2>1 DEF rename
  <2> QED BY <1>1, <2>2, RenameSound DEF Owned
<1> QED BY <1>2, <1>3, <1>4, <1>5, <1>6 DEF Next

LEMMA InitSound ==
  ASSUME Init
  PROVE  StreamsInv /\ Owned(State) /\ Honest(State)
<1>1. /\ pstreams \in Seq(Objects \cup {NULL}) /\ Len(pstreams) = STDFILES
      /\ \A i \in 1 .. STDFILES : pstreams[i] = NULL
  BY Ranges DEF Init
<1>2. TypeOK
  BY <1>1, Ranges DEF Init, TypeOK
<1>3. HandlesMatch
  BY Ranges DEF Init, HandlesMatch
<1>4. TableExact
  BY <1>1, Ranges DEF Init, TableExact
<1>5. Owned(State)
  BY DEF Init, Owned, State
<1>6. Honest(State)
  BY DEF Init, Honest, Single, Backed, State
<1> QED BY <1>2, <1>3, <1>4, <1>5, <1>6 DEF StreamsInv

LEMMA StreamsInvHolds ==
  Spec => []StreamsInv
<1>1. Init => StreamsInv
  BY InitSound
<1>2. StreamsInv /\ [Next]_vars => StreamsInv'
  <2>1. ASSUME StreamsInv, Next PROVE StreamsInv'
    BY <2>1, StepSound, BecomeSound
  <2>2. ASSUME StreamsInv, UNCHANGED vars PROVE StreamsInv'
    BY <2>2 DEF StreamsInv, TypeOK, HandlesMatch, TableExact, vars
  <2> QED BY <2>1, <2>2
<1> QED BY <1>1, <1>2, PTL DEF Spec

\* The tables keep their types and neither outgrows its array, for every
\* number of entries, handles and objects (fopen.c, fclose.c, fs.c).
THEOREM StreamsTypeCorrect ==
  Spec => []TypeOK
<1>1. StreamsInv => TypeOK
  BY DEF StreamsInv
<1> QED BY <1>1, StreamsInvHolds, PTL

\* A handle is taken exactly while a file is open behind it, malformed names
\* and exhausted handles included (alloc_handle, free_handle).
THEOREM HandlesStayMatched ==
  Spec => []HandlesMatch
<1>1. StreamsInv => HandlesMatch
  BY DEF StreamsInv
<1> QED BY <1>1, StreamsInvHolds, PTL

\* The stream table lists every open stream once (_basefopen, _basefclose).
THEOREM TableStaysExact ==
  Spec => []TableExact
<1>1. StreamsInv => TableExact
  BY DEF StreamsInv
<1> QED BY <1>1, StreamsInvHolds, PTL

\* As long as clients pass no malformed name and alloc_handle gives out no
\* handle beyond 127, every stream has a handle of its own with an open file
\* behind it (_basefopen on _ll_open).  HPOOL goes on to 254, and past 127 the
\* char of a FILE breaks this.
THEOREM StreamsKeepHandles ==
  ASSUME PlainHandles
  PROVE  Spec => []StreamsOwnHandles
<1> DEFINE Inv == StreamsInv /\ Owned(State)
<1>1. Init => Inv
  BY InitSound
<1>2. Inv /\ [Next]_vars => Inv'
  <2>1. ASSUME Inv, Next PROVE Inv'
    <3>1. PICK st : Become(st) /\ Sound(st) /\ Owned(st)
      BY <2>1, StepSound
    <3>2. StreamsInv'
      BY <3>1, BecomeSound
    <3>3. file' = st.file /\ filelist' = st.filelist
      BY <3>1 DEF Become
    <3>4. Owned(State)'
      BY <3>1, <3>3 DEF Owned, State
    <3> QED BY <3>2, <3>4
  <2>2. ASSUME Inv, UNCHANGED vars PROVE Inv'
    BY <2>2 DEF StreamsInv, TypeOK, HandlesMatch, TableExact, Owned, State, vars
  <2> QED BY <2>1, <2>2
<1>3. Inv => StreamsOwnHandles
  BY Ranges DEF StreamsOwnHandles, Owned, State
<1> HIDE DEF Inv
<1> QED BY <1>1, <1>2, <1>3, PTL DEF Spec

\* _ll_open's check of the open handles keeps its promise through every order
\* of calls, the handle 0 that is no handle included.
LEMMA HonestHolds ==
  Spec => [](StreamsInv /\ Honest(State))
<1> DEFINE Inv == StreamsInv /\ Honest(State)
<1>1. Init => Inv
  BY InitSound
<1>2. Inv /\ [Next]_vars => Inv'
  <2>1. ASSUME Inv, Next PROVE Inv'
    <3>1. PICK st : Become(st) /\ Sound(st) /\ Honest(st)
      BY <2>1, StepSound
    <3>2. StreamsInv'
      BY <3>1, BecomeSound
    <3>3. files' = st.files /\ filelist' = st.filelist
      BY <3>1 DEF Become
    <3>4. Honest(State)'
      BY <3>1, <3>3 DEF Honest, Single, Backed, State
    <3> QED BY <3>2, <3>4
  <2>2. ASSUME Inv, UNCHANGED vars PROVE Inv'
    BY <2>2 DEF StreamsInv, TypeOK, HandlesMatch, TableExact, Honest, Single, Backed, State, vars
  <2> QED BY <2>1, <2>2
<1> HIDE DEF Inv
<1>3. Spec => []Inv
  BY <1>1, <1>2, PTL DEF Spec
<1> QED BY <1>3 DEF Inv

\* Where clients reach every volume by one path, a file is open for writing
\* through one handle at most: whoever opens it again, under whatever spelling
\* and with whatever codes of checkfp, may only read (_ll_open).  With two paths
\* a JADOS file has two stored names and may have two writers.
THEOREM WritersAreSingle ==
  ASSUME OnePath
  PROVE  Spec => []OneWriter
<1>1. StreamsInv /\ Honest(State) => OneWriter
  BY DEF Honest, Single, OneWriter, State
<1> QED BY <1>1, HonestHolds, PTL

\* On a machine with one volume, reached by one path, and for names written the way the handle
\* table stores them, no file is removed or renamed while it is open
\* (_ll_remove, _ll_rename).  With two volumes _ll_rename breaks this.
THEOREM OpenFilesStay ==
  ASSUME OneSpelling
  PROVE  Spec => []OpenFilesExist
<1>1. StreamsInv /\ Honest(State) => OpenFilesExist
  BY DEF Honest, Backed, OpenFilesExist, State
<1> QED BY <1>1, HonestHolds, PTL

=============================================================================
