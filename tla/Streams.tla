------------------------------ MODULE Streams ------------------------------
(***************************************************************************)
(* Streams and handles: the stream table of io/fopen.c, io/fclose.c and    *)
(* io/freopen.c on top of the handle table of fs/fs.c, for files on JADOS  *)
(* volumes that stay mounted.  What the file system driver answers is      *)
(* chosen freely where it depends on the medium or on free memory.         *)
(*                                                                         *)
(* The library is single-threaded and each call below is one step.  An     *)
(* operator takes the state a call finds and returns the states it may     *)
(* leave, because freopen strings two calls together.                      *)
(*                                                                         *)
(* Reading and writing a stream changes neither table and is left out.     *)
(* The standard streams only take up the first entries of the stream       *)
(* table: clients neither close nor reopen them here.                      *)
(***************************************************************************)
EXTENDS Integers, Sequences, FiniteSets

CONSTANTS
  NFILE,       \* _NFILE_: entries of the stream table
  STDFILES,    \* entries _ll_init_std takes for the standard streams
  Handles,     \* the handles alloc_handle may give out
  Objects,     \* FILE objects malloc may return
  Drives,      \* mounted volumes
  Paths,       \* what may stand between drive and file name
  Bases,       \* file names without drive and path
  Spellings,   \* ways to write a drive, path and file name
  PLAIN,       \* the spelling the handle table stores
  Codes,       \* what checkfp answers to the names clients pass
  NULL

EZERO == 0
EINVDRV == 15

ASSUME TableAssumption ==
  /\ STDFILES \in Nat \ {0} /\ NFILE \in Nat /\ STDFILES < NFILE
  /\ Handles # {} /\ Handles \subseteq 10 .. 254
  /\ PLAIN \in Spellings
  /\ EZERO \in Codes /\ Codes \subseteq {EZERO, 2, 3, EINVDRV}
  /\ NULL \notin Drives \cup Objects

VARIABLES
  pstreams,   \* _pstreams: its first maxfiles entries, NULL for a standard one
  file,       \* the fd each FILE object holds, or NULL when not open
  HPOOL,      \* the handles that are taken
  filelist,   \* the open file behind each handle, or NULL
  files,      \* the files the volumes hold
  driveName   \* FPInfo.psz_driveName: the drive of the last name checked

vars == <<pstreams, file, HPOOL, filelist, files, driveName>>

\* A name as a client writes it: code is what checkfp finds wrong with it.
Name == [drive : Drives, path : Paths, base : Bases, spelling : Spellings, code : Codes]

\* What _ll_open puts together from the parts of a name and stores.
Plain(n) == [n EXCEPT !.spelling = PLAIN]
Stored == {n \in Name : n.spelling = PLAIN /\ n.code = EZERO}

\* The file a name means: a JADOS volume has one directory, and find_file
\* leaves the path out of its comparison.
File == [drive : Drives, base : Bases]
FileOf(n) == [drive |-> n.drive, base |-> n.base]

\* fopen's modes as _ll_open and _ll_creat get to see them.
Modes == { [flags |-> {"READ"}, append |-> FALSE],
           [flags |-> {"READ", "WRIT"}, append |-> FALSE],
           [flags |-> {"WRIT", "CREATE"}, append |-> FALSE],
           [flags |-> {"WRIT", "CREATE"}, append |-> TRUE],
           [flags |-> {"READ", "WRIT", "CREATE"}, append |-> FALSE] }

\* 0 is what alloc_handle answers when no handle is free, and fopen takes
\* checkfp's code for a handle.
Fds == Handles \cup Codes
OpenFile == [name : Stored, flags : SUBSET {"READ", "WRIT", "CREATE"}]

\* What a char keeps of a handle.
Char(id) == IF id > 127 THEN id - 256 ELSE id
Chars == {Char(h) : h \in Fds}

ASSUME NullAssumption == NULL \notin OpenFile /\ NULL \notin Chars

State == [pstreams |-> pstreams, file |-> file, HPOOL |-> HPOOL,
          filelist |-> filelist, files |-> files, driveName |-> driveName]

Become(st) ==
  /\ pstreams' = st.pstreams /\ file' = st.file
  /\ HPOOL' = st.HPOOL /\ filelist' = st.filelist
  /\ files' = st.files /\ driveName' = st.driveName

Init ==
  /\ pstreams = [i \in 1 .. STDFILES |-> NULL]
  /\ file = [s \in Objects |-> NULL]
  /\ HPOOL = {}
  /\ filelist = [h \in Fds |-> NULL]
  /\ files = {}
  /\ driveName = NULL

-----------------------------------------------------------------------------
(* The handle table *)

\* Mutant: a handle that is taken already is given out again.
alloc_first(st) == CHOOSE h \in Handles : \A k \in Handles : h <= k

alloc_handle(st) ==
  LET free == Handles \ st.HPOOL IN
  IF free = {} THEN 0 ELSE CHOOSE h \in free : \A k \in free : h <= k

Taken(st, h) == st.HPOOL \cup ({h} \cap Handles)

\* The handles that are open on the file stored under name n.
OpenAs(st, n) ==
  {h \in Fds : st.filelist[h] # NULL /\ st.filelist[h].name = n}

\* The drive checkfp leaves in FPInfo: none when it found none.
Checked(st, n) == [st EXCEPT !.driveName = IF n.code = EINVDRV THEN NULL ELSE n.drive]

\* Mutant: a file that is open already is opened for writing all the same.
granted_all(st, n, flags) == flags

Granted(st, n, flags) ==
  IF OpenAs(st, n) = {} THEN flags ELSE (flags \ {"WRIT"}) \cup {"READ"}

\* What filelist, HPOOL and the volume are after the driver opened n.
Opened(st, n, flags) ==
  LET h == alloc_handle(st) IN
  [st EXCEPT !.HPOOL = Taken(st, h),
             !.filelist = [@ EXCEPT ![h] =
                            [name |-> n, flags |-> Granted(st, n, flags)]],
             !.files = @ \cup {FileOf(n)}]

\* nkcfs_open opens a file that exists unless it is to be created, and creates
\* one that does not unless it is to be read.
Openable(st, n, flags) ==
  IF FileOf(n) \in st.files THEN "CREATE" \notin flags
  ELSE {"CREATE", "WRIT"} \cap flags # {} /\ "READ" \notin flags

\* Mutant: the handle of a file that did not open stays taken.
ll_open_leaky(st, n, flags) ==
  LET at == Checked(st, n)
      plain == Plain(n)
  IN IF n.code # EZERO THEN {[id |-> n.code, st |-> at]}
     ELSE {[id |-> 0, st |-> [at EXCEPT !.HPOOL = Taken(at, alloc_handle(at))]]}
          \cup
          {[id |-> alloc_handle(at), st |-> Opened(at, plain, flags)] :
             x \in {y \in {0} : Openable(at, plain, flags)}}

\* _ll_open and _ll_creat: the answers and the states they may leave.
ll_open(st, n, flags) ==
  LET at == Checked(st, n)
      plain == Plain(n)
      refused == {[id |-> 0, st |-> at]}
      opened == [id |-> alloc_handle(at), st |-> Opened(at, plain, flags)]
  IN IF n.code # EZERO THEN {[id |-> n.code, st |-> at]}
     ELSE IF "CREATE" \in flags /\ OpenAs(at, plain) # {} THEN refused
     ELSE IF Openable(at, plain, flags) THEN refused \cup {opened}
     ELSE refused

\* An fd that went through a char and came out negative is none: _ll_close
\* looks it up in front of filelist, where the model has no open file.
ll_close(st, fd) ==
  IF fd \notin Fds \/ st.filelist[fd] = NULL THEN st
  ELSE [st EXCEPT !.filelist = [@ EXCEPT ![fd] = NULL], !.HPOOL = @ \ {fd}]

\* Mutant: the name is not compared with those of the open files.
ll_remove_open(st, n) ==
  LET at == Checked(st, n) IN
  IF n.code # EZERO THEN {at}
  ELSE {at, [at EXCEPT !.files = @ \ {FileOf(n)}]}

\* The name is compared as the client wrote it; the driver finds the file
\* under any spelling.
ll_remove(st, n) ==
  LET at == Checked(st, n) IN
  IF n.code # EZERO \/ OpenAs(at, n) # {} THEN {at}
  ELSE {at, [at EXCEPT !.files = @ \ {FileOf(n)}]}

\* The old name is checked into a structure of its own and the answer is
\* dropped, the new one is not checked: the volume is that of the name checked
\* before this call.  Its driver parses both names into a structure of its
\* own, and leaves out the drive.
ll_rename(st, old, new) ==
  LET on(n) == [drive |-> st.driveName, base |-> n.base] IN
  IF /\ OpenAs(st, old) = {} /\ st.driveName # NULL
     /\ old.code = EZERO /\ on(old) \in st.files
     /\ new.code = EZERO /\ on(new) \notin st.files
  THEN {st, [st EXCEPT !.files = (@ \ {on(old)}) \cup {on(new)}]}
  ELSE {st}

-----------------------------------------------------------------------------
(* The stream table.  A FILE object whose fopen failed is freed.            *)

IsStream(st, s) == st.file[s] # NULL

\* fopen with the answer id of _ll_open: 0 means failure, and of every other
\* answer the stream holds what a char keeps.  _ll_seek returns nothing, and
\* fseek reads what it returned: appending fails or not, and leaves the handle
\* as it is.
Installed(st, s, id, append) ==
  LET stream == [st EXCEPT !.file = [@ EXCEPT ![s] = Char(id)],
                           !.pstreams = Append(@, s)]
  IN IF id = 0 THEN {st}
     ELSE IF append THEN {stream, st} ELSE {stream}

\* Mutant: the table is taken to have one entry more.
basefopen_overfull(st, s, n, m) ==
  IF Len(st.pstreams) = NFILE + 1 THEN {st}
  ELSE {st} \cup
       UNION {Installed(a.st, s, a.id, m.append) : a \in ll_open(st, n, m.flags)}

\* {st}: no memory for the name, the object or the buffer.
basefopen(st, s, n, m) ==
  IF Len(st.pstreams) = NFILE THEN {st}
  ELSE {st} \cup
       UNION {Installed(a.st, s, a.id, m.append) : a \in ll_open(st, n, m.flags)}

\* Mutant: nothing moves into the gap.
dropped_badly(t, s) ==
  [i \in 1 .. Len(t) - 1 |-> IF t[i] = s THEN NULL ELSE t[i]]

\* The last entry moves into the gap.
Dropped(t, s) ==
  [i \in 1 .. Len(t) - 1 |-> IF t[i] = s THEN t[Len(t)] ELSE t[i]]

basefclose(st, s) ==
  ll_close([st EXCEPT !.pstreams = Dropped(@, s), !.file = [@ EXCEPT ![s] = NULL]],
           st.file[s])

-----------------------------------------------------------------------------
fopen(s, n, m) ==
  /\ ~IsStream(State, s)
  /\ \E st \in basefopen(State, s, n, m) : Become(st)

fclose(s) ==
  /\ IsStream(State, s)
  /\ Become(basefclose(State, s))

\* fclose's result is what the void _ll_close left behind: freopen goes on or
\* stops there.
freopen(s, n, m) ==
  /\ IsStream(State, s)
  /\ LET closed == basefclose(State, s) IN
     \E st \in {closed} \cup basefopen(closed, s, n, m) : Become(st)

remove(n) == \E st \in ll_remove(State, n) : Become(st)

rename(old, new) == \E st \in ll_rename(State, old, new) : Become(st)

Next ==
  \/ \E s \in Objects, n \in Name, m \in Modes : fopen(s, n, m)
  \/ \E s \in Objects : fclose(s)
  \/ \E s \in Objects, n \in Name, m \in Modes : freopen(s, n, m)
  \/ \E n \in Name : remove(n)
  \/ \E old, new \in Name : rename(old, new)

Spec == Init /\ [][Next]_vars

-----------------------------------------------------------------------------
(* Properties *)

\* Every variable keeps its type, and neither table outgrows its array.
TypeOK ==
  /\ pstreams \in Seq(Objects \cup {NULL}) /\ Len(pstreams) \in STDFILES .. NFILE
  /\ file \in [Objects -> Chars \cup {NULL}]
  /\ HPOOL \subseteq Handles
  /\ filelist \in [Fds -> OpenFile \cup {NULL}]
  /\ files \subseteq File
  /\ driveName \in Drives \cup {NULL}

\* A handle is taken exactly while a file is open behind it, whichever of the
\* steps of _ll_open fails (fs.c, alloc_handle and free_handle).
HandlesMatch == \A h \in Handles : h \in HPOOL <=> filelist[h] # NULL

\* What a stream got from _ll_open is the handle of a file that is open, and
\* of no other stream ("filedescriptor or ZERO if no success", fs.c,
\* _ll_open): closing a stream closes its own file.
StreamsOwnHandles ==
  \A s \in Objects : file[s] # NULL =>
    /\ file[s] \in Fds /\ filelist[file[s]] # NULL
    /\ \A r \in Objects : file[r] = file[s] => r = s

\* The table lists every open stream once and nothing else, through all the
\* moves fclose and freopen make: closeall reaches each one.
TableExact ==
  /\ \A i \in 1 .. Len(pstreams) :
       i > STDFILES <=> pstreams[i] # NULL
  /\ \A s \in Objects :
       file[s] # NULL <=> \E i \in 1 .. Len(pstreams) : pstreams[i] = s
  /\ \A i, j \in 1 .. Len(pstreams) :
       pstreams[i] = pstreams[j] /\ pstreams[i] # NULL => i = j

\* A file is open for writing through one handle at most ("this file is
\* already open, we can open it read only", fs.c, _ll_open).
OneWriter ==
  \A h, k \in Fds :
    /\ filelist[h] # NULL /\ filelist[k] # NULL
    /\ FileOf(filelist[h].name) = FileOf(filelist[k].name)
    /\ {"WRIT"} \subseteq filelist[h].flags \cap filelist[k].flags
    => h = k

\* No file vanishes or changes its name while it is open ("this file is
\* already open, close it before renaming it !", fs.c, _ll_remove and
\* _ll_rename).
OpenFilesExist == \A h \in Fds : filelist[h] # NULL => FileOf(filelist[h].name) \in files

=============================================================================
