---------------------------- MODULE StreamBuffer ----------------------------
(***************************************************************************)
(* The buffer of one stream, io/: readbuf.c, writebuf.c, fflush.c,         *)
(* putget.c, fseek.c, fgetpos.c, ungetc.c, with the calls around them.     *)
(* One buffer serves both directions: characters read ahead while a stream *)
(* is incoming, characters not yet written while it is outgoing.           *)
(*                                                                         *)
(* st is the FILE together with the file below its handle, one on a FAT    *)
(* volume: its bytes and the handle's position.  fatfs_read reads exactly  *)
(* what there is, fatfs_write returns how much it wrote, less than it was  *)
(* asked to when the volume is full, and fatfs_getpos always returns 0     *)
(* (nothing moves f_pos).  That the medium works is assumed.  The driver   *)
(* of JADOS moves clusters, not characters: JadosFS models it, and its     *)
(* files are not a sequence of bytes that this module could be about.      *)
(***************************************************************************)
EXTENDS Integers, Sequences, FiniteSets

CONSTANTS
  BUFSIZ,      \* size of the buffer (512)
  Letters,     \* characters besides line ends
  BinFiles,    \* what the file may hold at the start, for binary streams
  TextFiles,   \* and for text streams
  MAX_LEN      \* length clients write files to (bound)

NUL == 0
LF == 10
CR == 13
EOF == -1
Chars == Letters \cup {NUL, LF, CR}

ASSUME BufferAssumption ==
  /\ BUFSIZ \in Nat \ {0, 1} /\ MAX_LEN \in Nat
  /\ Letters \subseteq 1 .. 127 /\ {LF, CR} \cap Letters = {}
  /\ BinFiles \cup TextFiles \subseteq Seq(Chars)

VARIABLES
  st,      \* bytes, pos: the file; in, out, skip, err: _F_IN, _F_OUT, _F_SKIPLF,
           \* _F_ERR; level, curp, buffer
  mode,    \* what the stream was opened with: read, writ, bin: _F_READ, _F_WRIT, _F_BIN
  open,    \* token = FILTOK
  ret,     \* what the last call returned
  cut      \* no variable of the code: some day the driver wrote some of a
           \* buffer and not all of it

vars == <<st, mode, open, ret, cut>>

Modes == {m \in [read : BOOLEAN, writ : BOOLEAN, bin : BOOLEAN] : m.read \/ m.writ}

Overlay(s, p, c) ==
  [i \in 1 .. (IF p + Len(c) > Len(s) THEN p + Len(c) ELSE Len(s)) |->
     IF i \in p + 1 .. p + Len(c) THEN c[i - p] ELSE s[i]]

-----------------------------------------------------------------------------
(* The driver below: FatFs, through fs_fat.c *)

_ll_getpos(s) == 0

\* How many of the characters a flush gives it the driver may take.
Taken(s) == IF s.out THEN 0 .. s.level ELSE {0}

\* The volume is full in the middle of a buffer.
Cuts(s, k) == s.out /\ 0 < k /\ k < s.level

\* Mutant: the driver says it wrote what it was asked to.
WrittenAsked(n, k) == n

\* _ll_write's result for k characters taken of n.
Written(n, k) == k

-----------------------------------------------------------------------------
(* The buffer *)

\* oneflush: what was read ahead is dropped before the position it was
\* counted for is set.
Flushed(s, k) ==
  LET left == IF s.out \/ mode.read THEN 0 ELSE s.level IN
  [s EXCEPT !.bytes = IF s.out THEN Overlay(@, s.pos, SubSeq(s.buffer, 1, k)) ELSE @,
            !.pos = IF s.out THEN @ + k ELSE IF s.in THEN _ll_getpos(s) - left ELSE @,
            !.err = @ \/ (s.out /\ Written(s.level, k) = 0),
            !.buffer = IF ~s.out /\ mode.read THEN [i \in 1 .. BUFSIZ |-> NUL] ELSE @,
            !.level = left, !.curp = 0, !.in = FALSE, !.out = FALSE]

FlushFails(s, k) == s.out /\ Written(s.level, k) = 0

\* Mutant: no more regard for the size of the buffer than for line ends.
PortionUnbounded(s) == Len(s.bytes) - s.pos

\* How much _readbuf reads at a time: a buffer, or a line of a text stream.
Portion(s) ==
  LET rest == IF Len(s.bytes) - s.pos < BUFSIZ THEN Len(s.bytes) - s.pos ELSE BUFSIZ
      ends == {n \in 1 .. rest : s.bytes[s.pos + n] \in {LF, CR, NUL}}
  IN  IF mode.bin \/ ends = {} THEN rest ELSE CHOOSE n \in ends : \A m \in ends : n <= m

\* _readbuf's refill.
Filled(s) ==
  LET n == Portion(s) IN
  [s EXCEPT !.level = n, !.curp = 0, !.pos = @ + n,
            !.buffer = [i \in 1 .. BUFSIZ |-> IF i <= n THEN s.bytes[s.pos + i] ELSE @[i]]]

\* The text that a line ends in was read with it.
EndsText(s) == ~mode.bin /\ s.level > 0 /\ s.buffer[s.level] = NUL

\* _readbuf: the state after it, and whether there is a character.
_readbuf(s, k) ==
  LET turned == [Flushed(s, k) EXCEPT !.level = 0, !.in = TRUE]
      begun == IF s.in THEN s ELSE IF s.out THEN turned
               ELSE [s EXCEPT !.level = 0, !.curp = 0, !.in = TRUE]
      filled == Filled(begun)
  IN  IF s.in /\ s.level > 0 THEN [s |-> s, ok |-> TRUE]
      ELSE IF FlushFails(s, k) THEN [s |-> Flushed(s, k), ok |-> FALSE]
      ELSE [s |-> filled, ok |-> filled.level > 0 /\ ~EndsText(filled)]

Current(s) == s.buffer[s.curp + 1]

\* Mutant: the level is not counted down.
NextUncounted(s) == [s EXCEPT !.curp = @ + 1]

\* The character at curp is taken.
Next1(s) == [s EXCEPT !.level = @ - 1, !.curp = @ + 1]

\* _basegetc: past the LF behind a CR; a CR is a line end, a NUL the end.
_basegetc(s, k) ==
  LET first == _readbuf(s, k)
      r == IF first.ok /\ ~mode.bin /\ Current(first.s) = LF /\ first.s.skip
           THEN _readbuf([Next1(first.s) EXCEPT !.skip = FALSE], 0) ELSE first
  IN  IF ~r.ok THEN [s |-> r.s, c |-> EOF]
      ELSE IF mode.bin \/ Current(r.s) \notin {CR, NUL} THEN [s |-> Next1(r.s), c |-> Current(r.s)]
      ELSE IF Current(r.s) = CR THEN [s |-> [Next1(r.s) EXCEPT !.skip = TRUE], c |-> LF]
      ELSE [s |-> [r.s EXCEPT !.level = @ - 1], c |-> EOF]

\* _writebuf flushes a buffer that is full or was read into.
Flushes(s) == s.in \/ (s.out /\ s.curp >= BUFSIZ)
_writebuf(s, k) ==
  IF Flushes(s) THEN [Flushed(s, k) EXCEPT !.level = 0]
  ELSE IF s.out THEN s ELSE [s EXCEPT !.level = 0, !.curp = 0]

\* _baseputc of one character, line ends aside.
PutFails(s, k) == Flushes(s) /\ FlushFails(s, k)
PutCuts(s, k) == Flushes(s) /\ Cuts(s, k)
_baseputc(s, c, k) ==
  IF PutFails(s, k) THEN [Flushed(s, k) EXCEPT !.err = TRUE]
  ELSE LET w == _writebuf(s, k) IN
       [w EXCEPT !.out = TRUE, !.buffer[w.curp + 1] = c, !.curp = @ + 1, !.level = @ + 1]

\* Mutant: the line stays in the buffer.
LineKept(s, k) == s

\* _baseputc flushes behind the LF of a text stream, however that ends.
LineEnd(s, k) == Flushed(s, k)

-----------------------------------------------------------------------------
(* What the client sees *)

\* The file with what waits in the buffer, and the client's place in it.
All(s) == IF s.out THEN Overlay(s.bytes, s.pos, SubSeq(s.buffer, 1, s.level)) ELSE s.bytes
Place(s) == IF s.in THEN s.pos - s.level ELSE IF s.out THEN s.pos + s.level ELSE s.pos

\* The text that bytes stand for: CR and CR LF end a line, NUL the text.
Text(b) ==
  LET end == {i \in 1 .. Len(b) : b[i] = NUL}
      kept == {i \in 1 .. Len(b) : /\ \A e \in end : i < e
                                   /\ ~(b[i] = LF /\ i > 1 /\ b[i - 1] = CR)}
  IN  [j \in 1 .. Cardinality(kept) |->
         LET i == CHOOSE i \in kept : Cardinality({h \in kept : h < i}) = j - 1
         IN  IF b[i] = CR THEN LF ELSE b[i]]

Reading(b) == IF mode.bin THEN b ELSE Text(b)
Contents == Reading(All(st))
At == Len(Reading(SubSeq(All(st), 1, Place(st))))

B == INSTANCE ByteStream
       WITH contents <- Contents, handed <- Reading(st.bytes), at <- At,
            err <- st.err, ret <- ret, cut <- cut

-----------------------------------------------------------------------------
Init ==
  /\ mode \in Modes /\ open = TRUE
  /\ \E b \in IF ~mode.read THEN {<< >>} ELSE IF mode.bin THEN BinFiles ELSE TextFiles :
       st = [bytes |-> b, pos |-> 0, in |-> FALSE, out |-> FALSE, skip |-> FALSE, err |-> FALSE,
               level |-> 0, curp |-> 0, buffer |-> [i \in 1 .. BUFSIZ |-> NUL]]
  /\ ret = 0 /\ cut = FALSE

Returns(val) == ret' = val

Call == open /\ UNCHANGED mode
Stays == open' = open
Whole == UNCHANGED cut
CutWhen(p) == cut' = (cut \/ p)

\* A file that exists is opened with "r" or "r+".  The buffer comes from
\* malloc with whatever it holds.
fopen ==
  /\ ~open /\ open' = TRUE /\ Returns(0)
  /\ st' = [st EXCEPT !.pos = 0, !.in = FALSE, !.out = FALSE, !.skip = FALSE, !.err = FALSE,
                      !.level = 0, !.curp = 0]
  /\ mode' \in {m \in Modes : m.read /\ m.bin = mode.bin} /\ Whole

\* What it returns is what the void function _ll_close leaves behind.
fclose ==
  /\ Call /\ open' = FALSE
  /\ \E k \in Taken(st), e \in {0, EOF} :
       /\ st' = (IF st.out THEN Flushed(st, k) ELSE st)
       /\ Returns(e) /\ CutWhen(Cuts(st, k))

Refused == st' = [st EXCEPT !.err = TRUE]

fgetc ==
  /\ Call /\ Stays
  /\ \/ ~mode.read /\ Refused /\ Returns(EOF) /\ Whole
     \/ /\ mode.read
        /\ \E k \in Taken(st) :
             LET g == _basegetc(st, k) IN
             st' = g.s /\ Returns(g.c) /\ CutWhen(Cuts(st, k))

\* A character that is not a line end of a text stream.
fputc(c) ==
  /\ Call /\ Stays /\ (mode.bin \/ c # LF)
  /\ mode.writ
  /\ \E k \in Taken(st) :
       /\ st' = _baseputc(st, c, k)
       /\ Returns(IF PutFails(st, k) THEN EOF ELSE c) /\ CutWhen(PutCuts(st, k))

\* A line end: CR and LF, and the line is flushed.
fputc_lf ==
  /\ Call /\ Stays /\ ~mode.bin
  /\ \E k1 \in Taken(st) :
       LET s1 == _baseputc(st, CR, k1)
           c1 == PutCuts(st, k1)
       IN IF PutFails(st, k1) THEN st' = s1 /\ Returns(EOF) /\ CutWhen(c1)
          ELSE \E k2 \in Taken(s1) :
                 LET s2 == _baseputc(s1, LF, k2)
                     c2 == c1 \/ PutCuts(s1, k2)
                 IN IF PutFails(s1, k2) THEN st' = s2 /\ Returns(EOF) /\ CutWhen(c2)
                    ELSE \E k3 \in Taken(s2) :
                           st' = LineEnd(s2, k3) /\ Returns(LF) /\ CutWhen(c2 \/ Cuts(s2, k3))

fputc_refused == Call /\ Stays /\ ~mode.writ /\ Refused /\ Returns(EOF) /\ Whole

fflush ==
  /\ Call /\ Stays
  /\ \E k \in Taken(st) :
       /\ st' = Flushed(st, k) /\ Returns(IF FlushFails(st, k) THEN EOF ELSE 0)
       /\ CutWhen(Cuts(st, k))

\* fseek; _ll_seek returns nothing, so either way of its test may be taken.
fseek(offset, origin) ==
  /\ Call /\ Stays
  /\ \E k \in Taken(st), e \in {0, EOF} :
       LET s == Flushed(st, k)
           to == CASE origin = "SEEK_SET" -> offset
                   [] origin = "SEEK_CUR" -> _ll_getpos(s) + offset
                   [] origin = "SEEK_END" -> Len(s.bytes) + offset
       IN /\ CutWhen(Cuts(st, k))
          /\ IF FlushFails(st, k) THEN st' = s /\ Returns(EOF)
             ELSE /\ to \in 0 .. Len(s.bytes)
                  /\ st' = [s EXCEPT !.pos = to, !.err = @ \/ e = EOF]
                  /\ Returns(e)

fgetpos ==
  /\ Call /\ Stays /\ UNCHANGED st /\ Whole
  /\ Returns(IF st.in THEN _ll_getpos(st) - st.level
             ELSE IF st.out THEN _ll_getpos(st) + st.level ELSE _ll_getpos(st))

ungetc(c) ==
  /\ Call /\ Stays
  /\ \/ /\ st.in /\ st.curp # 0
        /\ st' = [st EXCEPT !.level = @ + 1, !.curp = @ - 1, !.buffer[st.curp] = c]
        /\ Returns(c) /\ Whole
     \/ /\ ~st.in \/ st.curp = 0
        /\ \E k \in Taken(st) :
             /\ CutWhen(Cuts(st, k))
             /\ IF FlushFails(st, k) THEN st' = Flushed(st, k) /\ Returns(EOF)
                ELSE /\ st' = [Flushed(st, k) EXCEPT !.in = TRUE, !.level = 1, !.curp = BUFSIZ - 1,
                                                     !.buffer[BUFSIZ] = c]
                     /\ Returns(c)

clearerr == Call /\ Stays /\ st' = [st EXCEPT !.err = FALSE] /\ Returns(0) /\ Whole

-----------------------------------------------------------------------------
(* Clients keep to the rules of C: they seek to a place when they turn from *)
(* reading to writing, flush only what they wrote, push back no more than   *)
(* the character they read, and not after the end of the file was met.      *)
(* Text they write at its end, and look for no place in but its start and   *)
(* end.  The client does not look at a place fgetpos gives it.              *)

MayWrite == ~st.in /\ (mode.bin \/ At = Len(Contents))

MayPushBack ==
  /\ mode.read /\ At > 0 /\ (mode.bin \/ Contents[At] \in Letters)
  /\ st.in => st.curp # 0

Next ==
  \/ fopen \/ fclose \/ fgetc \/ clearerr \/ fgetpos
  \/ \E c \in Letters \cup {LF} : MayWrite /\ Place(st) < MAX_LEN /\ fputc(c)
  \/ MayWrite /\ Place(st) + 1 < MAX_LEN /\ fputc_lf
  \/ fputc_refused
  \/ ~st.in /\ fflush
  \/ \E d \in 0 .. 1 : mode.bin /\ fseek(d, "SEEK_CUR")
  \/ \E p \in 0 .. Len(All(st)) : (mode.bin \/ p = 0) /\ fseek(p, "SEEK_SET")
  \/ fseek(0, "SEEK_END")
  \/ MayPushBack /\ ungetc(Contents[At])

Spec == Init /\ [][Next]_vars

-----------------------------------------------------------------------------
(* Properties *)

TypeOK ==
  /\ st.bytes \in Seq(Chars) /\ st.pos \in 0 .. Len(st.bytes)
  /\ st.level \in 0 .. BUFSIZ /\ st.curp \in 0 .. BUFSIZ
  /\ st.buffer \in [1 .. BUFSIZ -> Chars]
  /\ \A f \in {"in", "out", "skip", "err"} : st[f] \in BOOLEAN
  /\ mode \in Modes /\ open \in BOOLEAN /\ cut \in BOOLEAN
  /\ ret \in Int

\* The one buffer serves one direction at a time.  Incoming, what is left of
\* it is the piece of the file just before the handle's position; outgoing,
\* it is full up to where the next character goes (readbuf.c, writebuf.c).  A
\* character pushed back on what a cut flush lost is not of the file.
BufferIsWindow ==
  /\ ~(st.in /\ st.out)
  /\ st.in => st.curp + st.level <= BUFSIZ /\ st.level <= st.pos
  /\ st.in /\ ~cut => \A i \in 1 .. st.level :
                        st.buffer[st.curp + i] = st.bytes[st.pos - st.level + i]
  /\ st.out => st.curp = st.level /\ st.level > 0

\* With its buffer, its line ends and its turns from reading to writing, a
\* stream on a FAT volume does what ByteStream says: what was put is read back
\* at its place, and what does not get to the file is not lost without the
\* error indicator; until a flush is cut short by the end of the volume, which
\* oneflush does not notice (fflush.c:23: any number but 0 will do).
IsByteStream == B!Spec

\* A line that was put whole does not stay in the buffer of a text stream:
\* after the LF it is in the file (putget.c, "flush buffer after \n").
LinesAreWritten ==
  ~mode.bin /\ st.out => \A i \in 1 .. st.level : st.buffer[i] # LF

-----------------------------------------------------------------------------
(* What comments of the code say and the model does not keep. *)

\* "seek offset from current position" (fs_fat.c:203): a binary stream that is
\* sought no further than where it is stays there.
SeeksFromPlace ==
  [][mode.bin /\ fseek(0, "SEEK_CUR") /\ ret' = 0 => Place(st') = Place(st)]_vars

\* The NUL is the "EOF for ASCII files" (readbuf.c:50): fgetc returns EOF when
\* every character before it was read.
TextIsRead == [][mode.read /\ fgetc /\ ret' = EOF => At = Len(Contents)]_vars

=============================================================================
