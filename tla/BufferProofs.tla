---------------------------- MODULE BufferProofs ----------------------------
(* The buffer of a stream: its types, its shape and the lines it may not    *)
(* keep, for buffers of every size, whatever clients do and the driver      *)
(* answers; that what was read ahead is the piece of the file before the    *)
(* handle's position; and that a stream is a ByteStream, a binary one and   *)
(* one of text.                                                             *)
(*                                                                          *)
(* Every operation is a function of the state of the stream, so the lemmas  *)
(* say what each function keeps of Shaped, and the steps follow.            *)
EXTENDS StreamBuffer, SequenceTheorems, FiniteSetTheorems, WellFoundedInduction, TLAPS

StType ==
  [bytes : Seq(Chars), pos : Nat, in : BOOLEAN, out : BOOLEAN, skip : BOOLEAN, err : BOOLEAN,
   level : 0 .. BUFSIZ, curp : 0 .. BUFSIZ, buffer : [1 .. BUFSIZ -> Chars]]

\* The buffer serves one direction; incoming, what is left of it fits behind
\* curp and was read from the file; outgoing, it is full up to curp.
Shaped(s) ==
  /\ s \in StType
  /\ s.pos <= Len(s.bytes)
  /\ ~(s.in /\ s.out)
  /\ s.in => mode.read /\ s.curp + s.level <= BUFSIZ /\ s.level <= s.pos
  /\ s.out => s.curp = s.level /\ s.level > 0

\* No whole line waits in the buffer.
NoLine(s) == ~mode.bin /\ s.out => \A i \in 1 .. s.level : s.buffer[i] # LF

BufferInv ==
  /\ mode \in Modes /\ open \in BOOLEAN
  /\ ret \in Int
  /\ Shaped(st) /\ NoLine(st)

-----------------------------------------------------------------------------
(* Sequences *)

LEMMA Sizes ==
  /\ BUFSIZ \in Nat /\ BUFSIZ >= 2
  /\ Chars \subseteq Nat /\ NUL \in Chars /\ LF \in Chars /\ CR \in Chars
  /\ EOF \notin Nat /\ Letters \subseteq Chars
  /\ NUL \notin Letters /\ LF \notin Letters /\ CR \notin Letters
BY BufferAssumption DEF Chars, NUL, LF, CR, EOF

LEMMA Fields ==
  ASSUME NEW s \in StType
  PROVE  /\ s.bytes \in Seq(Chars) /\ Len(s.bytes) \in Nat /\ s.pos \in Nat
         /\ s.in \in BOOLEAN /\ s.out \in BOOLEAN /\ s.skip \in BOOLEAN /\ s.err \in BOOLEAN
         /\ s.level \in 0 .. BUFSIZ /\ s.level \in Nat /\ s.curp \in 0 .. BUFSIZ /\ s.curp \in Nat
         /\ s.buffer \in [1 .. BUFSIZ -> Chars]
         /\ s = [bytes |-> s.bytes, pos |-> s.pos, in |-> s.in, out |-> s.out, skip |-> s.skip,
                 err |-> s.err, level |-> s.level, curp |-> s.curp, buffer |-> s.buffer]
<1>1. /\ s.bytes \in Seq(Chars) /\ s.pos \in Nat
      /\ s.in \in BOOLEAN /\ s.out \in BOOLEAN /\ s.skip \in BOOLEAN /\ s.err \in BOOLEAN
      /\ s.level \in 0 .. BUFSIZ /\ s.curp \in 0 .. BUFSIZ
      /\ s.buffer \in [1 .. BUFSIZ -> Chars]
      /\ s = [bytes |-> s.bytes, pos |-> s.pos, in |-> s.in, out |-> s.out, skip |-> s.skip,
              err |-> s.err, level |-> s.level, curp |-> s.curp, buffer |-> s.buffer]
  BY DEF StType
<1>2. Len(s.bytes) \in Nat
  BY <1>1, LenProperties
<1> QED BY <1>1, <1>2, Sizes

\* Assignments to some fields of a stream leave the others alone.
SetLevel(s, l) == [s EXCEPT !.level = l]
LEMMA SetLevelIs ==
  ASSUME NEW s \in StType, NEW l, l \in 0 .. BUFSIZ
  PROVE  LET t == SetLevel(s, l) IN
         /\ t \in StType
         /\ t.bytes = s.bytes /\ t.pos = s.pos /\ t.in = s.in /\ t.out = s.out /\ t.skip = s.skip
         /\ t.err = s.err /\ t.level = l /\ t.curp = s.curp /\ t.buffer = s.buffer
BY DEF SetLevel, StType

SetLevelCurp(s, l, c) == [s EXCEPT !.level = l, !.curp = c]
LEMMA SetLevelCurpIs ==
  ASSUME NEW s \in StType, NEW l, l \in 0 .. BUFSIZ, NEW c, c \in 0 .. BUFSIZ
  PROVE  LET t == SetLevelCurp(s, l, c) IN
         /\ t \in StType
         /\ t.bytes = s.bytes /\ t.pos = s.pos /\ t.in = s.in /\ t.out = s.out /\ t.skip = s.skip
         /\ t.err = s.err /\ t.level = l /\ t.curp = c /\ t.buffer = s.buffer
BY DEF SetLevelCurp, StType

SetLevelCurpIn(s, l, c, v) == [s EXCEPT !.level = l, !.curp = c, !.in = v]
LEMMA SetLevelCurpInIs ==
  ASSUME NEW s \in StType, NEW l, l \in 0 .. BUFSIZ, NEW c, c \in 0 .. BUFSIZ, NEW v, v \in BOOLEAN
  PROVE  LET t == SetLevelCurpIn(s, l, c, v) IN
         /\ t \in StType
         /\ t.bytes = s.bytes /\ t.pos = s.pos /\ t.in = v /\ t.out = s.out /\ t.skip = s.skip
         /\ t.err = s.err /\ t.level = l /\ t.curp = c /\ t.buffer = s.buffer
BY DEF SetLevelCurpIn, StType

SetSkip(s, v) == [s EXCEPT !.skip = v]
LEMMA SetSkipIs ==
  ASSUME NEW s \in StType, NEW v, v \in BOOLEAN
  PROVE  LET t == SetSkip(s, v) IN
         /\ t \in StType
         /\ t.bytes = s.bytes /\ t.pos = s.pos /\ t.in = s.in /\ t.out = s.out /\ t.skip = v
         /\ t.err = s.err /\ t.level = s.level /\ t.curp = s.curp /\ t.buffer = s.buffer
BY DEF SetSkip, StType

SetErr(s, v) == [s EXCEPT !.err = v]
LEMMA SetErrIs ==
  ASSUME NEW s \in StType, NEW v, v \in BOOLEAN
  PROVE  LET t == SetErr(s, v) IN
         /\ t \in StType
         /\ t.bytes = s.bytes /\ t.pos = s.pos /\ t.in = s.in /\ t.out = s.out /\ t.skip = s.skip
         /\ t.err = v /\ t.level = s.level /\ t.curp = s.curp /\ t.buffer = s.buffer
BY DEF SetErr, StType

SetPosErr(s, p, v) == [s EXCEPT !.pos = p, !.err = v]
LEMMA SetPosErrIs ==
  ASSUME NEW s \in StType, NEW p, p \in Nat, NEW v, v \in BOOLEAN
  PROVE  LET t == SetPosErr(s, p, v) IN
         /\ t \in StType
         /\ t.bytes = s.bytes /\ t.pos = p /\ t.in = s.in /\ t.out = s.out /\ t.skip = s.skip
         /\ t.err = v /\ t.level = s.level /\ t.curp = s.curp /\ t.buffer = s.buffer
BY DEF SetPosErr, StType

LEMMA SoughtIs ==
  ASSUME NEW s, s \in StType, NEW p, NEW v, NEW t, t = SetPosErr(s, p, v)
  PROVE  t.bytes = s.bytes /\ t.pos = p /\ t.in = s.in /\ t.out = s.out /\ t.err = v
BY DEF SetPosErr, StType

SetAppend(s, v, b, c, l) == [s EXCEPT !.out = v, !.buffer = b, !.curp = c, !.level = l]
LEMMA SetAppendIs ==
  ASSUME NEW s \in StType, NEW v, v \in BOOLEAN, NEW b, b \in [1 .. BUFSIZ -> Chars],
         NEW c, c \in 0 .. BUFSIZ, NEW l, l \in 0 .. BUFSIZ
  PROVE  LET t == SetAppend(s, v, b, c, l) IN
         /\ t \in StType
         /\ t.bytes = s.bytes /\ t.pos = s.pos /\ t.in = s.in /\ t.out = v /\ t.skip = s.skip
         /\ t.err = s.err /\ t.level = l /\ t.curp = c /\ t.buffer = b
BY DEF SetAppend, StType

SetPushBack(s, l, c, b) == [s EXCEPT !.level = l, !.curp = c, !.buffer = b]
LEMMA SetPushBackIs ==
  ASSUME NEW s \in StType, NEW l, l \in 0 .. BUFSIZ, NEW c, c \in 0 .. BUFSIZ, NEW b, b \in [1 .. BUFSIZ -> Chars]
  PROVE  LET t == SetPushBack(s, l, c, b) IN
         /\ t \in StType
         /\ t.bytes = s.bytes /\ t.pos = s.pos /\ t.in = s.in /\ t.out = s.out /\ t.skip = s.skip
         /\ t.err = s.err /\ t.level = l /\ t.curp = c /\ t.buffer = b
BY DEF SetPushBack, StType

SetPushIn(s, v, l, c, b) == [s EXCEPT !.in = v, !.level = l, !.curp = c, !.buffer = b]
LEMMA SetPushInIs ==
  ASSUME NEW s \in StType, NEW v, v \in BOOLEAN, NEW l, l \in 0 .. BUFSIZ, NEW c, c \in 0 .. BUFSIZ,
         NEW b, b \in [1 .. BUFSIZ -> Chars]
  PROVE  LET t == SetPushIn(s, v, l, c, b) IN
         /\ t \in StType
         /\ t.bytes = s.bytes /\ t.pos = s.pos /\ t.in = v /\ t.out = s.out /\ t.skip = s.skip
         /\ t.err = s.err /\ t.level = l /\ t.curp = c /\ t.buffer = b
BY DEF SetPushIn, StType

\* What c makes of s when it is written from place p on.
LEMMA OverlayIs ==
  ASSUME NEW s \in Seq(Chars), NEW c \in Seq(Chars), NEW p \in Nat, p <= Len(s)
  PROVE  LET o == Overlay(s, p, c) IN
         /\ o \in Seq(Chars)
         /\ Len(o) \in Nat
         /\ Len(o) = IF p + Len(c) > Len(s) THEN p + Len(c) ELSE Len(s)
         /\ \A i \in 1 .. Len(o) : o[i] = IF i \in p + 1 .. p + Len(c) THEN c[i - p] ELSE s[i]
<1> DEFINE n == IF p + Len(c) > Len(s) THEN p + Len(c) ELSE Len(s)
           o == Overlay(s, p, c)
<1>1. Len(s) \in Nat /\ Len(c) \in Nat
  BY LenProperties
<1>2. n \in Nat
  BY <1>1
<1>3. o = [i \in 1 .. n |-> IF i \in p + 1 .. p + Len(c) THEN c[i - p] ELSE s[i]]
  BY DEF Overlay
<1>4. ASSUME NEW i \in 1 .. n
      PROVE  (IF i \in p + 1 .. p + Len(c) THEN c[i - p] ELSE s[i]) \in Chars
  <2>1. CASE i \in p + 1 .. p + Len(c)
    <3>1. i - p \in 1 .. Len(c)
      BY <1>1, <2>1
    <3> QED BY <2>1, <3>1, ElementOfSeq
  <2>2. CASE i \notin p + 1 .. p + Len(c)
    <3>1. i \in 1 .. Len(s)
      BY <1>1, <2>2
    <3> QED BY <2>2, <3>1, ElementOfSeq
  <2> QED BY <2>1, <2>2
<1> HIDE DEF n, o
<1>5. o \in [1 .. n -> Chars]
  BY <1>3, <1>4
<1>6. o \in Seq(Chars)
  BY <1>2, <1>5, SeqDef
<1>7. Len(o) = n
  BY <1>2, <1>5, <1>6, LenProperties
<1> QED BY <1>2, <1>3, <1>6, <1>7 DEF n, o

\* The first k characters of the buffer.
LEMMA BufferPart ==
  ASSUME NEW b \in [1 .. BUFSIZ -> Chars], NEW k \in 0 .. BUFSIZ
  PROVE  /\ SubSeq(b, 1, k) \in Seq(Chars) /\ Len(SubSeq(b, 1, k)) = k
         /\ \A i \in 1 .. k : SubSeq(b, 1, k)[i] = b[i]
<1>1. k \in Nat /\ \A i \in 1 .. k : b[i] \in Chars /\ i \in 1 .. BUFSIZ
  BY Sizes
<1>2. /\ SubSeq(b, 1, k) \in Seq(Chars)
      /\ Len(SubSeq(b, 1, k)) = IF 1 <= k THEN k - 1 + 1 ELSE 0
      /\ \A i \in 1 .. k - 1 + 1 : SubSeq(b, 1, k)[i] = b[1 + i - 1]
  BY <1>1, SubSeqProperties
<1> QED BY <1>1, <1>2

-----------------------------------------------------------------------------
(* Flushing *)

LEMMA TakenIs ==
  ASSUME NEW s \in StType, NEW k \in Taken(s)
  PROVE  k \in 0 .. s.level /\ k \in 0 .. BUFSIZ
BY Fields, Sizes DEF Taken

\* What a flush leaves, field by field.
LEMMA FlushedIs ==
  ASSUME NEW s, Shaped(s), NEW k \in 0 .. s.level, mode \in Modes
  PROVE  LET f == Flushed(s, k) IN
         /\ Shaped(f) /\ f.in = FALSE /\ f.out = FALSE /\ f.curp = 0
         /\ f.level = (IF s.out \/ mode.read THEN 0 ELSE s.level)
         /\ f.bytes = (IF s.out THEN Overlay(s.bytes, s.pos, SubSeq(s.buffer, 1, k)) ELSE s.bytes)
         /\ f.pos = (IF s.out THEN s.pos + k ELSE IF s.in THEN 0 ELSE s.pos)
         /\ f.err = (s.err \/ FlushFails(s, k)) /\ f.skip = s.skip
<1> DEFINE f == Flushed(s, k)
           left == IF s.out \/ mode.read THEN 0 ELSE s.level
           bytes == IF s.out THEN Overlay(s.bytes, s.pos, SubSeq(s.buffer, 1, k)) ELSE s.bytes
           pos == IF s.out THEN s.pos + k ELSE IF s.in THEN 0 ELSE s.pos
           err == s.err \/ FlushFails(s, k)
           buffer == IF ~s.out /\ mode.read THEN [i \in 1 .. BUFSIZ |-> NUL] ELSE s.buffer
<1>1. s \in StType /\ (s.in => mode.read /\ ~s.out) /\ mode.read \in BOOLEAN
  BY DEF Shaped, Modes
<1>2. bytes \in Seq(Chars) /\ pos \in Nat /\ pos <= Len(bytes) /\ Len(bytes) \in Nat
  <2>1. CASE s.out
    <3>1. k \in Nat /\ k \in 0 .. BUFSIZ /\ s.pos \in Nat /\ s.pos <= Len(s.bytes)
          /\ s.bytes \in Seq(Chars) /\ s.buffer \in [1 .. BUFSIZ -> Chars]
      BY <1>1, Fields, Sizes DEF Shaped
    <3>2. SubSeq(s.buffer, 1, k) \in Seq(Chars) /\ Len(SubSeq(s.buffer, 1, k)) = k
      BY <3>1, BufferPart
    <3> DEFINE c == SubSeq(s.buffer, 1, k)
    <3> HIDE DEF c
    <3>3. LET o == Overlay(s.bytes, s.pos, c) IN
          /\ o \in Seq(Chars) /\ Len(o) \in Nat
          /\ Len(o) = IF s.pos + Len(c) > Len(s.bytes) THEN s.pos + Len(c) ELSE Len(s.bytes)
      BY <3>1, <3>2, OverlayIs DEF c
    <3>4. bytes = Overlay(s.bytes, s.pos, c) /\ Len(c) = k
      BY <2>1, <3>2 DEF c
    <3>5. Len(s.bytes) \in Nat
      BY <1>1, Fields
    <3> QED BY <2>1, <3>1, <3>3, <3>4, <3>5
  <2>2. CASE ~s.out
    BY <1>1, <2>2, Fields DEF Shaped
  <2> QED BY <1>1, <2>1, <2>2, Fields
<1>3. left \in 0 .. BUFSIZ /\ err \in BOOLEAN /\ buffer \in [1 .. BUFSIZ -> Chars] /\ 0 \in 0 .. BUFSIZ
  BY <1>1, Fields, Sizes DEF FlushFails
<1>4. (IF s.out THEN s.pos + k ELSE IF s.in THEN _ll_getpos(s) - left ELSE s.pos) = pos
  BY <1>1, Fields DEF _ll_getpos
<1>5. f = [bytes |-> bytes, pos |-> pos, in |-> FALSE, out |-> FALSE, skip |-> s.skip, err |-> err,
           level |-> left, curp |-> 0, buffer |-> buffer]
  <2>1. s = [bytes |-> s.bytes, pos |-> s.pos, in |-> s.in, out |-> s.out, skip |-> s.skip,
             err |-> s.err, level |-> s.level, curp |-> s.curp, buffer |-> s.buffer]
    BY <1>1, Fields
  <2>2. f = [s EXCEPT !.bytes = bytes, !.pos = pos, !.err = err, !.buffer = buffer,
                      !.level = left, !.curp = 0, !.in = FALSE, !.out = FALSE]
    BY <1>4 DEF Flushed, FlushFails
  <2> HIDE DEF f, left, bytes, pos, err, buffer
  <2> QED BY <2>1, <2>2
<1> HIDE DEF f, left, bytes, pos, err, buffer
<1>6. f \in StType
  BY <1>1, <1>2, <1>3, <1>5, Fields DEF StType
<1>7. Shaped(f)
  BY <1>2, <1>5, <1>6 DEF Shaped
<1> QED BY <1>5, <1>7 DEF f, left, bytes, pos, err

-----------------------------------------------------------------------------
(* Reading *)

\* Portion is a CHOOSE of the least element of a set of numbers.
LEMMA LeastLineEnd ==
  ASSUME NEW S \in SUBSET Nat, S # {}
  PROVE  (CHOOSE n \in S : \A m \in S : n <= m) \in S
<1> DEFINE R == OpToRel(<, Nat)
<1>1. IsWellFoundedOn(R, Nat)
  BY NatLessThanWellFounded
<1>2. \A x, y \in Nat : <<x, y>> \in R <=> x < y
  BY DEF OpToRel
<1> HIDE DEF R
<1>3. PICK x \in S : \A y \in S : ~(<<y, x>> \in R)
  BY <1>1, WFMin, Zenon
<1>4. ASSUME NEW y \in S PROVE x <= y
  <2>1. x \in Nat /\ y \in Nat
    OBVIOUS
  <2>2. ~(y < x)
    BY <1>2, <1>3, <2>1, Zenon
  <2> QED BY <2>1, <2>2
<1> QED BY <1>4

LEMMA PortionIs ==
  ASSUME NEW s \in StType, s.pos <= Len(s.bytes), mode \in Modes
  PROVE  /\ Portion(s) \in 0 .. BUFSIZ /\ Portion(s) \in Nat
         /\ s.pos + Portion(s) <= Len(s.bytes)
         /\ Portion(s) = 0 => s.pos = Len(s.bytes)
<1> DEFINE rest == IF Len(s.bytes) - s.pos < BUFSIZ THEN Len(s.bytes) - s.pos ELSE BUFSIZ
           ends == {n \in 1 .. rest : s.bytes[s.pos + n] \in {LF, CR, NUL}}
<1>1. /\ rest \in 0 .. BUFSIZ /\ s.pos + rest <= Len(s.bytes) /\ (rest = 0 => s.pos = Len(s.bytes))
      /\ s.pos \in Nat /\ Len(s.bytes) \in Nat
  BY Fields, Sizes, SMTT(30)
<1>2. Portion(s) = IF mode.bin \/ ends = {} THEN rest
                   ELSE CHOOSE n \in ends : \A m \in ends : n <= m
  BY DEF Portion
<1>3. ends \in SUBSET Nat /\ ends \subseteq 1 .. rest
  BY <1>1
<1> HIDE DEF rest, ends
<1>4. Portion(s) = rest \/ Portion(s) \in 1 .. rest
  BY <1>2, <1>3, LeastLineEnd
<1> QED BY <1>1, <1>4, Sizes

\* What a refill leaves, field by field.
LEMMA FilledIs ==
  ASSUME NEW s \in StType, s.pos <= Len(s.bytes), mode \in Modes, s.in, ~s.out, mode.read
  PROVE  LET f == Filled(s)
             n == Portion(s)
         IN /\ Shaped(f) /\ f.in /\ ~f.out
            /\ f.bytes = s.bytes /\ f.pos = s.pos + n /\ f.level = n /\ f.curp = 0
            /\ f.skip = s.skip /\ f.err = s.err
            /\ \A i \in 1 .. n : f.buffer[i] = s.bytes[s.pos + i]
<1> DEFINE f == Filled(s)
           n == Portion(s)
           buffer == [i \in 1 .. BUFSIZ |-> IF i <= n THEN s.bytes[s.pos + i] ELSE s.buffer[i]]
<1>1. n \in 0 .. BUFSIZ /\ n \in Nat /\ s.pos + n <= Len(s.bytes) /\ s.pos \in Nat
  BY PortionIs, Fields
<1>2. buffer \in [1 .. BUFSIZ -> Chars]
  <2>1. ASSUME NEW i \in 1 .. BUFSIZ, i <= n PROVE s.bytes[s.pos + i] \in Chars
    <3>1. s.pos + i \in 1 .. Len(s.bytes) /\ s.bytes \in Seq(Chars)
      BY <1>1, <2>1, Fields, Sizes, SMTT(30)
    <3> QED BY <3>1, ElementOfSeq
  <2>2. s.buffer \in [1 .. BUFSIZ -> Chars]
    BY Fields
  <2> QED BY <2>1, <2>2
<1>3. \A i \in 1 .. n : i \in 1 .. BUFSIZ /\ buffer[i] = s.bytes[s.pos + i]
  BY <1>1, Sizes
<1>4. f = [s EXCEPT !.level = n, !.curp = 0, !.pos = s.pos + n, !.buffer = buffer]
  BY DEF Filled
<1> HIDE DEF f, n, buffer
<1>5. s = [bytes |-> s.bytes, pos |-> s.pos, in |-> s.in, out |-> s.out, skip |-> s.skip,
           err |-> s.err, level |-> s.level, curp |-> s.curp, buffer |-> s.buffer]
  BY Fields
<1>6. f = [bytes |-> s.bytes, pos |-> s.pos + n, in |-> s.in, out |-> s.out, skip |-> s.skip,
           err |-> s.err, level |-> n, curp |-> 0, buffer |-> buffer]
  BY <1>4, <1>5
<1>7. s.pos + n \in Nat /\ 0 \in 0 .. BUFSIZ
  BY <1>1, Sizes
<1>8. f \in StType
  BY <1>1, <1>2, <1>6, <1>7, Fields DEF StType
<1>9. Shaped(f)
  BY <1>1, <1>6, <1>8 DEF Shaped
<1> QED BY <1>3, <1>6, <1>9 DEF f, n

\* Where a refill begins: what waited to be written is in the file.
Begun(s, k) ==
  IF s.in THEN s ELSE IF s.out THEN [Flushed(s, k) EXCEPT !.level = 0, !.in = TRUE]
  ELSE [s EXCEPT !.level = 0, !.curp = 0, !.in = TRUE]

LEMMA BegunIs ==
  ASSUME NEW s, Shaped(s), NEW k \in 0 .. s.level, mode \in Modes
  PROVE  LET b == Begun(s, k) IN
         /\ b \in StType /\ b.pos <= Len(b.bytes) /\ b.in /\ ~b.out /\ b.skip = s.skip
         /\ b.bytes = (IF s.out THEN Overlay(s.bytes, s.pos, SubSeq(s.buffer, 1, k)) ELSE s.bytes)
         /\ b.pos = (IF s.out THEN s.pos + k ELSE s.pos)
         /\ b.err = (s.err \/ FlushFails(s, k))
<1>1. s \in StType /\ s.pos <= Len(s.bytes) /\ ~(s.in /\ s.out) /\ 0 \in 0 .. BUFSIZ
  BY Sizes DEF Shaped
<1>2. CASE s.in
  BY <1>1, <1>2, Fields DEF Begun, FlushFails
<1>3. CASE ~s.in /\ s.out
  <2> DEFINE f == Flushed(s, k)
  <2>1. /\ f \in StType /\ f.pos <= Len(f.bytes) /\ f.in = FALSE /\ f.out = FALSE
        /\ f.bytes = Overlay(s.bytes, s.pos, SubSeq(s.buffer, 1, k)) /\ f.pos = s.pos + k
        /\ f.err = (s.err \/ FlushFails(s, k)) /\ f.skip = s.skip
    BY <1>3, FlushedIs DEF Shaped
  <2>2. Begun(s, k) = [f EXCEPT !.level = 0, !.in = TRUE]
    BY <1>3 DEF Begun
  <2> HIDE DEF f
  <2>3. Begun(s, k) = [bytes |-> f.bytes, pos |-> f.pos, in |-> TRUE, out |-> f.out, skip |-> f.skip,
                       err |-> f.err, level |-> 0, curp |-> f.curp, buffer |-> f.buffer]
    BY <2>1, <2>2, Fields
  <2>4. Begun(s, k) \in StType
    BY <1>1, <2>1, <2>3, Fields DEF StType
  <2> QED BY <1>3, <2>1, <2>3, <2>4
<1>4. CASE s.in = FALSE /\ s.out = FALSE
  <2> DEFINE m == [s EXCEPT !.level = 0, !.curp = 0, !.in = TRUE]
  <2>1. Begun(s, k) = m
    BY <1>4 DEF Begun
  <2>2. m = SetLevelCurpIn(s, 0, 0, TRUE)
    BY DEF SetLevelCurpIn
  <2> HIDE DEF m
  <2>4. /\ m \in StType
        /\ m.bytes = s.bytes /\ m.pos = s.pos /\ m.in = TRUE /\ m.out = s.out /\ m.skip = s.skip
        /\ m.err = s.err
    <3> DEFINE v == TRUE
    <3>1. s \in StType /\ 0 \in 0 .. BUFSIZ /\ v \in BOOLEAN /\ m = SetLevelCurpIn(s, 0, 0, v)
      BY <1>1, <2>2
    <3> HIDE DEF v
    <3>2. /\ m \in StType
          /\ m.bytes = s.bytes /\ m.pos = s.pos /\ m.in = v /\ m.out = s.out /\ m.skip = s.skip
          /\ m.err = s.err
      BY <3>1, SetLevelCurpInIs
    <3> QED BY <3>2 DEF v
  <2>3. s.err = (s.err \/ FlushFails(s, k))
    BY <1>1, <1>4, Fields DEF FlushFails
  <2> QED BY <1>1, <1>4, <2>1, <2>4, <2>3
<1> QED BY <1>1, <1>2, <1>3, <1>4, Fields

\* The three ways of _readbuf.
LEMMA ReadbufIs ==
  ASSUME NEW s, NEW k
  PROVE  _readbuf(s, k) =
           IF s.in /\ s.level > 0 THEN [s |-> s, ok |-> TRUE]
           ELSE IF FlushFails(s, k) THEN [s |-> Flushed(s, k), ok |-> FALSE]
           ELSE [s |-> Filled(Begun(s, k)),
                 ok |-> Filled(Begun(s, k)).level > 0 /\ ~EndsText(Filled(Begun(s, k)))]
BY DEF _readbuf, Begun

LEMMA ReadbufShaped ==
  ASSUME NEW s, Shaped(s), NEW k \in 0 .. s.level, mode \in Modes, mode.read
  PROVE  LET r == _readbuf(s, k) IN
         /\ Shaped(r.s) /\ ~r.s.out /\ r.ok \in BOOLEAN
         /\ r.ok => r.s.in /\ r.s.level > 0
<1>1. CASE s.in /\ s.level > 0
  BY <1>1, ReadbufIs DEF Shaped
<1>2. CASE ~(s.in /\ s.level > 0) /\ FlushFails(s, k)
  BY <1>2, ReadbufIs, FlushedIs
<1>3. CASE ~(s.in /\ s.level > 0) /\ ~FlushFails(s, k)
  <2> DEFINE b == Begun(s, k)
  <2>1. b \in StType /\ b.pos <= Len(b.bytes) /\ b.in /\ ~b.out
    BY BegunIs
  <2>2. _readbuf(s, k) = [s |-> Filled(b), ok |-> Filled(b).level > 0 /\ ~EndsText(Filled(b))]
    BY <1>3, ReadbufIs
  <2> HIDE DEF b
  <2>3. Shaped(Filled(b)) /\ ~Filled(b).out /\ Filled(b).in
    BY <2>1, FilledIs
  <2>4. (Filled(b).level > 0 /\ ~EndsText(Filled(b))) \in BOOLEAN
    BY DEF EndsText
  <2> DEFINE f == Filled(b)
             ok == f.level > 0 /\ ~EndsText(f)
  <2>5. ok => f.level > 0
    OBVIOUS
  <2> HIDE DEF f, ok
  <2>6. _readbuf(s, k) = [s |-> f, ok |-> ok] /\ ok \in BOOLEAN /\ Shaped(f) /\ ~f.out /\ f.in
    BY <2>2, <2>3, <2>4 DEF f, ok
  <2> QED BY <2>5, <2>6
<1> QED BY <1>1, <1>2, <1>3

\* One character is taken from the buffer, or given up.
LEMMA TakenShaped ==
  ASSUME NEW s, Shaped(s), s.in = TRUE, s.level > 0
  PROVE  /\ Current(s) \in Chars
         /\ LET t == Next1(s) IN
            /\ Shaped(t) /\ t.in = s.in /\ ~t.out /\ t.bytes = s.bytes /\ t.pos = s.pos
            /\ t.level = s.level - 1 /\ t.curp = s.curp + 1 /\ t.buffer = s.buffer
            /\ t.err = s.err /\ t.skip = s.skip
<1>1. /\ s \in StType /\ s.pos <= Len(s.bytes) /\ ~s.out /\ mode.read /\ s.level \in Nat
      /\ s.curp \in Nat /\ s.curp + s.level <= BUFSIZ /\ s.level <= s.pos /\ s.pos \in Nat
      /\ s.buffer \in [1 .. BUFSIZ -> Chars]
  BY Fields DEF Shaped
<1>2. Current(s) \in Chars
  <2>1. s.curp + 1 \in 1 .. BUFSIZ
    BY <1>1, Sizes
  <2> QED BY <1>1, <2>1 DEF Current
<1> DEFINE l == s.level - 1
           c == s.curp + 1
<1>3. l \in 0 .. BUFSIZ /\ c \in 0 .. BUFSIZ /\ c + l <= BUFSIZ /\ l <= s.pos
  BY <1>1, Sizes, SMTT(30)
<1> DEFINE m == Next1(s)
<1>4. m = SetLevelCurp(s, l, c)
  BY DEF Next1, SetLevelCurp
<1> HIDE DEF l, c, m
<1>5. /\ m \in StType
      /\ m.bytes = s.bytes /\ m.pos = s.pos /\ m.in = s.in /\ m.out = s.out /\ m.skip = s.skip
      /\ m.err = s.err /\ m.level = l /\ m.curp = c /\ m.buffer = s.buffer
  <2>1. s \in StType /\ l \in 0 .. BUFSIZ /\ c \in 0 .. BUFSIZ
    BY <1>1, <1>3
  <2> QED BY <1>4, <2>1, SetLevelCurpIs
<1>6. Shaped(m)
  BY <1>1, <1>3, <1>5 DEF Shaped
<1> QED BY <1>1, <1>2, <1>5, <1>6 DEF l, c, m

\* The indicator of a line end is set or reset.
LEMMA SkipShaped ==
  ASSUME NEW s, Shaped(s), NEW v \in BOOLEAN
  PROVE  LET t == [s EXCEPT !.skip = v] IN
         /\ Shaped(t) /\ t.in = s.in /\ t.out = s.out /\ t.bytes = s.bytes /\ t.pos = s.pos
         /\ t.level = s.level /\ t.curp = s.curp /\ t.buffer = s.buffer
         /\ t.err = s.err /\ t.skip = v
<1> DEFINE m == [s EXCEPT !.skip = v]
<1>1. s \in StType /\ m = SetSkip(s, v)
  BY DEF Shaped, SetSkip
<1> HIDE DEF m
<1>2. /\ m \in StType
      /\ m.bytes = s.bytes /\ m.pos = s.pos /\ m.in = s.in /\ m.out = s.out /\ m.skip = v
      /\ m.err = s.err /\ m.level = s.level /\ m.curp = s.curp /\ m.buffer = s.buffer
  BY <1>1, SetSkipIs
<1>3. Shaped(m)
  BY <1>1, <1>2 DEF Shaped
<1> QED BY <1>2, <1>3 DEF m

\* At a NUL the character is counted and stays.
LEMMA GivenUpShaped ==
  ASSUME NEW s, Shaped(s), s.in = TRUE, s.level > 0
  PROVE  LET t == [s EXCEPT !.level = @ - 1] IN
         /\ Shaped(t) /\ t.in = s.in /\ ~t.out /\ t.bytes = s.bytes /\ t.pos = s.pos
         /\ t.level = s.level - 1 /\ t.curp = s.curp /\ t.buffer = s.buffer
         /\ t.err = s.err /\ t.skip = s.skip
<1>1. /\ s \in StType /\ s.pos <= Len(s.bytes) /\ ~s.out /\ mode.read /\ s.level \in Nat
      /\ s.curp \in Nat /\ s.curp + s.level <= BUFSIZ /\ s.level <= s.pos /\ s.pos \in Nat
  BY Fields DEF Shaped
<1> DEFINE l == s.level - 1
<1>2. l \in 0 .. BUFSIZ /\ s.curp + l <= BUFSIZ /\ l <= s.pos
  BY <1>1, Sizes
<1> DEFINE m == [s EXCEPT !.level = @ - 1]
<1>3. m = SetLevel(s, l)
  BY DEF SetLevel
<1> HIDE DEF l, m
<1>4. /\ m \in StType
      /\ m.bytes = s.bytes /\ m.pos = s.pos /\ m.in = s.in /\ m.out = s.out /\ m.skip = s.skip
      /\ m.err = s.err /\ m.level = l /\ m.curp = s.curp /\ m.buffer = s.buffer
  <2>1. s \in StType /\ l \in 0 .. BUFSIZ
    BY <1>1, <1>2
  <2> QED BY <1>3, <2>1, SetLevelIs
<1>5. Shaped(m)
  BY <1>1, <1>2, <1>4 DEF Shaped
<1> QED BY <1>1, <1>4, <1>5 DEF l, m

LEMMA GetShaped ==
  ASSUME NEW s, Shaped(s), NEW k \in 0 .. s.level, mode \in Modes, mode.read
  PROVE  LET g == _basegetc(s, k) IN Shaped(g.s) /\ ~g.s.out /\ g.c \in Nat \cup {EOF}
<1> DEFINE first == _readbuf(s, k)
           past == [Next1(first.s) EXCEPT !.skip = FALSE]
           r == IF first.ok /\ ~mode.bin /\ Current(first.s) = LF /\ first.s.skip
                THEN _readbuf(past, 0) ELSE first
<1>1. Shaped(first.s) /\ ~first.s.out /\ (first.ok => first.s.in /\ first.s.level > 0)
  BY ReadbufShaped
<1>2. Shaped(r.s) /\ ~r.s.out /\ (r.ok => r.s.in /\ r.s.level > 0)
  <2>1. ASSUME first.ok
        PROVE  LET q == _readbuf(past, 0) IN
               Shaped(q.s) /\ ~q.s.out /\ (q.ok => q.s.in /\ q.s.level > 0)
    <3> DEFINE n == Next1(first.s)
    <3>1. Shaped(past)
      <4>1. Shaped(n) /\ past = [n EXCEPT !.skip = FALSE]
        BY <1>1, <2>1, TakenShaped
      <4> HIDE DEF n, past
      <4> QED BY <4>1, SkipShaped
    <3> HIDE DEF past, n
    <3>2. 0 \in 0 .. past.level
      BY <3>1, Fields DEF Shaped
    <3> QED BY <3>1, <3>2, ReadbufShaped
  <2> HIDE DEF first, past
  <2> QED BY <1>1, <2>1
<1>3. _basegetc(s, k) =
        IF ~r.ok THEN [s |-> r.s, c |-> EOF]
        ELSE IF mode.bin \/ Current(r.s) \notin {CR, NUL} THEN [s |-> Next1(r.s), c |-> Current(r.s)]
        ELSE IF Current(r.s) = CR THEN [s |-> [Next1(r.s) EXCEPT !.skip = TRUE], c |-> LF]
        ELSE [s |-> [r.s EXCEPT !.level = @ - 1], c |-> EOF]
  BY DEF _basegetc
<1> HIDE DEF r
<1>4. CASE ~r.ok
  BY <1>2, <1>3, <1>4
<1>5. CASE r.ok
  <2> DEFINE x == r.s
  <2>1. /\ Shaped(x) /\ x.in /\ x.level > 0 /\ ~x.out
    BY <1>2, <1>5
  <2> HIDE DEF x
  <2> DEFINE n == Next1(x)
             skips == [n EXCEPT !.skip = TRUE]
             ends == [x EXCEPT !.level = @ - 1]
  <2>2. Current(x) \in Nat /\ LF \in Nat /\ Shaped(n) /\ ~n.out
    BY <2>1, TakenShaped, Sizes
  <2>3. Shaped(ends) /\ ~ends.out
    BY <2>1, GivenUpShaped
  <2> HIDE DEF n
  <2>4. Shaped(skips) /\ ~skips.out
    BY <2>2, SkipShaped
  <2>5. _basegetc(s, k) \in
          { [s |-> n, c |-> Current(x)], [s |-> skips, c |-> LF], [s |-> ends, c |-> EOF] }
    BY <1>3, <1>5 DEF x, n
  <2> HIDE DEF skips, ends
  <2> DEFINE g == _basegetc(s, k)
  <2>6. g = [s |-> n, c |-> Current(x)] \/ g = [s |-> skips, c |-> LF] \/ g = [s |-> ends, c |-> EOF]
    BY <2>5
  <2> HIDE DEF g
  <2>7. CASE g = [s |-> n, c |-> Current(x)]
    BY <2>2, <2>7 DEF g
  <2>8. CASE g = [s |-> skips, c |-> LF]
    BY <2>2, <2>4, <2>8 DEF g
  <2>9. CASE g = [s |-> ends, c |-> EOF]
    BY <2>3, <2>9 DEF g
  <2> QED BY <2>6, <2>7, <2>8, <2>9
<1> QED BY <1>4, <1>5

-----------------------------------------------------------------------------
(* Writing *)

\* The buffer _writebuf hands back has room for a character, and what is in
\* it was put there.
LEMMA WritebufIs ==
  ASSUME NEW s, Shaped(s), NEW k \in 0 .. s.level, mode \in Modes
  PROVE  LET w == _writebuf(s, k) IN
         /\ w \in StType /\ w.pos <= Len(w.bytes) /\ ~w.in
         /\ w.level = w.curp /\ w.curp < BUFSIZ
         /\ w.out => w = s
         /\ ~w.out => w.level = 0
         /\ w.bytes = (IF Flushes(s) THEN Flushed(s, k).bytes ELSE s.bytes)
         /\ w.pos = (IF Flushes(s) THEN Flushed(s, k).pos ELSE s.pos)
         /\ w.err = (IF Flushes(s) THEN Flushed(s, k).err ELSE s.err)
<1>1. /\ s \in StType /\ s.pos <= Len(s.bytes) /\ ~(s.in /\ s.out) /\ 0 \in 0 .. BUFSIZ
      /\ s.out => s.curp = s.level /\ s.level > 0
  BY Sizes DEF Shaped
<1>2. CASE Flushes(s)
  <2> DEFINE f == Flushed(s, k)
             w == SetLevel(f, 0)
  <2>1. f \in StType /\ f.pos <= Len(f.bytes) /\ f.in = FALSE /\ f.out = FALSE /\ f.curp = 0
    BY FlushedIs DEF Shaped
  <2>2. _writebuf(s, k) = w
    BY <1>2 DEF _writebuf, SetLevel
  <2> HIDE DEF f
  <2>3. w \in StType /\ w.bytes = f.bytes /\ w.pos = f.pos /\ w.err = f.err
    BY <1>1, <2>1, SetLevelIs
  <2>4. w.in = f.in /\ w.out = f.out /\ w.curp = f.curp /\ w.level = 0
    BY <1>1, <2>1, SetLevelIs
  <2> HIDE DEF w
  <2>5. (Flushes(s) /\ w.bytes = Flushed(s, k).bytes) /\ w.pos = Flushed(s, k).pos /\ w.err = Flushed(s, k).err
    BY <1>2, <2>3 DEF f
  <2> QED BY <2>1, <2>2, <2>3, <2>4, <2>5, Sizes
<1>3. CASE ~Flushes(s) /\ s.out
  <2>1. _writebuf(s, k) = s
    BY <1>3 DEF _writebuf
  <2>2. s.curp < BUFSIZ /\ ~s.in
    BY <1>1, <1>3, Fields, Sizes DEF Flushes
  <2> QED BY <1>1, <1>3, <2>1, <2>2
<1>4. CASE ~Flushes(s) /\ ~s.out
  <2> DEFINE w == SetLevelCurp(s, 0, 0)
  <2>1. _writebuf(s, k) = w
    BY <1>4 DEF _writebuf, SetLevelCurp
  <2>2. w \in StType /\ w.bytes = s.bytes /\ w.pos = s.pos /\ w.err = s.err
    BY <1>1, SetLevelCurpIs
  <2>3. w.in = s.in /\ w.out = s.out /\ w.curp = 0 /\ w.level = 0
    BY <1>1, SetLevelCurpIs
  <2>4. ~s.in
    BY <1>4 DEF Flushes
  <2> HIDE DEF w
  <2> QED BY <1>1, <1>4, <2>1, <2>2, <2>3, <2>4, Sizes
<1> QED BY <1>2, <1>3, <1>4

\* A character is appended, or the error indicator is set and nothing is
\* left in the buffer.
LEMMA PutIs ==
  ASSUME NEW s, Shaped(s), NEW k \in 0 .. s.level, NEW c \in Chars,
         mode \in Modes
  PROVE  LET r == _baseputc(s, c, k) IN
         /\ Shaped(r)
         /\ PutFails(s, k) => ~r.out
         /\ ~PutFails(s, k) => r.out
         /\ c # LF /\ NoLine(s) => NoLine(r)
         /\ PutFails(s, k) => /\ r.bytes = Flushed(s, k).bytes /\ r.pos = Flushed(s, k).pos
                              /\ r.in = FALSE /\ r.out = FALSE /\ r.err = TRUE
         /\ ~PutFails(s, k) =>
              LET w == _writebuf(s, k)
                  n == w.curp + 1
              IN  /\ r.in = FALSE /\ r.out = TRUE
                  /\ r.bytes = w.bytes /\ r.pos = w.pos /\ r.err = w.err
                  /\ r.level = n /\ r.buffer = [w.buffer EXCEPT ![n] = c]
<1>1. CASE PutFails(s, k)
  <2> DEFINE f == Flushed(s, k)
             v == TRUE
             r == SetErr(f, v)
  <2>1. f \in StType /\ f.pos <= Len(f.bytes) /\ f.in = FALSE /\ f.out = FALSE
    BY FlushedIs DEF Shaped
  <2>2. _baseputc(s, c, k) = r /\ v \in BOOLEAN
    BY <1>1 DEF _baseputc, SetErr
  <2> HIDE DEF f, v
  <2>3. r \in StType /\ r.bytes = f.bytes /\ r.pos = f.pos
    BY <2>1, <2>2, SetErrIs
  <2>4. r.in = f.in /\ r.out = f.out /\ r.err = v
    BY <2>1, <2>2, SetErrIs
  <2> HIDE DEF r
  <2>5. Shaped(r) /\ ~r.out
    BY <2>1, <2>3, <2>4 DEF Shaped
  <2>6. r.bytes = Flushed(s, k).bytes /\ r.pos = Flushed(s, k).pos
    BY <2>3 DEF f
  <2>7. r.in = FALSE /\ r.out = FALSE /\ r.err = TRUE
    BY <2>1, <2>4 DEF v
  <2> QED BY <1>1, <2>2, <2>5, <2>6, <2>7 DEF NoLine
<1>2. CASE ~PutFails(s, k)
  <2> DEFINE w == _writebuf(s, k)
             n == w.curp + 1
             b == [w.buffer EXCEPT ![n] = c]
             v == TRUE
             r == SetAppend(w, v, b, n, n)
  <2>1. /\ w \in StType /\ w.pos <= Len(w.bytes) /\ w.in = FALSE
        /\ w.level = w.curp /\ w.curp < BUFSIZ /\ (w.out => w = s) /\ (~w.out => w.level = 0)
    BY WritebufIs, Fields
  <2>2. _baseputc(s, c, k) = r
    <3>1. _baseputc(s, c, k) = [w EXCEPT !.out = TRUE, !.buffer[w.curp + 1] = c,
                                         !.curp = @ + 1, !.level = @ + 1]
      BY <1>2 DEF _baseputc
    <3>2. @ = [w EXCEPT !.out = TRUE, !.buffer = b, !.curp = n, !.level = w.level + 1]
      OBVIOUS
    <3> QED BY <2>1, <3>1, <3>2 DEF SetAppend
  <2> HIDE DEF w
  <2>3. w.curp \in Nat /\ w.level \in Nat /\ w.buffer \in [1 .. BUFSIZ -> Chars] /\ w.out \in BOOLEAN
    BY <2>1, Fields
  <2>4. n \in 0 .. BUFSIZ /\ n \in 1 .. BUFSIZ /\ n > 0 /\ v \in BOOLEAN
    BY <2>1, <2>3, Sizes
  <2>5. b \in [1 .. BUFSIZ -> Chars]
    BY <2>3
  <2>6. \A i \in 1 .. n : b[i] = IF i = n THEN c ELSE w.buffer[i]
    BY <2>3, <2>4, Sizes
  <2>7. \A i \in 1 .. n : i = n \/ i \in 1 .. w.level
    BY <2>1, <2>3
  <2> HIDE DEF n, b, v
  <2>8. r \in StType /\ r.bytes = w.bytes /\ r.pos = w.pos
    BY <2>1, <2>4, <2>5, SetAppendIs
  <2>9. r.in = w.in /\ r.out = v /\ r.level = n /\ r.curp = n /\ r.buffer = b /\ r.err = w.err
    BY <2>1, <2>4, <2>5, SetAppendIs
  <2> HIDE DEF r
  <2>10. r.out /\ Shaped(r)
    BY <2>1, <2>4, <2>8, <2>9 DEF Shaped, v
  <2>11. ASSUME c # LF, NoLine(s) PROVE NoLine(r)
    <3>1. SUFFICES ASSUME ~mode.bin, NEW i \in 1 .. n PROVE b[i] # LF
      BY <2>9 DEF NoLine
    <3>2. CASE i = n
      BY <2>6, <2>11, <3>2
    <3>3. CASE i # n
      <4>1. i \in 1 .. w.level
        BY <2>7, <3>3
      <4>2. w.out
        BY <2>1, <2>3, <4>1
      <4> QED BY <2>1, <2>6, <2>11, <3>1, <3>3, <4>1, <4>2 DEF NoLine
    <3> QED BY <3>2, <3>3
  <2>12. LET x == _writebuf(s, k)
             y == x.curp + 1
         IN  /\ r.in = FALSE /\ r.out = TRUE
             /\ r.bytes = x.bytes /\ r.pos = x.pos /\ r.err = x.err
             /\ r.level = y /\ r.buffer = [x.buffer EXCEPT ![y] = c]
    BY <2>1, <2>8, <2>9 DEF w, n, b, v
  <2> QED BY <1>2, <2>2, <2>10, <2>11, <2>12
<1> QED BY <1>1, <1>2

-----------------------------------------------------------------------------
(* The client's place *)

LEMMA PlaceIs ==
  ASSUME NEW s, Shaped(s)
  PROVE  /\ Place(s) \in Nat /\ Place(s) <= Len(All(s)) /\ Len(All(s)) \in Nat
         /\ All(s) \in Seq(Chars)
<1>1. /\ s \in StType /\ s.pos \in Nat /\ s.level \in Nat /\ s.level \in 0 .. BUFSIZ
      /\ s.bytes \in Seq(Chars) /\ Len(s.bytes) \in Nat /\ s.pos <= Len(s.bytes)
      /\ s.buffer \in [1 .. BUFSIZ -> Chars]
      /\ s.in => s.level <= s.pos
      /\ ~(s.in /\ s.out)
  BY Fields DEF Shaped
<1>2. CASE s.out
  <2> DEFINE c == SubSeq(s.buffer, 1, s.level)
  <2>1. c \in Seq(Chars) /\ Len(c) = s.level
    BY <1>1, BufferPart
  <2>2. All(s) = Overlay(s.bytes, s.pos, c) /\ Place(s) = s.pos + s.level
    BY <1>1, <1>2 DEF All, Place
  <2> HIDE DEF c
  <2>3. LET o == Overlay(s.bytes, s.pos, c) IN
        /\ o \in Seq(Chars) /\ Len(o) \in Nat
        /\ Len(o) = IF s.pos + Len(c) > Len(s.bytes) THEN s.pos + Len(c) ELSE Len(s.bytes)
    BY <1>1, <2>1, OverlayIs
  <2> QED BY <1>1, <2>1, <2>2, <2>3
<1>3. CASE ~s.out
  BY <1>1, <1>3 DEF All, Place
<1> QED BY <1>2, <1>3

\* Nothing was read from a stream at its beginning.
LEMMA SomethingRead ==
  ASSUME Shaped(st), At > 0, mode \in Modes
  PROVE  Place(st) > 0
<1>1. Place(st) \in Nat
  BY PlaceIs
<1>2. SUFFICES ASSUME Place(st) = 0 PROVE FALSE
  BY <1>1
<1> DEFINE b == SubSeq(All(st), 1, Place(st))
<1>3. b = << >>
  <2>1. b = [i \in 1 .. Place(st) |-> All(st)[1 + i - 1]]
    BY <1>2, PlaceIs, SubSeqProperties
  <2>2. b = [i \in 1 .. 0 |-> All(st)[1 + i - 1]]
    BY <1>2, <2>1
  <2> QED BY <2>2
<1> HIDE DEF b
<1>4. Len(b) = 0
  BY <1>3
<1>5. Len(Text(b)) = 0
  <2> DEFINE end == {i \in 1 .. Len(b) : b[i] = NUL}
             kept == {i \in 1 .. Len(b) : /\ \A e \in end : i < e
                                          /\ ~(b[i] = LF /\ i > 1 /\ b[i - 1] = CR)}
             val(j) == LET i == CHOOSE i \in kept : Cardinality({h \in kept : h < i}) = j - 1
                       IN  IF b[i] = CR THEN LF ELSE b[i]
  <2>1. kept = {}
    BY <1>4
  <2>2. Text(b) = [j \in 1 .. Cardinality(kept) |-> val(j)]
    BY DEF Text
  <2> HIDE DEF val, kept
  <2>3. Cardinality(kept) = 0
    BY <2>1, FS_EmptySet
  <2>4. Text(b) = << >>
    BY <2>2, <2>3
  <2> QED BY <2>4
<1>6. At = Len(Reading(b))
  BY DEF At, b
<1>7. Reading(b) = b \/ Reading(b) = Text(b)
  BY DEF Reading
<1>8. At = 0
  BY <1>4, <1>5, <1>6, <1>7, Zenon
<1> QED BY <1>8

-----------------------------------------------------------------------------
(* The steps *)

LEMMA Starts ==
  ASSUME Init
  PROVE  BufferInv
<1> DEFINE buf == [i \in 1 .. BUFSIZ |-> NUL]
<1>1. PICK b \in IF ~mode.read THEN {<< >>} ELSE IF mode.bin THEN BinFiles ELSE TextFiles :
        st = [bytes |-> b, pos |-> 0, in |-> FALSE, out |-> FALSE, skip |-> FALSE, err |-> FALSE,
              level |-> 0, curp |-> 0, buffer |-> buf]
  BY DEF Init
<1>2. b \in Seq(Chars)
  <2>1. BinFiles \cup TextFiles \subseteq Seq(Chars) /\ << >> \in Seq(Chars)
    BY BufferAssumption
  <2> QED BY <2>1
<1>3. Len(b) \in Nat
  BY <1>2, LenProperties
<1>4. buf \in [1 .. BUFSIZ -> Chars] /\ 0 \in 0 .. BUFSIZ
  BY Sizes
<1> HIDE DEF buf
<1>5. st \in StType
  BY <1>1, <1>2, <1>4 DEF StType
<1>6. Shaped(st) /\ NoLine(st)
  BY <1>1, <1>3, <1>5 DEF Shaped, NoLine
<1> QED BY <1>6 DEF BufferInv, Init

LEMMA Keeping ==
  ASSUME mode \in Modes, mode' = mode, open' \in BOOLEAN,
         ret' \in Nat \cup {EOF}, Shaped(st'), NoLine(st')
  PROVE  BufferInv'
<1>1. ret' \in Int
  BY DEF EOF
<1> QED BY <1>1 DEF BufferInv, Shaped, NoLine

LEMMA Refuses ==
  ASSUME NEW s, Shaped(s), NEW v \in BOOLEAN
  PROVE  /\ Shaped([s EXCEPT !.err = v])
         /\ NoLine(s) => NoLine([s EXCEPT !.err = v])
<1> DEFINE r == SetErr(s, v)
<1>1. s \in StType /\ r = [s EXCEPT !.err = v]
  BY DEF Shaped, SetErr
<1>2. r \in StType /\ r.bytes = s.bytes /\ r.pos = s.pos
  BY <1>1, SetErrIs
<1>3. r.in = s.in /\ r.out = s.out /\ r.level = s.level /\ r.curp = s.curp /\ r.buffer = s.buffer
  BY <1>1, SetErrIs
<1> HIDE DEF r
<1>4. Shaped(r)
  BY <1>2, <1>3 DEF Shaped
<1>5. NoLine(s) => NoLine(r)
  BY <1>3 DEF NoLine
<1> QED BY <1>1, <1>4, <1>5

LEMMA FlushShaped ==
  ASSUME NEW s, Shaped(s), NEW k \in Taken(s), mode \in Modes
  PROVE  Shaped(Flushed(s, k)) /\ NoLine(Flushed(s, k)) /\ k \in 0 .. s.level
<1>1. k \in 0 .. s.level
  BY TakenIs DEF Shaped
<1> DEFINE f == Flushed(s, k)
<1>2. Shaped(f) /\ f.out = FALSE
  BY <1>1, FlushedIs
<1> HIDE DEF f
<1>3. NoLine(f)
  BY <1>2 DEF NoLine
<1> QED BY <1>1, <1>2, <1>3 DEF f

\* The handle is set where the caller wants it.
LEMMA SeekShaped ==
  ASSUME NEW s, Shaped(s), s.in = FALSE, s.out = FALSE, NEW p, p \in 0 .. Len(s.bytes),
         NEW v, v \in BOOLEAN
  PROVE  Shaped([s EXCEPT !.pos = p, !.err = v]) /\ NoLine([s EXCEPT !.pos = p, !.err = v])
<1> DEFINE r == SetPosErr(s, p, v)
<1>1. s \in StType /\ p \in Nat /\ Len(s.bytes) \in Nat /\ r = [s EXCEPT !.pos = p, !.err = v]
  BY Fields DEF Shaped, SetPosErr
<1>2. r \in StType /\ r.bytes = s.bytes /\ r.pos = p
  BY <1>1, SetPosErrIs
<1>3. r.in = s.in /\ r.out = s.out
  BY <1>1, SetPosErrIs
<1> HIDE DEF r
<1>4. Shaped(r) /\ NoLine(r)
  BY <1>1, <1>2, <1>3 DEF Shaped, NoLine
<1> QED BY <1>1, <1>4

\* The three ways of ungetc.
UngotInto(t, s, c) ==
  /\ s.in = TRUE /\ s.curp # 0
  /\ t \in StType /\ t.in = TRUE /\ t.out = s.out /\ t.bytes = s.bytes /\ t.pos = s.pos /\ t.err = s.err
  /\ t.level = s.level + 1 /\ t.curp = s.curp - 1 /\ t.buffer = [s.buffer EXCEPT ![s.curp] = c]

UngotBefore(t, f, c) ==
  /\ t \in StType /\ t.in = TRUE /\ t.out = FALSE /\ t.bytes = f.bytes /\ t.pos = f.pos /\ t.err = f.err
  /\ t.level = 1 /\ t.curp = BUFSIZ - 1 /\ t.buffer = [f.buffer EXCEPT ![BUFSIZ] = c]

LEMMA UngetIs ==
  ASSUME Shaped(st), mode \in Modes, NEW c \in Chars, ungetc(c)
  PROVE  \/ UngotInto(st', st, c) /\ ret' = c
         \/ /\ ~(st.in = TRUE /\ st.curp # 0)
            /\ \E k \in Taken(st) :
                 /\ cut' = (cut \/ Cuts(st, k))
                 /\ \/ FlushFails(st, k) /\ st' = Flushed(st, k) /\ ret' = EOF
                    \/ ~FlushFails(st, k) /\ UngotBefore(st', Flushed(st, k), c) /\ ret' = c
<1>1. /\ st \in StType /\ st.level \in Nat /\ st.level \in 0 .. BUFSIZ
      /\ st.curp \in Nat /\ st.curp \in 0 .. BUFSIZ /\ st.buffer \in [1 .. BUFSIZ -> Chars]
  BY Fields DEF Shaped
<1>2. CASE st.in = TRUE /\ st.curp # 0
  <2> DEFINE l == st.level + 1
             n == st.curp - 1
             b == [st.buffer EXCEPT ![st.curp] = c]
             r == SetPushBack(st, l, n, b)
  <2>1. st' = [st EXCEPT !.level = @ + 1, !.curp = @ - 1, !.buffer[st.curp] = c] /\ ret' = c
    BY <1>2 DEF ungetc, Returns
  <2>2. st' = r
    <3>1. [st EXCEPT !.level = @ + 1, !.curp = @ - 1, !.buffer[st.curp] = c]
            = [st EXCEPT !.level = l, !.curp = n, !.buffer = b]
      OBVIOUS
    <3> QED BY <2>1, <3>1 DEF SetPushBack
  <2>3. l \in 0 .. BUFSIZ /\ n \in 0 .. BUFSIZ
    <3>1. st.curp # 0 /\ st.curp + st.level <= BUFSIZ /\ BUFSIZ \in Nat
      BY <1>2, Sizes DEF Shaped
    <3>2. l <= BUFSIZ /\ n <= BUFSIZ /\ l \in Nat /\ n \in Nat
      BY <1>1, <3>1
    <3> QED BY <3>1, <3>2
  <2>4. b \in [1 .. BUFSIZ -> Chars]
    BY <1>1
  <2> HIDE DEF l, n, b
  <2>5. /\ r \in StType
        /\ r.bytes = st.bytes /\ r.pos = st.pos /\ r.in = st.in /\ r.out = st.out /\ r.skip = st.skip
        /\ r.err = st.err /\ r.level = l /\ r.curp = n /\ r.buffer = b
    <3>1. st \in StType
      BY <1>1
    <3> QED BY <2>3, <2>4, <3>1, SetPushBackIs
  <2> HIDE DEF r
  <2>6. UngotInto(r, st, c)
    BY <1>2, <2>5 DEF UngotInto, l, n, b
  <2> QED BY <2>1, <2>2, <2>6
<1>3. CASE ~(st.in = TRUE /\ st.curp # 0)
  <2>1. PICK k \in Taken(st) :
          /\ cut' = (cut \/ Cuts(st, k))
          /\ IF FlushFails(st, k) THEN st' = Flushed(st, k) /\ Returns(EOF)
             ELSE /\ st' = [Flushed(st, k) EXCEPT !.in = TRUE, !.level = 1, !.curp = BUFSIZ - 1,
                                                  !.buffer[BUFSIZ] = c]
                  /\ Returns(c)
    BY <1>3 DEF ungetc, CutWhen
  <2> DEFINE f == Flushed(st, k)
  <2>2. CASE FlushFails(st, k)
    BY <1>3, <2>1, <2>2 DEF Returns
  <2>3. CASE ~FlushFails(st, k)
    <3>0. cut' = (cut \/ Cuts(st, k))
      BY <2>1
    <3> DEFINE n == BUFSIZ - 1
               v == TRUE
               b == [f.buffer EXCEPT ![BUFSIZ] = c]
               r == SetPushIn(f, v, 1, n, b)
    <3>1. st' = r /\ ret' = c
      <4>1. st' = [f EXCEPT !.in = TRUE, !.level = 1, !.curp = BUFSIZ - 1, !.buffer[BUFSIZ] = c]
            /\ ret' = c
        BY <2>1, <2>3 DEF Returns
      <4>2. [f EXCEPT !.in = TRUE, !.level = 1, !.curp = BUFSIZ - 1, !.buffer[BUFSIZ] = c]
              = [f EXCEPT !.in = v, !.level = 1, !.curp = n, !.buffer = b]
        OBVIOUS
      <4> QED BY <4>1, <4>2 DEF SetPushIn
    <3>2. f \in StType /\ f.out = FALSE
      <4>1. k \in 0 .. st.level
        BY <1>1, TakenIs
      <4> QED BY <4>1, FlushedIs DEF Shaped
    <3> HIDE DEF f
    <3>3. n \in 0 .. BUFSIZ /\ 1 \in 0 .. BUFSIZ /\ v \in BOOLEAN
      BY Sizes
    <3>4. b \in [1 .. BUFSIZ -> Chars]
      BY <3>2, Fields
    <3> HIDE DEF n, b, v
    <3>5. /\ r \in StType
          /\ r.bytes = f.bytes /\ r.pos = f.pos /\ r.in = v /\ r.out = f.out /\ r.skip = f.skip
          /\ r.err = f.err /\ r.level = 1 /\ r.curp = n /\ r.buffer = b
      BY <3>2, <3>3, <3>4, SetPushInIs
    <3> HIDE DEF r
    <3>6. UngotBefore(r, f, c)
      BY <3>2, <3>5 DEF UngotBefore, v, n, b
    <3> QED BY <1>3, <2>3, <3>0, <3>1, <3>6 DEF f
  <2> QED BY <2>2, <2>3
<1> QED BY <1>2, <1>3

\* What may be pushed back was read, so there is a place for it before the
\* client's.
LEMMA PushIsChar ==
  ASSUME Shaped(st), mode \in Modes, MayPushBack
  PROVE  /\ Contents[At] \in Chars /\ Contents[At] \in Nat
         /\ Place(st) > 0 /\ Place(st) \in Nat
         /\ mode.bin => At = Place(st) /\ Contents = All(st)
<1>1. Place(st) > 0 /\ Place(st) \in Nat
  BY SomethingRead, PlaceIs DEF MayPushBack
<1>2. CASE mode.bin
  <2>1. Contents = All(st) /\ At = Len(SubSeq(All(st), 1, Place(st)))
    BY <1>2 DEF Contents, At, Reading
  <2>2. All(st) \in Seq(Chars) /\ Place(st) <= Len(All(st)) /\ Len(All(st)) \in Nat
    BY PlaceIs
  <2>3. Len(SubSeq(All(st), 1, Place(st))) = Place(st)
    <3>1. \A i \in 1 .. Place(st) : All(st)[i] \in Chars
      BY <1>1, <2>2, ElementOfSeq
    <3>2. Len(SubSeq(All(st), 1, Place(st))) = Place(st) - 1 + 1
      BY <1>1, <2>2, <3>1, SubSeqProperties
    <3> QED BY <1>1, <3>2
  <2>4. At \in 1 .. Len(All(st))
    BY <1>1, <2>1, <2>2, <2>3
  <2>5. All(st)[At] \in Chars
    BY <2>2, <2>4, ElementOfSeq
  <2> QED BY <1>1, <2>1, <2>3, <2>5, Sizes
<1>3. CASE ~mode.bin
  BY <1>1, <1>3, Sizes DEF MayPushBack
<1> QED BY <1>2, <1>3

\* An ungetc that flushed was at a place behind the first.
LEMMA UngetPlace ==
  ASSUME Shaped(st), mode \in Modes, MayPushBack, ~(st.in = TRUE /\ st.curp # 0),
         NEW k \in Taken(st), ~FlushFails(st, k)
  PROVE  /\ Flushed(st, k).pos \in Nat /\ Flushed(st, k).pos > 0
         /\ st.in => st.level = 0
         /\ ~st.out => Flushed(st, k).pos = Place(st)
<1> DEFINE f == Flushed(st, k)
<1>1. st \in StType /\ st.pos \in Nat /\ st.level \in Nat /\ ~(st.in /\ st.out) /\ k \in 0 .. st.level
  BY Fields, TakenIs DEF Shaped
<1>2. Place(st) > 0 /\ Place(st) \in Nat
  BY PushIsChar
<1>3. f.pos = (IF st.out THEN st.pos + k ELSE IF st.in THEN 0 ELSE st.pos)
  BY <1>1, FlushedIs
<1> HIDE DEF f
<1>4. CASE st.out
  <2>1. st.level > 0 /\ Written(st.level, k) # 0
    BY <1>4 DEF Shaped, FlushFails
  <2>2. k > 0
    BY <1>1, <2>1 DEF Written
  <2> QED BY <1>1, <1>3, <1>4, <2>2 DEF f
<1>5. CASE ~st.out /\ st.in
  BY <1>5 DEF MayPushBack
<1>6. CASE ~st.out /\ ~st.in
  BY <1>1, <1>2, <1>3, <1>6 DEF Place, f
<1> QED BY <1>4, <1>5, <1>6

LEMMA UngetShaped ==
  ASSUME BufferInv, MayPushBack, ungetc(Contents[At])
  PROVE  BufferInv'
<1>1. /\ mode \in Modes /\ open \in BOOLEAN
      /\ Shaped(st) /\ NoLine(st) /\ mode.read
      /\ mode' = mode /\ open' = open
  BY DEF BufferInv, MayPushBack, ungetc, Call, Stays
<1> DEFINE c == Contents[At]
<1>2. c \in Chars /\ c \in Nat /\ Place(st) > 0 /\ Place(st) \in Nat
  BY <1>1, PushIsChar
<1> HIDE DEF c
<1>3. \/ UngotInto(st', st, c) /\ ret' = c
      \/ /\ ~(st.in = TRUE /\ st.curp # 0)
         /\ \E k \in Taken(st) :
              \/ FlushFails(st, k) /\ st' = Flushed(st, k) /\ ret' = EOF
              \/ ~FlushFails(st, k) /\ UngotBefore(st', Flushed(st, k), c) /\ ret' = c
  BY <1>1, <1>2, UngetIs DEF c
<1>4. CASE UngotInto(st', st, c) /\ ret' = c
  <2> DEFINE t == st'
  <2>1. /\ st.level \in Nat /\ st.curp \in Nat /\ st.pos \in Nat /\ st.pos <= Len(st.bytes)
        /\ st.in = TRUE /\ st.curp + st.level <= BUFSIZ /\ st.out = FALSE /\ BUFSIZ \in Nat
    BY <1>1, <1>4, Fields, Sizes DEF Shaped, UngotInto
  <2>2. st.level < st.pos
    BY <1>2, <2>1 DEF Place
  <2>3. /\ t \in StType /\ t.in = TRUE /\ t.out = FALSE /\ t.bytes = st.bytes /\ t.pos = st.pos
        /\ t.level = st.level + 1 /\ t.curp = st.curp - 1
    BY <1>4, <2>1 DEF UngotInto
  <2> HIDE DEF t
  <2>4. Shaped(t) /\ NoLine(t)
    BY <1>1, <2>1, <2>2, <2>3 DEF Shaped, NoLine
  <2> QED BY <1>1, <1>2, <1>4, <2>4, Keeping DEF t
<1>5. ASSUME NEW k \in Taken(st), FlushFails(st, k) /\ st' = Flushed(st, k) /\ ret' = EOF
      PROVE  BufferInv'
  BY <1>1, <1>5, FlushShaped, Keeping
<1>6. ASSUME NEW k \in Taken(st), ~(st.in = TRUE /\ st.curp # 0),
             ~FlushFails(st, k), UngotBefore(st', Flushed(st, k), c), ret' = c
      PROVE  BufferInv'
  <2> DEFINE t == st'
             f == Flushed(st, k)
  <2>1. Shaped(f)
    BY <1>1, FlushShaped
  <2>2. f.pos \in Nat /\ f.pos > 0
    BY <1>1, <1>6, UngetPlace
  <2> HIDE DEF f
  <2>3. /\ t \in StType /\ t.in = TRUE /\ t.out = FALSE /\ t.bytes = f.bytes /\ t.pos = f.pos
        /\ t.level = 1 /\ t.curp = BUFSIZ - 1
    BY <1>6 DEF UngotBefore, f
  <2> HIDE DEF t
  <2>4. Shaped(t) /\ NoLine(t)
    BY <1>1, <2>1, <2>2, <2>3, Sizes DEF Shaped, NoLine
  <2> QED BY <1>1, <1>2, <1>6, <2>4, Keeping DEF t
<1> QED BY <1>3, <1>4, <1>5, <1>6

LEMMA GetStep ==
  ASSUME BufferInv, fgetc
  PROVE  BufferInv'
<1>1. /\ mode \in Modes /\ open \in BOOLEAN /\ Shaped(st) /\ NoLine(st)
      /\ mode' = mode /\ open' = open /\ mode.read \in BOOLEAN
  BY DEF BufferInv, fgetc, Call, Stays, Modes
<1>2. CASE ~mode.read
  <2>1. st' = [st EXCEPT !.err = TRUE] /\ ret' = EOF
    BY <1>2 DEF fgetc, Refused, Returns
  <2> QED BY <1>1, <2>1, Refuses, Keeping
<1>3. CASE mode.read
  <2>1. PICK k \in Taken(st) : st' = _basegetc(st, k).s /\ ret' = _basegetc(st, k).c
    BY <1>3 DEF fgetc, Returns
  <2> DEFINE g == _basegetc(st, k)
  <2>2. k \in 0 .. st.level
    BY <1>1, TakenIs DEF Shaped
  <2>3. Shaped(g.s) /\ g.s.out = FALSE /\ g.c \in Nat \cup {EOF}
    <3>1. Shaped(g.s) /\ ~g.s.out /\ g.c \in Nat \cup {EOF}
      BY <1>1, <1>3, <2>2, GetShaped
    <3> HIDE DEF g
    <3>2. g.s.out \in BOOLEAN
      BY <3>1, Fields DEF Shaped
    <3> QED BY <3>1, <3>2
  <2> HIDE DEF g
  <2>4. NoLine(g.s)
    BY <2>3 DEF NoLine
  <2>5. st' = g.s /\ ret' = g.c
    BY <2>1 DEF g
  <2> QED BY <1>1, <2>3, <2>4, <2>5, Keeping
<1> QED BY <1>2, <1>3

LEMMA PutStep ==
  ASSUME BufferInv, NEW c \in Letters \cup {LF}, fputc(c)
  PROVE  BufferInv'
<1>1. /\ mode \in Modes /\ open \in BOOLEAN /\ Shaped(st) /\ NoLine(st)
      /\ mode' = mode /\ open' = open /\ (mode.bin \/ c # LF)
  BY DEF BufferInv, fputc, Call, Stays
<1>2. PICK k \in Taken(st) : st' = _baseputc(st, c, k) /\ ret' = (IF PutFails(st, k) THEN EOF ELSE c)
  BY DEF fputc, Returns
<1>3. c \in Chars /\ c \in Nat
  BY Sizes
<1>4. k \in 0 .. st.level
  BY <1>1, TakenIs DEF Shaped
<1> DEFINE r == _baseputc(st, c, k)
<1>5. Shaped(r) /\ (c # LF => NoLine(r))
  BY <1>1, <1>3, <1>4, PutIs
<1> HIDE DEF r
<1>6. NoLine(r)
  BY <1>1, <1>5 DEF NoLine
<1> QED BY <1>1, <1>2, <1>3, <1>5, <1>6, Keeping DEF r

\* What fputc_lf does when the driver takes k1 characters for the CR.
LineFrom(k1) ==
  LET s1 == _baseputc(st, CR, k1)
      c1 == PutCuts(st, k1)
  IN IF PutFails(st, k1) THEN st' = s1 /\ Returns(EOF) /\ CutWhen(c1)
     ELSE \E k2 \in Taken(s1) :
            LET s2 == _baseputc(s1, LF, k2)
                c2 == c1 \/ PutCuts(s1, k2)
            IN IF PutFails(s1, k2) THEN st' = s2 /\ Returns(EOF) /\ CutWhen(c2)
               ELSE \E k3 \in Taken(s2) :
                      st' = LineEnd(s2, k3) /\ Returns(LF) /\ CutWhen(c2 \/ Cuts(s2, k3))

\* However the flush behind a line end goes, the line is not kept.
LEMMA LineStep ==
  ASSUME BufferInv, fputc_lf
  PROVE  BufferInv'
<1>1. /\ mode \in Modes /\ open \in BOOLEAN /\ Shaped(st) /\ NoLine(st)
      /\ mode' = mode /\ open' = open
  BY DEF BufferInv, fputc_lf, Call, Stays
<1>2. LF \in Chars /\ CR \in Chars /\ LF \in Nat /\ CR # LF
  BY Sizes DEF CR, LF
<1>3. PICK k1 \in Taken(st) : LineFrom(k1)
  BY DEF fputc_lf, LineFrom
<1> DEFINE s1 == _baseputc(st, CR, k1)
<1>4. Shaped(s1) /\ NoLine(s1)
  <2>1. k1 \in 0 .. st.level
    BY <1>1, TakenIs DEF Shaped
  <2> QED BY <1>1, <1>2, <2>1, PutIs
<1>5. CASE PutFails(st, k1)
  <2>1. st' = s1 /\ ret' = EOF
    BY <1>3, <1>5 DEF LineFrom, Returns
  <2> QED BY <1>1, <1>4, <2>1, Keeping
<1>6. CASE ~PutFails(st, k1)
  <2>1. PICK k2 \in Taken(s1) :
          LET s2 == _baseputc(s1, LF, k2)
              c2 == PutCuts(st, k1) \/ PutCuts(s1, k2)
          IN IF PutFails(s1, k2) THEN st' = s2 /\ Returns(EOF) /\ CutWhen(c2)
             ELSE \E k3 \in Taken(s2) :
                    st' = LineEnd(s2, k3) /\ Returns(LF) /\ CutWhen(c2 \/ Cuts(s2, k3))
    BY <1>3, <1>6 DEF LineFrom
  <2> HIDE DEF s1
  <2> DEFINE s2 == _baseputc(s1, LF, k2)
  <2>2. Shaped(s2) /\ (PutFails(s1, k2) => ~s2.out)
    <3>1. k2 \in 0 .. s1.level
      BY <1>4, TakenIs DEF Shaped
    <3> QED BY <1>1, <1>2, <1>4, <3>1, PutIs
  <2>3. CASE PutFails(s1, k2)
    <3>1. st' = s2 /\ ret' = EOF
      BY <2>1, <2>3 DEF Returns
    <3> HIDE DEF s2
    <3>2. NoLine(s2)
      BY <2>2, <2>3 DEF NoLine
    <3> QED BY <1>1, <2>2, <3>1, <3>2, Keeping
  <2>4. CASE ~PutFails(s1, k2)
    <3>1. PICK k3 \in Taken(s2) : st' = Flushed(s2, k3) /\ ret' = LF
      BY <2>1, <2>4 DEF Returns, LineEnd
    <3> HIDE DEF s2
    <3>2. Shaped(Flushed(s2, k3)) /\ NoLine(Flushed(s2, k3))
      BY <1>1, <2>2, FlushShaped
    <3> QED BY <1>1, <1>2, <3>1, <3>2, Keeping
  <2> QED BY <2>3, <2>4
<1> QED BY <1>5, <1>6

LEMMA RangeInNat ==
  ASSUME NEW n, NEW x \in 0 .. n
  PROVE  x \in Nat
OBVIOUS

LEMMA SeekStep ==
  ASSUME BufferInv, NEW offset, NEW origin, fseek(offset, origin)
  PROVE  BufferInv'
<1>1. /\ mode \in Modes /\ open \in BOOLEAN /\ Shaped(st) /\ NoLine(st)
      /\ mode' = mode /\ open' = open
  BY DEF BufferInv, fseek, Call, Stays
<1>2. PICK k \in Taken(st), e \in {0, EOF}, to \in Nat :
        LET s == Flushed(st, k) IN
        IF FlushFails(st, k) THEN st' = s /\ Returns(EOF)
        ELSE /\ to \in 0 .. Len(s.bytes)
             /\ st' = [s EXCEPT !.pos = to, !.err = @ \/ e = EOF]
             /\ Returns(e)
  BY RangeInNat DEF fseek
<1> DEFINE s == Flushed(st, k)
<1>3. Shaped(s) /\ NoLine(s) /\ s.in = FALSE /\ s.out = FALSE
  <2>1. Shaped(s) /\ NoLine(s) /\ k \in 0 .. st.level
    BY <1>1, FlushShaped
  <2>2. s.in = FALSE /\ s.out = FALSE
    BY <1>1, <2>1, FlushedIs
  <2> QED BY <2>1, <2>2
<1>4. CASE FlushFails(st, k)
  BY <1>1, <1>2, <1>3, <1>4, Keeping DEF Returns
<1>5. CASE ~FlushFails(st, k)
  <2> DEFINE v == s.err \/ e = EOF
  <2>1. to \in 0 .. Len(s.bytes) /\ ret' = e /\ st' = [s EXCEPT !.pos = to, !.err = v]
    BY <1>2, <1>5 DEF Returns
  <2>2. v \in BOOLEAN
    OBVIOUS
  <2> HIDE DEF s, v
  <2>3. Shaped([s EXCEPT !.pos = to, !.err = v]) /\ NoLine([s EXCEPT !.pos = to, !.err = v])
    BY <1>3, <2>1, <2>2, SeekShaped
  <2>4. ret' \in Nat \cup {EOF}
    BY <2>1
  <2> QED BY <1>1, <2>1, <2>3, <2>4, Keeping
<1> QED BY <1>4, <1>5

LEMMA OpenStep ==
  ASSUME BufferInv, fopen
  PROVE  BufferInv'
<1>1. /\ Shaped(st) /\ open' = TRUE /\ ret' = 0
      /\ mode' \in {m \in Modes : m.read /\ m.bin = mode.bin}
      /\ st' = [st EXCEPT !.pos = 0, !.in = FALSE, !.out = FALSE, !.skip = FALSE, !.err = FALSE,
                          !.level = 0, !.curp = 0]
  BY DEF BufferInv, fopen, Returns
<1>2. st = [bytes |-> st.bytes, pos |-> st.pos, in |-> st.in, out |-> st.out, skip |-> st.skip,
            err |-> st.err, level |-> st.level, curp |-> st.curp, buffer |-> st.buffer]
  BY <1>1, Fields DEF Shaped
<1>3. /\ st.bytes \in Seq(Chars) /\ Len(st.bytes) \in Nat /\ st.buffer \in [1 .. BUFSIZ -> Chars]
      /\ 0 \in 0 .. BUFSIZ
  BY <1>1, Fields, Sizes DEF Shaped
<1>4. st' = [bytes |-> st.bytes, pos |-> 0, in |-> FALSE, out |-> FALSE, skip |-> FALSE,
             err |-> FALSE, level |-> 0, curp |-> 0, buffer |-> st.buffer]
  BY <1>1, <1>2
<1>5. st' \in StType
  BY <1>3, <1>4 DEF StType
<1>6. Shaped(st)' /\ NoLine(st)'
  BY <1>3, <1>4, <1>5 DEF Shaped, NoLine, StType, Chars, NUL, LF, CR
<1>7. mode' \in Modes
  BY <1>1
<1> QED BY <1>1, <1>6, <1>7 DEF BufferInv

LEMMA CloseStep ==
  ASSUME BufferInv, fclose
  PROVE  BufferInv'
<1>1. /\ mode \in Modes /\ Shaped(st) /\ NoLine(st)
      /\ mode' = mode /\ open' = FALSE
  BY DEF BufferInv, fclose, Call
<1>2. PICK k \in Taken(st), e \in {0, EOF} : st' = (IF st.out THEN Flushed(st, k) ELSE st) /\ ret' = e
  BY DEF fclose, Returns
<1>3. Shaped(st') /\ NoLine(st')
  BY <1>1, <1>2, FlushShaped
<1>4. open' \in BOOLEAN
  BY <1>1
<1>5. ret' \in Nat \cup {EOF}
  BY <1>2
<1> QED BY <1>1, <1>3, <1>4, <1>5, Keeping

LEMMA OtherSteps ==
  ASSUME BufferInv, fputc_refused \/ fflush \/ clearerr \/ fgetpos
  PROVE  BufferInv'
<1>1. /\ mode \in Modes /\ Shaped(st) /\ NoLine(st) /\ open \in BOOLEAN
      /\ mode' = mode /\ open' = open
  BY DEF BufferInv, fputc_refused, fflush, clearerr, fgetpos, Call, Stays
<1>2. CASE fputc_refused
  <2>1. st' = [st EXCEPT !.err = TRUE] /\ ret' = EOF
    BY <1>2 DEF fputc_refused, Refused, Returns
  <2> QED BY <1>1, <2>1, Refuses, Keeping
<1>3. CASE clearerr
  <2>1. st' = [st EXCEPT !.err = FALSE] /\ ret' = 0
    BY <1>3 DEF clearerr, Returns
  <2> QED BY <1>1, <2>1, Refuses, Keeping
<1>4. CASE fflush
  <2>1. PICK k \in Taken(st) : st' = Flushed(st, k) /\ ret' = (IF FlushFails(st, k) THEN EOF ELSE 0)
    BY <1>4 DEF fflush, Returns
  <2> QED BY <1>1, <2>1, FlushShaped, Keeping
<1>5. CASE fgetpos
  <2>1. st' = st /\ ret' = (IF st.in THEN 0 - st.level ELSE IF st.out THEN 0 + st.level ELSE 0)
    BY <1>5 DEF fgetpos, Returns, _ll_getpos
  <2>2. st.level \in Nat
    BY <1>1, Fields DEF Shaped
  <2>3. ret' \in Int
    BY <2>1, <2>2
  <2> QED BY <1>1, <2>1, <2>3 DEF BufferInv, Shaped, NoLine
<1> QED BY <1>2, <1>3, <1>4, <1>5

LEMMA Steps ==
  ASSUME BufferInv, [Next]_vars
  PROVE  BufferInv'
<1>1. CASE fopen
  BY <1>1, OpenStep
<1>2. CASE fclose
  BY <1>2, CloseStep
<1>3. CASE fgetc
  BY <1>3, GetStep
<1>4. CASE \E c \in Letters \cup {LF} : fputc(c)
  BY <1>4, PutStep
<1>5. CASE fputc_lf
  BY <1>5, LineStep
<1>6. CASE fputc_refused \/ fflush \/ clearerr \/ fgetpos
  BY <1>6, OtherSteps
<1>7. CASE \E offset, origin : fseek(offset, origin)
  BY <1>7, SeekStep
<1>8. CASE MayPushBack /\ ungetc(Contents[At])
  BY <1>8, UngetShaped
<1>9. CASE UNCHANGED vars
  BY <1>9 DEF vars, BufferInv, Shaped, NoLine
<1> QED BY <1>1, <1>2, <1>3, <1>4, <1>5, <1>6, <1>7, <1>8, <1>9, Zenon DEF Next

\* What a flush cut short lost stays lost.
LEMMA CutKept ==
  ASSUME cut \in BOOLEAN, [Next]_vars
  PROVE  cut' \in BOOLEAN /\ (cut' = FALSE => cut = FALSE)
<1>1. CASE fopen
  BY <1>1 DEF fopen, Whole
<1>2. CASE fputc_refused \/ clearerr \/ fgetpos \/ UNCHANGED vars
  BY <1>2 DEF fputc_refused, clearerr, fgetpos, Whole, vars
<1>3. CASE fclose \/ fflush
  BY <1>3 DEF fclose, fflush, CutWhen
<1>4. CASE fgetc
  BY <1>4 DEF fgetc, Whole, CutWhen
<1>5. CASE \E c \in Letters \cup {LF} : fputc(c)
  BY <1>5 DEF fputc, CutWhen
<1>6. CASE fputc_lf
  <2>1. PICK k1 \in Taken(st) : LineFrom(k1)
    BY <1>6 DEF fputc_lf, LineFrom
  <2> QED BY <2>1 DEF LineFrom, CutWhen
<1>7. CASE \E offset, origin : fseek(offset, origin)
  BY <1>7 DEF fseek, CutWhen
<1>8. CASE ungetc(Contents[At])
  BY <1>8 DEF ungetc, Whole, CutWhen
<1> QED BY <1>1, <1>2, <1>3, <1>4, <1>5, <1>6, <1>7, <1>8, Zenon DEF Next

\* Whatever clients do and the driver answers, the buffer and its counters
\* keep to their ranges.
THEOREM BufferTypeCorrect == Spec => []TypeOK
<1>1. Init => BufferInv /\ cut \in BOOLEAN
  BY Starts DEF Init
<1>2. (BufferInv /\ cut \in BOOLEAN) /\ [Next]_vars => (BufferInv /\ cut \in BOOLEAN)'
  BY Steps, CutKept
<1>3. BufferInv /\ cut \in BOOLEAN => TypeOK
  <2> SUFFICES ASSUME BufferInv, cut \in BOOLEAN PROVE TypeOK
    OBVIOUS
  <2>1. Shaped(st) /\ st \in StType
    BY DEF BufferInv, Shaped
  <2>2. st.pos \in 0 .. Len(st.bytes)
    BY <2>1, Fields DEF Shaped
  <2>3. \A f \in {"in", "out", "skip", "err"} : st[f] \in BOOLEAN
    BY <2>1, Fields
  <2> QED BY <2>1, <2>2, <2>3, Fields DEF BufferInv, TypeOK
<1> QED BY <1>1, <1>2, <1>3, PTL DEF Spec

\* No line end waits in the buffer of a text stream: what was put as a line
\* was flushed, or given up with the error indicator (putget.c).
THEOREM LinesStayWritten == Spec => []LinesAreWritten
<1>1. Init => BufferInv
  BY Starts
<1>2. BufferInv /\ [Next]_vars => BufferInv'
  BY Steps
<1>3. BufferInv => LinesAreWritten
  BY DEF BufferInv, NoLine, LinesAreWritten
<1> QED BY <1>1, <1>2, <1>3, PTL DEF Spec

-----------------------------------------------------------------------------
(* Text: the last character that was read is the one before the client's    *)
(* place, unless a line ended there.                                        *)

Clean(b) == \A i \in 1 .. Len(b) : b[i] # NUL

\* The places of the characters that Text keeps.
Kept(b) == {i \in 1 .. Len(b) : ~(b[i] = LF /\ i > 1 /\ b[i - 1] = CR)}

LEMMA TextIs ==
  ASSUME NEW b, Clean(b)
  PROVE  Text(b) = [j \in 1 .. Cardinality(Kept(b)) |->
                      LET i == CHOOSE i \in Kept(b) : Cardinality({h \in Kept(b) : h < i}) = j - 1
                      IN  IF b[i] = CR THEN LF ELSE b[i]]
<1> DEFINE end == {i \in 1 .. Len(b) : b[i] = NUL}
           kept == {i \in 1 .. Len(b) : /\ \A e \in end : i < e
                                        /\ ~(b[i] = LF /\ i > 1 /\ b[i - 1] = CR)}
<1>1. end = {}
  BY DEF Clean
<1> HIDE DEF end
<1>2. kept = Kept(b)
  BY <1>1 DEF Kept
<1> HIDE DEF kept
<1>3. Text(b) = [j \in 1 .. Cardinality(kept) |->
                      LET i == CHOOSE i \in kept : Cardinality({h \in kept : h < i}) = j - 1
                      IN  IF b[i] = CR THEN LF ELSE b[i]]
  BY DEF Text, kept, end
<1> QED BY <1>2, <1>3

\* In a finite set of numbers, a member is known by how many are below it.
LEMMA Ranked ==
  ASSUME NEW K \in SUBSET Nat, IsFiniteSet(K), NEW i \in K, NEW j \in K,
         Cardinality({h \in K : h < i}) = Cardinality({h \in K : h < j})
  PROVE  i = j
<1>1. ASSUME NEW x \in K, NEW y \in K, x < y,
             Cardinality({h \in K : h < x}) = Cardinality({h \in K : h < y})
      PROVE  FALSE
  <2> DEFINE X == {h \in K : h < x}
             Y == {h \in K : h < y}
  <2>1. X \in SUBSET Y
    <3>1. \A h \in K : h < x => h < y
      <4>1. x \in Nat /\ y \in Nat /\ \A h \in K : h \in Nat
        OBVIOUS
      <4> QED BY <1>1, <4>1
    <3> QED BY <3>1
  <2>2. IsFiniteSet(Y)
    BY FS_Subset
  <2>3. x \in Y /\ x \notin X
    BY <1>1
  <2>4. Cardinality(X) = Cardinality(Y)
    BY <1>1
  <2> HIDE DEF X, Y
  <2>5. X = Y
    BY <2>1, <2>2, <2>4, FS_Subset
  <2> QED BY <2>3, <2>5
<1> QED BY <1>1

LEMMA RankAdded ==
  ASSUME NEW K \in SUBSET Nat, IsFiniteSet(K), NEW i \in K
  PROVE  /\ Cardinality({h \in K : h <= i}) = Cardinality({h \in K : h < i}) + 1
         /\ Cardinality({h \in K : h < i}) \in Nat
<1> DEFINE L == {h \in K : h < i}
<1>1. IsFiniteSet(L) /\ i \notin L
  BY FS_Subset
<1>2. {h \in K : h <= i} = L \cup {i}
  <2>1. i \in Nat /\ \A h \in K : h \in Nat
    OBVIOUS
  <2>2. \A h \in K : h <= i <=> h < i \/ h = i
    BY <2>1
  <2> QED BY <2>2
<1> HIDE DEF L
<1>3. Cardinality(L \cup {i}) = Cardinality(L) + 1 /\ Cardinality(L) \in Nat
  BY <1>1, FS_AddElement, FS_CardinalityType
<1> QED BY <1>2, <1>3 DEF L

\* The character before place p of a text, as the client reads it: the last
\* of what stands before p.
LEMMA LastRead ==
  ASSUME NEW b \in Seq(Chars), Clean(b), NEW p \in 1 .. Len(b)
  PROVE  LET n == Len(Text(SubSeq(b, 1, p))) IN
         /\ n \in 1 .. Len(Text(b))
         /\ Text(b)[n] = LF \/ Text(b)[n] = b[p]
<1> DEFINE K == Kept(b)
           d == SubSeq(b, 1, p)
<1>1. Len(b) \in Nat /\ p \in Nat /\ p <= Len(b) /\ (\A i \in 1 .. Len(b) : b[i] \in Chars)
  BY LenProperties, ElementOfSeq
<1>2. Len(d) = p /\ \A i \in 1 .. p : d[i] = b[i]
  <2>1. /\ Len(d) = IF 1 <= p THEN p - 1 + 1 ELSE 0
        /\ \A i \in 1 .. p - 1 + 1 : d[i] = b[1 + i - 1]
    <3>1. \A i \in 1 .. p : b[i] \in Chars
      BY <1>1
    <3> QED BY <1>1, <3>1, SubSeqProperties
  <2> HIDE DEF d
  <2> QED BY <1>1, <2>1
<1> HIDE DEF d
<1>3. K \in SUBSET Nat /\ K \subseteq 1 .. Len(b)
  BY <1>1 DEF Kept
<1>4. IsFiniteSet(K)
  <2>1. IsFiniteSet(1 .. Len(b))
    BY <1>1, FS_Interval
  <2>2. K \in SUBSET (1 .. Len(b))
    BY <1>3
  <2> HIDE DEF K
  <2> QED BY <2>1, <2>2, FS_Subset
<1>5. Kept(d) = {h \in K : h <= p}
  BY <1>1, <1>2 DEF Kept
<1>6. Clean(d)
  BY <1>1, <1>2 DEF Clean
<1> DEFINE val(j) == LET i == CHOOSE i \in K : Cardinality({h \in K : h < i}) = j - 1
                     IN  IF b[i] = CR THEN LF ELSE b[i]
           n == Cardinality({h \in K : h <= p})
<1>7. Text(b) = [j \in 1 .. Cardinality(K) |-> val(j)]
  BY TextIs
<1>8. n \in Nat /\ Cardinality(K) \in Nat /\ n <= Cardinality(K)
  <2> DEFINE L == {h \in K : h <= p}
  <2>1. L \in SUBSET K
    OBVIOUS
  <2> HIDE DEF L, K
  <2>2. IsFiniteSet(L) /\ Cardinality(L) <= Cardinality(K)
    BY <1>4, <2>1, FS_Subset
  <2> QED BY <1>4, <2>2, FS_CardinalityType DEF L
<1>9. Len(Text(b)) = Cardinality(K)
  <2> HIDE DEF K, val
  <2> QED BY <1>7, <1>8
<1>10. Len(Text(d)) = n
  <2> DEFINE D == Kept(d)
             vald(j) == LET i == CHOOSE i \in D : Cardinality({h \in D : h < i}) = j - 1
                        IN  IF d[i] = CR THEN LF ELSE d[i]
  <2>1. Text(d) = [j \in 1 .. Cardinality(D) |-> vald(j)]
    BY <1>6, TextIs
  <2>2. Cardinality(D) = n
    BY <1>5
  <2> HIDE DEF D, vald, n
  <2> QED BY <1>8, <2>1, <2>2
\* The place of the last character, and that there is no other of its rank.
<1>11. ASSUME NEW i \in K, Cardinality({h \in K : h < i}) = n - 1
       PROVE  (CHOOSE k \in K : Cardinality({h \in K : h < k}) = n - 1) = i
  <2> DEFINE c == CHOOSE k \in K : Cardinality({h \in K : h < k}) = n - 1
  <2>1. c \in K /\ Cardinality({h \in K : h < c}) = n - 1
    BY <1>11
  <2> HIDE DEF c, n, K
  <2>2. Cardinality({h \in K : h < c}) = Cardinality({h \in K : h < i})
    BY <1>11, <2>1
  <2>3. c = i
    BY <1>3, <1>4, <1>11, <2>1, <2>2, Ranked
  <2> QED BY <2>3 DEF c, n, K
<1>12. CASE p \in K
  <2>1. n = Cardinality({h \in K : h < p}) + 1 /\ Cardinality({h \in K : h < p}) \in Nat
    <3> HIDE DEF K
    <3> QED BY <1>3, <1>4, <1>12, RankAdded
  <2>2. n \in 1 .. Cardinality(K) /\ Cardinality({h \in K : h < p}) = n - 1
    <3> DEFINE m == Cardinality({h \in K : h < p})
    <3> HIDE DEF n, K, m
    <3>1. n = m + 1 /\ m \in Nat
      BY <2>1 DEF m
    <3>2. m = n - 1 /\ n \in 1 .. Cardinality(K)
      BY <1>8, <3>1
    <3> QED BY <3>2 DEF m
  <2>3. val(n) = IF b[p] = CR THEN LF ELSE b[p]
    <3>1. (CHOOSE k \in K : Cardinality({h \in K : h < k}) = n - 1) = p
      <4> HIDE DEF n, K
      <4> QED BY <1>11, <1>12, <2>2
    <3> DEFINE c == CHOOSE k \in K : Cardinality({h \in K : h < k}) = n - 1
    <3>2. val(n) = IF b[c] = CR THEN LF ELSE b[c]
      OBVIOUS
    <3>3. c = p
      BY <3>1
    <3> HIDE DEF n, K, c, val
    <3> QED BY <3>2, <3>3
  <2>4. Text(b)[n] = val(n)
    <3> HIDE DEF val, n, K
    <3> QED BY <1>7, <2>2
  <2> HIDE DEF val, n, K
  <2>5. Len(Text(SubSeq(b, 1, p))) = n
    BY <1>10 DEF d
  <2> QED BY <1>9, <2>2, <2>3, <2>4, <2>5
<1>13. CASE p \notin K
  <2>1. b[p] = LF /\ p > 1 /\ b[p - 1] = CR
    BY <1>13 DEF Kept
  <2>2. p - 1 \in K
    BY <1>1, <2>1 DEF Kept, CR, LF
  <2>3. {h \in K : h <= p} = {h \in K : h <= p - 1}
    BY <1>1, <1>3, <1>13
  <2>4. n = Cardinality({h \in K : h < p - 1}) + 1 /\ Cardinality({h \in K : h < p - 1}) \in Nat
    <3>1. LET i == p - 1 IN
          /\ Cardinality({h \in K : h <= i}) = Cardinality({h \in K : h < i}) + 1
          /\ Cardinality({h \in K : h < i}) \in Nat
      <4> HIDE DEF K
      <4> QED BY <1>3, <1>4, <2>2, RankAdded
    <3> HIDE DEF K
    <3> QED BY <2>3, <3>1
  <2>5. n \in 1 .. Cardinality(K) /\ Cardinality({h \in K : h < p - 1}) = n - 1
    <3> DEFINE m == Cardinality({h \in K : h < p - 1})
    <3> HIDE DEF n, K, m
    <3>1. n = m + 1 /\ m \in Nat
      BY <2>4 DEF m
    <3>2. m = n - 1 /\ n \in 1 .. Cardinality(K)
      BY <1>8, <3>1
    <3> QED BY <3>2 DEF m
  <2>6. val(n) = LF
    <3>1. (CHOOSE k \in K : Cardinality({h \in K : h < k}) = n - 1) = p - 1
      <4> HIDE DEF n, K
      <4> QED BY <1>11, <2>2, <2>5
    <3> HIDE DEF n, K
    <3> QED BY <2>1, <3>1
  <2>7. Text(b)[n] = val(n)
    <3> HIDE DEF val, n, K
    <3> QED BY <1>7, <2>5
  <2> HIDE DEF val, n, K
  <2>8. Len(Text(SubSeq(b, 1, p))) = n
    BY <1>10 DEF d
  <2> QED BY <1>9, <2>5, <2>6, <2>7, <2>8
<1> QED BY <1>12, <1>13

-----------------------------------------------------------------------------
(* What was read ahead *)

\* It is the piece of the file before the handle's position.
Window(s) ==
  s.in = TRUE => \A i \in 1 .. s.level : s.buffer[s.curp + i] = s.bytes[s.pos - s.level + i]

\* No NUL is in a text, nor waits to get there.
NulFree(s) ==
  ~mode.bin => /\ Clean(s.bytes)
               /\ s.out = TRUE => \A i \in 1 .. s.level : s.buffer[i] # NUL

Seen(s) == Shaped(s) /\ Window(s) /\ NulFree(s)

\* Nothing read ahead, and the file as it was.
LEMMA SeenIdle ==
  ASSUME NEW s, NulFree(s), NEW t, Shaped(t), t.in = FALSE, t.out = FALSE, t.bytes = s.bytes
  PROVE  Seen(t)
BY DEF Seen, Window, NulFree

LEMMA FlushSeen ==
  ASSUME NEW s, Shaped(s), NulFree(s), NEW k \in 0 .. s.level, mode \in Modes
  PROVE  /\ Seen(Flushed(s, k))
         /\ Flushed(s, k).in = FALSE /\ Flushed(s, k).out = FALSE
         /\ ~mode.bin => Clean(Flushed(s, k).bytes)
<1> DEFINE f == Flushed(s, k)
<1>1. /\ Shaped(f) /\ f.in = FALSE /\ f.out = FALSE
      /\ f.bytes = (IF s.out THEN Overlay(s.bytes, s.pos, SubSeq(s.buffer, 1, k)) ELSE s.bytes)
  BY FlushedIs
<1> HIDE DEF f
<1>2. ASSUME ~mode.bin PROVE Clean(f.bytes)
  <2>1. CASE ~s.out
    BY <1>1, <1>2, <2>1 DEF NulFree
  <2>2. CASE s.out = TRUE
    <3>1. /\ s.bytes \in Seq(Chars) /\ Len(s.bytes) \in Nat /\ s.pos \in Nat /\ s.pos <= Len(s.bytes)
          /\ s.level \in Nat /\ s.level <= BUFSIZ /\ s.buffer \in [1 .. BUFSIZ -> Chars]
      BY Fields DEF Shaped
    <3>2. k \in 0 .. BUFSIZ /\ k \in Nat /\ k <= s.level
      BY <3>1, Sizes
    <3> DEFINE c == SubSeq(s.buffer, 1, k)
    <3>3. c \in Seq(Chars) /\ Len(c) = k /\ \A i \in 1 .. k : c[i] = s.buffer[i]
      BY <3>1, <3>2, BufferPart
    <3> HIDE DEF c
    <3> DEFINE o == Overlay(s.bytes, s.pos, c)
    <3>4. /\ Len(o) \in Nat
          /\ Len(o) = IF s.pos + Len(c) > Len(s.bytes) THEN s.pos + Len(c) ELSE Len(s.bytes)
          /\ \A i \in 1 .. Len(o) : o[i] = IF i \in s.pos + 1 .. s.pos + Len(c) THEN c[i - s.pos] ELSE s.bytes[i]
      BY <3>1, <3>3, OverlayIs, ZenonT(60)
    <3>5. f.bytes = o
      BY <1>1, <2>2 DEF c
    <3> HIDE DEF o
    <3>6. Clean(s.bytes) /\ \A i \in 1 .. s.level : s.buffer[i] # NUL
      BY <1>2, <2>2 DEF NulFree
    <3>7. ASSUME NEW i \in 1 .. Len(o) PROVE o[i] # NUL
      <4>1. CASE i \in s.pos + 1 .. s.pos + k
        <5>1. i - s.pos \in 1 .. k /\ i - s.pos \in 1 .. s.level
          BY <3>1, <3>2, <4>1
        <5> QED BY <3>3, <3>4, <3>6, <4>1, <5>1
      <4>2. CASE i \notin s.pos + 1 .. s.pos + k
        <5>1. i \in 1 .. Len(s.bytes)
          BY <3>1, <3>2, <3>3, <3>4, <4>2
        <5> QED BY <3>3, <3>4, <3>6, <4>2, <5>1 DEF Clean
      <4> QED BY <4>1, <4>2
    <3> QED BY <3>5, <3>7 DEF Clean
  <2> QED BY <2>1, <2>2, Fields DEF Shaped
<1>3. Seen(f)
  BY <1>1, <1>2 DEF Seen, Window, NulFree
<1> QED BY <1>1, <1>2, <1>3 DEF f

\* A refill reads the piece of the file it counts its position for.
LEMMA FillSeen ==
  ASSUME NEW s, Shaped(s), NulFree(s), NEW k \in 0 .. s.level, mode \in Modes,
         mode.read
  PROVE  LET f == Filled(Begun(s, k)) IN Seen(f) /\ f.in = TRUE /\ f.out = FALSE
<1> DEFINE b == Begun(s, k)
           n == Portion(b)
           f == Filled(b)
<1>1. /\ b \in StType /\ b.pos <= Len(b.bytes) /\ b.in /\ ~b.out
      /\ b.bytes = (IF s.out THEN Overlay(s.bytes, s.pos, SubSeq(s.buffer, 1, k)) ELSE s.bytes)
  BY BegunIs
<1>2. ASSUME ~mode.bin PROVE Clean(b.bytes)
  <2>1. /\ ~mode.bin => Clean(Flushed(s, k).bytes)
        /\ Flushed(s, k).bytes
             = (IF s.out THEN Overlay(s.bytes, s.pos, SubSeq(s.buffer, 1, k)) ELSE s.bytes)
    BY FlushSeen, FlushedIs
  <2> QED BY <1>1, <1>2, <2>1
<1> HIDE DEF b
<1>3. /\ Shaped(f) /\ f.in /\ ~f.out
      /\ f.bytes = b.bytes /\ f.pos = b.pos + n /\ f.level = n /\ f.curp = 0
      /\ \A i \in 1 .. n : f.buffer[i] = b.bytes[b.pos + i]
  BY <1>1, FilledIs
<1>4. n \in Nat /\ b.pos \in Nat
  BY <1>1, PortionIs, Fields
<1> HIDE DEF n, f
<1>5. f.in = TRUE /\ f.out = FALSE
  BY <1>3, Fields DEF Shaped
<1>6. Window(f)
  <2>1. ASSUME NEW i \in 1 .. n PROVE f.buffer[f.curp + i] = f.bytes[f.pos - f.level + i]
    <3>1. f.curp + i = i /\ f.pos - f.level + i = b.pos + i
      BY <1>3, <1>4
    <3> QED BY <1>3, <3>1
  <2> QED BY <1>3, <2>1 DEF Window
<1>7. NulFree(f)
  BY <1>2, <1>3, <1>5 DEF NulFree
<1> QED BY <1>3, <1>5, <1>6, <1>7 DEF Seen, b, f

LEMMA ReadbufSeen ==
  ASSUME NEW s, Seen(s), NEW k \in 0 .. s.level, mode \in Modes, mode.read
  PROVE  Seen(_readbuf(s, k).s)
<1>1. Shaped(s) /\ NulFree(s)
  BY DEF Seen
<1>2. CASE s.in /\ s.level > 0
  BY <1>2, ReadbufIs
<1>3. CASE ~(s.in /\ s.level > 0) /\ FlushFails(s, k)
  BY <1>1, <1>3, ReadbufIs, FlushSeen
<1>4. CASE ~(s.in /\ s.level > 0) /\ ~FlushFails(s, k)
  <2> DEFINE f == Filled(Begun(s, k))
             ok == f.level > 0 /\ ~EndsText(f)
  <2>1. _readbuf(s, k) = [s |-> f, ok |-> ok]
    BY <1>4, ReadbufIs
  <2>2. Seen(f)
    BY <1>1, FillSeen
  <2> HIDE DEF f, ok
  <2> QED BY <2>1, <2>2
<1> QED BY <1>2, <1>3, <1>4

\* The character that is taken was the first of what is left.
LEMMA TakenSeen ==
  ASSUME NEW s, Seen(s), s.in = TRUE, s.level > 0
  PROVE  /\ Seen(Next1(s))
         /\ Current(s) = s.bytes[s.pos - s.level + 1]
         /\ ~mode.bin => Current(s) # NUL
<1>1. Shaped(s) /\ Window(s) /\ NulFree(s) /\ s.level \in Nat /\ s.curp \in Nat /\ s.pos \in Nat
      /\ s.level <= s.pos /\ s.pos <= Len(s.bytes) /\ Len(s.bytes) \in Nat
  BY Fields DEF Seen, Shaped
<1> DEFINE t == Next1(s)
<1>2. /\ Shaped(t) /\ t.in = s.in /\ ~t.out /\ t.bytes = s.bytes /\ t.pos = s.pos
      /\ t.level = s.level - 1 /\ t.curp = s.curp + 1 /\ t.buffer = s.buffer
  BY <1>1, TakenShaped
<1> HIDE DEF t
<1>3. \A i \in 1 .. s.level : s.buffer[s.curp + i] = s.bytes[s.pos - s.level + i]
  BY <1>1 DEF Window
<1>4. 1 \in 1 .. s.level /\ s.pos - s.level + 1 \in 1 .. Len(s.bytes)
  BY <1>1
<1>5. Current(s) = s.bytes[s.pos - s.level + 1]
  BY <1>3, <1>4 DEF Current
<1>6. ~mode.bin => Current(s) # NUL
  BY <1>1, <1>4, <1>5 DEF NulFree, Clean
<1>7. \A i \in 1 .. t.level : t.buffer[t.curp + i] = t.bytes[t.pos - t.level + i]
  <2>1. ASSUME NEW i \in 1 .. s.level - 1
        PROVE  s.buffer[s.curp + 1 + i] = s.bytes[s.pos - (s.level - 1) + i]
    <3>1. i + 1 \in 1 .. s.level /\ s.curp + 1 + i = s.curp + (i + 1)
          /\ s.pos - (s.level - 1) + i = s.pos - s.level + (i + 1)
      BY <1>1
    <3> QED BY <1>3, <3>1
  <2> QED BY <1>2, <2>1
<1>8. NulFree(t)
  BY <1>1, <1>2 DEF NulFree
<1>9. Seen(t)
  BY <1>2, <1>7, <1>8 DEF Seen, Window
<1> QED BY <1>5, <1>6, <1>9 DEF t

LEMMA SkipSeen ==
  ASSUME NEW s, Seen(s), NEW v \in BOOLEAN
  PROVE  Seen([s EXCEPT !.skip = v])
<1> DEFINE t == [s EXCEPT !.skip = v]
<1>1. Shaped(s) /\ Window(s) /\ NulFree(s)
  BY DEF Seen
<1>2. /\ Shaped(t) /\ t.in = s.in /\ t.out = s.out /\ t.bytes = s.bytes /\ t.pos = s.pos
      /\ t.level = s.level /\ t.curp = s.curp /\ t.buffer = s.buffer
  BY <1>1, SkipShaped
<1> HIDE DEF t
<1>3. Seen(t)
  BY <1>1, <1>2 DEF Seen, Window, NulFree
<1> QED BY <1>3 DEF t

\* In a text no NUL is met, so a character is never given up.
LEMMA GetSeen ==
  ASSUME NEW s, Seen(s), NEW k \in 0 .. s.level, mode \in Modes, mode.read
  PROVE  Seen(_basegetc(s, k).s)
<1> DEFINE first == _readbuf(s, k)
           n1 == Next1(first.s)
           past == [n1 EXCEPT !.skip = FALSE]
           skips == first.ok /\ ~mode.bin /\ Current(first.s) = LF /\ first.s.skip
           r == IF skips THEN _readbuf(past, 0) ELSE first
<1>1. Seen(first.s) /\ (first.ok => first.s.in = TRUE /\ first.s.level > 0)
  <2>1. Seen(first.s)
    BY ReadbufSeen
  <2>2. first.ok => first.s.in /\ first.s.level > 0
    BY ReadbufShaped DEF Seen
  <2>3. first.s.in \in BOOLEAN
    <3> HIDE DEF first
    <3> QED BY <2>1, Fields DEF Seen, Shaped
  <2> QED BY <2>1, <2>2, <2>3
<1>2. Seen(r.s) /\ (r.ok => r.s.in = TRUE /\ r.s.level > 0)
  <2>1. ASSUME first.ok
        PROVE  LET q == _readbuf(past, 0) IN Seen(q.s) /\ (q.ok => q.s.in = TRUE /\ q.s.level > 0)
    <3>1. Seen(past)
      <4>1. Seen(n1)
        BY <1>1, <2>1, TakenSeen
      <4> HIDE DEF n1
      <4> QED BY <4>1, SkipSeen
    <3> HIDE DEF past
    <3>2. Shaped(past) /\ 0 \in 0 .. past.level
      BY <3>1, Fields DEF Seen, Shaped
    <3> DEFINE q == _readbuf(past, 0)
    <3>3. Seen(q.s) /\ (q.ok => q.s.in /\ q.s.level > 0)
      BY <3>1, <3>2, ReadbufSeen, ReadbufShaped
    <3> HIDE DEF q
    <3>4. q.s.in \in BOOLEAN
      BY <3>3, Fields DEF Seen, Shaped
    <3> QED BY <3>3, <3>4 DEF q
  <2>2. skips => first.ok
    OBVIOUS
  <2> HIDE DEF first, past, skips
  <2> QED BY <1>1, <2>1, <2>2
<1>3. _basegetc(s, k) =
        IF ~r.ok THEN [s |-> r.s, c |-> EOF]
        ELSE IF mode.bin \/ Current(r.s) \notin {CR, NUL} THEN [s |-> Next1(r.s), c |-> Current(r.s)]
        ELSE IF Current(r.s) = CR THEN [s |-> [Next1(r.s) EXCEPT !.skip = TRUE], c |-> LF]
        ELSE [s |-> [r.s EXCEPT !.level = @ - 1], c |-> EOF]
  BY DEF _basegetc
<1> HIDE DEF r
<1>4. CASE ~r.ok
  BY <1>2, <1>3, <1>4
<1>5. CASE r.ok
  <2> DEFINE x == r.s
             n == Next1(x)
             lf == [n EXCEPT !.skip = TRUE]
             g == _basegetc(s, k)
  <2>1. Seen(x) /\ x.in = TRUE /\ x.level > 0
    BY <1>2, <1>5
  <2> HIDE DEF x
  <2>2. Seen(n) /\ (~mode.bin => Current(x) # NUL)
    BY <2>1, TakenSeen
  <2> HIDE DEF n
  <2>3. Seen(lf)
    BY <2>2, SkipSeen
  <2>4. g = [s |-> n, c |-> Current(x)] \/ g = [s |-> lf, c |-> LF]
    BY <1>3, <1>5, <2>2 DEF x, n
  <2> HIDE DEF g, lf
  <2>5. g.s = n \/ g.s = lf
    BY <2>4
  <2> QED BY <2>2, <2>3, <2>5 DEF g
<1> QED BY <1>4, <1>5

LEMMA PutSeen ==
  ASSUME NEW s, Seen(s), NEW k \in 0 .. s.level, NEW c \in Chars, mode.bin \/ c # NUL,
         mode \in Modes
  PROVE  Seen(_baseputc(s, c, k))
<1> DEFINE r == _baseputc(s, c, k)
           f == Flushed(s, k)
           w == _writebuf(s, k)
           n == w.curp + 1
<1>1. Shaped(s) /\ NulFree(s)
  BY DEF Seen
<1>2. /\ Shaped(r)
      /\ PutFails(s, k) => r.bytes = f.bytes /\ r.in = FALSE /\ r.out = FALSE
      /\ ~PutFails(s, k) => /\ r.in = FALSE /\ r.out = TRUE /\ r.bytes = w.bytes
                            /\ r.level = n /\ r.buffer = [w.buffer EXCEPT ![n] = c]
  BY <1>1, PutIs
<1>3. /\ w \in StType /\ w.level = w.curp /\ w.curp < BUFSIZ
      /\ (w.out => w = s) /\ (~w.out => w.level = 0)
      /\ w.bytes = (IF Flushes(s) THEN f.bytes ELSE s.bytes)
  BY <1>1, WritebufIs
<1>4. Seen(f) /\ (~mode.bin => Clean(f.bytes))
  BY <1>1, FlushSeen
<1> HIDE DEF r, f, w
<1>5. CASE PutFails(s, k)
  <2>1. NulFree(f)
    BY <1>4 DEF Seen
  <2> QED BY <1>2, <1>5, <2>1, SeenIdle DEF r
<1>6. CASE ~PutFails(s, k)
  <2>1. w.curp \in Nat /\ w.level \in Nat /\ w.buffer \in [1 .. BUFSIZ -> Chars] /\ w.out \in BOOLEAN
    BY <1>3, Fields
  <2>2. ASSUME ~mode.bin, NEW i \in 1 .. n PROVE r.buffer[i] # NUL
    <3>1. r.buffer = [w.buffer EXCEPT ![n] = c] /\ n \in 1 .. BUFSIZ /\ i \in 1 .. BUFSIZ
      BY <1>2, <1>3, <1>6, <2>1, Sizes
    <3>2. CASE i = n
      BY <2>1, <2>2, <3>1, <3>2
    <3>3. CASE i # n
      <4>1. i \in 1 .. w.level
        BY <1>3, <2>1, <3>3
      <4>2. w = s /\ s.out = TRUE
        BY <1>3, <2>1, <4>1
      <4>3. s.buffer[i] # NUL
        BY <1>1, <2>2, <4>1, <4>2 DEF NulFree
      <4> QED BY <2>1, <3>1, <3>3, <4>2, <4>3
    <3> QED BY <3>2, <3>3
  <2>3. ~mode.bin => Clean(r.bytes)
    BY <1>1, <1>2, <1>3, <1>4, <1>6 DEF NulFree
  <2>4. NulFree(r) /\ Window(r)
    BY <1>2, <1>6, <2>2, <2>3 DEF NulFree, Window
  <2> QED BY <1>2, <2>4 DEF Seen, r
<1> QED BY <1>5, <1>6

\* Unless a volume is full in the middle of a buffer, a flush that does not
\* fail writes all of it.
LEMMA WholeFlush ==
  ASSUME NEW s, Shaped(s), s.out, NEW k \in Taken(s), ~FlushFails(s, k), ~Cuts(s, k)
  PROVE  k = s.level
<1>1. s.level \in Nat /\ s.level > 0 /\ k # 0 /\ k \in 0 .. s.level
  BY TakenIs, Fields DEF Shaped, FlushFails, Written
<1> QED BY <1>1 DEF Cuts

\* After it the file is what the client sees, at the client's place.
LEMMA FlushedAll ==
  ASSUME NEW s, Shaped(s), NEW k \in Taken(s), ~FlushFails(s, k),
         mode \in Modes, ~Cuts(s, k)
  PROVE  /\ Flushed(s, k).bytes = All(s)
         /\ s.out => Flushed(s, k).pos = Place(s)
<1>1. k \in 0 .. s.level
  BY TakenIs DEF Shaped
<1>2. /\ Flushed(s, k).bytes = (IF s.out THEN Overlay(s.bytes, s.pos, SubSeq(s.buffer, 1, k)) ELSE s.bytes)
      /\ Flushed(s, k).pos = (IF s.out THEN s.pos + k ELSE IF s.in THEN 0 ELSE s.pos)
  BY <1>1, FlushedIs
<1>3. s.out => k = s.level /\ ~s.in
  BY WholeFlush DEF Shaped
<1> QED BY <1>2, <1>3 DEF All, Place

\* No NUL is in a text with what waits to get there.
LEMMA CleanAll ==
  ASSUME NEW s, Seen(s), ~mode.bin, mode \in Modes
  PROVE  Clean(All(s))
<1>1. Shaped(s) /\ NulFree(s)
  BY DEF Seen
<1>2. CASE s.out
  <2>1. s.level \in 0 .. s.level
    BY <1>1, Fields DEF Shaped
  <2>2. Clean(Flushed(s, s.level).bytes)
    BY <1>1, <2>1, FlushSeen
  <2>3. Flushed(s, s.level).bytes = Overlay(s.bytes, s.pos, SubSeq(s.buffer, 1, s.level))
    BY <1>1, <1>2, <2>1, FlushedIs
  <2> QED BY <1>2, <2>2, <2>3 DEF All
<1>3. CASE ~s.out
  BY <1>1, <1>3 DEF All, NulFree
<1> QED BY <1>2, <1>3

\* A character that may be pushed back is the one before the client's place.
LEMMA PushIsLast ==
  ASSUME Seen(st), mode \in Modes, MayPushBack
  PROVE  Contents[At] = All(st)[Place(st)]
<1>1. Shaped(st) /\ NulFree(st)
  BY DEF Seen
<1>2. CASE mode.bin
  BY <1>1, <1>2, PushIsChar
<1>3. CASE ~mode.bin
  <2> DEFINE b == All(st)
             p == Place(st)
  <2>1. b \in Seq(Chars) /\ p \in 1 .. Len(b)
    BY <1>1, PlaceIs, PushIsChar
  <2>2. Clean(b)
    BY <1>3, CleanAll
  <2>3. Contents = Text(b) /\ At = Len(Text(SubSeq(b, 1, p)))
    BY <1>3 DEF Contents, At, Reading
  <2>4. Contents[At] \in Letters
    BY <1>3 DEF MayPushBack
  <2> HIDE DEF b, p
  <2>5. Text(b)[At] = LF \/ Text(b)[At] = b[p]
    BY <2>1, <2>2, <2>3, LastRead
  <2>6. Text(b)[At] # LF
    BY <2>3, <2>4, Sizes
  <2>7. Contents[At] = b[p]
    BY <2>3, <2>5, <2>6
  <2> QED BY <2>7 DEF b, p
<1> QED BY <1>2, <1>3

LEMMA UngetSeen ==
  ASSUME Seen(st), mode \in Modes, Shaped(st'), MayPushBack,
         ungetc(Contents[At]), cut' = FALSE
  PROVE  Seen(st')
<1> DEFINE c == Contents[At]
<1>1. Shaped(st) /\ NulFree(st) /\ Window(st) /\ c \in Chars /\ c = All(st)[Place(st)]
  BY PushIsLast, PushIsChar DEF Seen
<1> HIDE DEF c
<1>2. \/ UngotInto(st', st, c)
      \/ /\ ~(st.in = TRUE /\ st.curp # 0)
         /\ \E k \in Taken(st) :
              \/ st' = Flushed(st, k)
              \/ ~FlushFails(st, k) /\ ~Cuts(st, k) /\ UngotBefore(st', Flushed(st, k), c)
  BY <1>1, UngetIs DEF c
<1> DEFINE t == st'
<1>3. CASE UngotInto(t, st, c)
  <2>1. /\ st.level \in Nat /\ st.curp \in Nat /\ st.pos \in Nat /\ st.out = FALSE /\ st.curp # 0
        /\ st.in = TRUE /\ st.curp <= BUFSIZ /\ st.curp \in 1 .. BUFSIZ
        /\ st.curp + st.level <= BUFSIZ /\ BUFSIZ \in Nat
        /\ st.buffer \in [1 .. BUFSIZ -> Chars]
    <3>1. st.in = TRUE /\ st.curp # 0
      BY <1>3 DEF UngotInto
    <3>2. /\ st.level \in Nat /\ st.curp \in Nat /\ st.pos \in Nat /\ st.out \in BOOLEAN
          /\ st.curp \in 0 .. BUFSIZ /\ BUFSIZ \in Nat /\ st.buffer \in [1 .. BUFSIZ -> Chars]
      BY <1>1, Fields, Sizes DEF Shaped
    <3>3. st.out = FALSE /\ st.curp + st.level <= BUFSIZ
      BY <1>1, <3>1, <3>2 DEF Shaped
    <3>4. st.curp \in 1 .. BUFSIZ /\ st.curp <= BUFSIZ
      BY <3>1, <3>2
    <3> QED BY <3>1, <3>2, <3>3, <3>4
  <2>2. /\ t.in = TRUE /\ t.out = FALSE /\ t.bytes = st.bytes /\ t.pos = st.pos
        /\ t.level = st.level + 1 /\ t.curp = st.curp - 1 /\ t.buffer = [st.buffer EXCEPT ![st.curp] = c]
    BY <1>3, <2>1 DEF UngotInto
  <2> HIDE DEF t
  <2>3. c = st.bytes[st.pos - st.level]
    BY <1>1, <2>1 DEF All, Place
  <2>4. ASSUME NEW i \in 1 .. t.level PROVE t.buffer[t.curp + i] = t.bytes[t.pos - t.level + i]
    <3>1. i \in Nat /\ i >= 1 /\ i <= st.level + 1
      BY <2>1, <2>2
    <3>2. /\ t.curp + i = st.curp + (i - 1)
          /\ t.pos - t.level + i = st.pos - st.level + (i - 1)
      <4>1. t.curp = st.curp - 1 /\ t.level = st.level + 1 /\ t.pos = st.pos
        BY <2>2
      <4>2. st.curp \in Nat /\ st.level \in Nat /\ st.pos \in Nat
        BY <2>1
      <4> QED BY <3>1, <4>1, <4>2, SMTT(60)
    <3>3. CASE i = 1
      <4>1. t.curp + i = st.curp /\ t.pos - t.level + i = st.pos - st.level
        BY <2>1, <2>2, <3>3
      <4> QED BY <2>1, <2>2, <2>3, <4>1
    <3>4. CASE i # 1
      <4>1. i - 1 \in 1 .. st.level /\ st.curp + (i - 1) \in 1 .. BUFSIZ /\ st.curp + (i - 1) # st.curp
        BY <2>1, <3>1, <3>4
      <4>2. t.buffer[st.curp + (i - 1)] = st.buffer[st.curp + (i - 1)]
        BY <2>1, <2>2, <4>1
      <4>3. st.buffer[st.curp + (i - 1)] = st.bytes[st.pos - st.level + (i - 1)]
        BY <1>1, <2>1, <4>1 DEF Window
      <4> QED BY <2>2, <3>2, <4>2, <4>3
    <3> QED BY <3>3, <3>4
  <2>5. Window(t) /\ NulFree(t)
    BY <1>1, <2>2, <2>4 DEF Window, NulFree
  <2> QED BY <2>5 DEF Seen, t
<1>4. ASSUME NEW k \in Taken(st), st' = Flushed(st, k) PROVE Seen(st')
  <2>1. k \in 0 .. st.level
    BY <1>1, TakenIs DEF Shaped
  <2> QED BY <1>1, <1>4, <2>1, FlushSeen
<1>5. ASSUME NEW k \in Taken(st), ~(st.in = TRUE /\ st.curp # 0), ~FlushFails(st, k),
             ~Cuts(st, k), UngotBefore(t, Flushed(st, k), c)
      PROVE  Seen(st')
  <2> DEFINE f == Flushed(st, k)
  <2>1. k \in 0 .. st.level
    BY <1>1, TakenIs DEF Shaped
  <2>2. /\ f.bytes = All(st)
        /\ f.pos \in Nat /\ f.pos > 0
        /\ f.pos = Place(st)
    BY <1>1, <1>5, FlushedAll, UngetPlace
  <2>3. Shaped(f) /\ NulFree(f)
    BY <1>1, <2>1, FlushSeen DEF Seen
  <2> HIDE DEF f
  <2>4. /\ t.in = TRUE /\ t.out = FALSE /\ t.bytes = f.bytes /\ t.pos = f.pos
        /\ t.level = 1 /\ t.curp = BUFSIZ - 1 /\ t.buffer = [f.buffer EXCEPT ![BUFSIZ] = c]
    BY <1>5 DEF UngotBefore, f
  <2> HIDE DEF t
  <2>5. f.buffer \in [1 .. BUFSIZ -> Chars] /\ BUFSIZ \in 1 .. BUFSIZ /\ BUFSIZ \in Nat
    BY <2>3, Fields, Sizes DEF Shaped
  <2>6. ASSUME NEW i \in 1 .. t.level PROVE t.buffer[t.curp + i] = t.bytes[t.pos - t.level + i]
    <3>1. i = 1
      BY <2>4
    <3>2. t.curp + i = BUFSIZ /\ t.pos - t.level + i = f.pos
      BY <2>2, <2>4, <2>5, <3>1
    <3>3. t.buffer[BUFSIZ] = c /\ t.bytes[f.pos] = c
      BY <1>1, <2>2, <2>4, <2>5
    <3> QED BY <3>2, <3>3
  <2>7. Window(t) /\ NulFree(t)
    BY <2>3, <2>4, <2>6 DEF Window, NulFree
  <2> QED BY <2>7 DEF Seen, t
<1> QED BY <1>2, <1>3, <1>4, <1>5

-----------------------------------------------------------------------------
(* The steps of the window *)

LEMMA RefuseSeen ==
  ASSUME NEW s, Seen(s), NEW v \in BOOLEAN
  PROVE  Seen([s EXCEPT !.err = v])
<1> DEFINE r == SetErr(s, v)
<1>1. s \in StType /\ r = [s EXCEPT !.err = v] /\ Shaped(s)
  BY DEF Seen, Shaped, SetErr
<1>2. r \in StType /\ r.bytes = s.bytes /\ r.pos = s.pos
  BY <1>1, SetErrIs
<1>3. r.in = s.in /\ r.out = s.out /\ r.level = s.level /\ r.curp = s.curp /\ r.buffer = s.buffer
  BY <1>1, SetErrIs
<1>4. Shaped([s EXCEPT !.err = v])
  BY <1>1, Refuses
<1>5. Shaped(r)
  BY <1>1, <1>4
<1> HIDE DEF r
<1>6. Seen(r)
  BY <1>2, <1>3, <1>5 DEF Seen, Window, NulFree
<1> QED BY <1>1, <1>6

LEMMA SeekSeen ==
  ASSUME NEW s, Seen(s), s.in = FALSE, s.out = FALSE, NEW p, p \in 0 .. Len(s.bytes),
         NEW v, v \in BOOLEAN
  PROVE  Seen([s EXCEPT !.pos = p, !.err = v])
<1> DEFINE r == SetPosErr(s, p, v)
<1>1. /\ s \in StType /\ p \in Nat /\ Len(s.bytes) \in Nat /\ r = [s EXCEPT !.pos = p, !.err = v]
      /\ NulFree(s) /\ Shaped(s)
  BY Fields DEF Seen, Shaped, SetPosErr
<1>2. Shaped(r)
  <2>1. Shaped([s EXCEPT !.pos = p, !.err = v])
    BY <1>1, SeekShaped
  <2> QED BY <1>1, <2>1
<1>3. r.in = s.in /\ r.out = s.out /\ r.bytes = s.bytes
  BY <1>1, SetPosErrIs
<1> HIDE DEF r
<1>4. Seen(r)
  BY <1>1, <1>2, <1>3, SeenIdle
<1> QED BY <1>1, <1>4

LEMMA LineSeen ==
  ASSUME BufferInv, Seen(st), fputc_lf
  PROVE  Seen(st')
<1>1. mode \in Modes
  BY DEF BufferInv
<1>2. LF \in Chars /\ CR \in Chars /\ LF # NUL /\ CR # NUL
  BY Sizes DEF CR, LF, NUL
<1>3. PICK k1 \in Taken(st) : LineFrom(k1)
  BY DEF fputc_lf, LineFrom
<1> DEFINE s1 == _baseputc(st, CR, k1)
<1>4. Seen(s1)
  <2>1. k1 \in 0 .. st.level
    BY TakenIs DEF Seen, Shaped
  <2> QED BY <1>1, <1>2, <2>1, PutSeen
<1>5. CASE PutFails(st, k1)
  BY <1>3, <1>4, <1>5 DEF LineFrom
<1>6. CASE ~PutFails(st, k1)
  <2>1. PICK k2 \in Taken(s1) :
          LET s2 == _baseputc(s1, LF, k2)
              c2 == PutCuts(st, k1) \/ PutCuts(s1, k2)
          IN IF PutFails(s1, k2) THEN st' = s2 /\ Returns(EOF) /\ CutWhen(c2)
             ELSE \E k3 \in Taken(s2) :
                    st' = LineEnd(s2, k3) /\ Returns(LF) /\ CutWhen(c2 \/ Cuts(s2, k3))
    BY <1>3, <1>6 DEF LineFrom
  <2> HIDE DEF s1
  <2> DEFINE s2 == _baseputc(s1, LF, k2)
  <2>2. Seen(s2)
    <3>1. k2 \in 0 .. s1.level
      BY <1>4, TakenIs DEF Seen, Shaped
    <3> QED BY <1>1, <1>2, <1>4, <3>1, PutSeen
  <2>3. CASE PutFails(s1, k2)
    BY <2>1, <2>2, <2>3
  <2>4. CASE ~PutFails(s1, k2)
    <3>1. PICK k3 \in Taken(s2) : st' = Flushed(s2, k3)
      BY <2>1, <2>4 DEF LineEnd
    <3> HIDE DEF s2
    <3>2. Shaped(s2) /\ NulFree(s2) /\ k3 \in 0 .. s2.level
      BY <2>2, TakenIs DEF Seen, Shaped
    <3> QED BY <1>1, <3>1, <3>2, FlushSeen
  <2> QED BY <2>3, <2>4
<1> QED BY <1>5, <1>6

LEMMA SeekSeenStep ==
  ASSUME BufferInv, Seen(st), NEW offset, NEW origin, fseek(offset, origin)
  PROVE  Seen(st')
<1>1. mode \in Modes /\ Shaped(st) /\ NulFree(st)
  BY DEF BufferInv, Seen
<1>2. PICK k \in Taken(st), e \in {0, EOF}, to \in Nat :
        LET s == Flushed(st, k) IN
        IF FlushFails(st, k) THEN st' = s /\ Returns(EOF)
        ELSE /\ to \in 0 .. Len(s.bytes)
             /\ st' = [s EXCEPT !.pos = to, !.err = @ \/ e = EOF]
             /\ Returns(e)
  BY RangeInNat DEF fseek
<1> DEFINE s == Flushed(st, k)
<1>3. Seen(s) /\ s.in = FALSE /\ s.out = FALSE
  <2>1. k \in 0 .. st.level
    BY <1>1, TakenIs DEF Shaped
  <2> QED BY <1>1, <2>1, FlushSeen
<1>4. CASE FlushFails(st, k)
  BY <1>2, <1>3, <1>4
<1>5. CASE ~FlushFails(st, k)
  <2> DEFINE v == s.err \/ e = EOF
  <2>1. to \in 0 .. Len(s.bytes) /\ st' = [s EXCEPT !.pos = to, !.err = v]
    BY <1>2, <1>5
  <2>2. v \in BOOLEAN
    OBVIOUS
  <2> HIDE DEF s, v
  <2> QED BY <1>3, <2>1, <2>2, SeekSeen
<1> QED BY <1>4, <1>5

LEMMA OpenSeen ==
  ASSUME BufferInv, Seen(st), fopen, BufferInv'
  PROVE  Seen(st)'
<1>1. /\ Shaped(st) /\ NulFree(st) /\ mode'.bin = mode.bin
      /\ st' = [st EXCEPT !.pos = 0, !.in = FALSE, !.out = FALSE, !.skip = FALSE, !.err = FALSE,
                          !.level = 0, !.curp = 0]
  BY DEF Seen, fopen
<1>2. st = [bytes |-> st.bytes, pos |-> st.pos, in |-> st.in, out |-> st.out, skip |-> st.skip,
            err |-> st.err, level |-> st.level, curp |-> st.curp, buffer |-> st.buffer]
  BY <1>1, Fields DEF Shaped
<1>3. st' = [bytes |-> st.bytes, pos |-> 0, in |-> FALSE, out |-> FALSE, skip |-> FALSE,
             err |-> FALSE, level |-> 0, curp |-> 0, buffer |-> st.buffer]
  BY <1>1, <1>2
<1>4. st'.in = FALSE /\ st'.out = FALSE /\ st'.bytes = st.bytes
  BY <1>3
<1>5. Window(st)'
  BY <1>4 DEF Window
<1>6. NulFree(st)'
  BY <1>1, <1>4 DEF NulFree, Clean, NUL
<1> QED BY <1>5, <1>6 DEF Seen, BufferInv

LEMMA SeenSteps ==
  ASSUME BufferInv, Seen(st), [Next]_vars, cut' = FALSE
  PROVE  BufferInv' /\ Seen(st)'
<1>1. /\ mode \in Modes /\ Shaped(st) /\ NulFree(st) /\ mode.read \in BOOLEAN
      /\ BufferInv'
  BY Steps DEF BufferInv, Seen, Modes
<1>2. ASSUME mode' = mode, Seen(st') PROVE Seen(st)'
  BY <1>2 DEF Seen, Shaped, Window, NulFree
<1>3. ASSUME mode' = mode PROVE Shaped(st')
  BY <1>1, <1>3 DEF BufferInv, Shaped
<1>4. CASE fopen
  BY <1>1, <1>4, OpenSeen
<1>5. CASE fclose
  <2>1. mode' = mode
    BY <1>5 DEF fclose, Call
  <2>2. PICK k \in Taken(st) : st' = (IF st.out THEN Flushed(st, k) ELSE st)
    BY <1>5 DEF fclose
  <2>3. k \in 0 .. st.level
    BY <1>1, TakenIs DEF Shaped
  <2> QED BY <1>1, <1>2, <2>1, <2>2, <2>3, FlushSeen
<1>6. CASE fgetc
  <2>1. mode' = mode
    BY <1>6 DEF fgetc, Call
  <2>2. CASE ~mode.read
    <3>1. st' = [st EXCEPT !.err = TRUE]
      BY <1>6, <2>2 DEF fgetc, Refused
    <3>2. Seen(st')
      BY <3>1, RefuseSeen
    <3> QED BY <1>1, <1>2, <2>1, <3>2
  <2>3. CASE mode.read
    <3>1. PICK k \in Taken(st) : st' = _basegetc(st, k).s
      BY <1>6, <2>3 DEF fgetc
    <3>2. k \in 0 .. st.level
      BY <1>1, TakenIs DEF Shaped
    <3> QED BY <1>1, <1>2, <2>1, <2>3, <3>1, <3>2, GetSeen
  <2> QED BY <2>2, <2>3
<1>7. ASSUME NEW c \in Letters \cup {LF}, fputc(c) PROVE Seen(st)'
  <2>1. mode' = mode
    BY <1>7 DEF fputc, Call
  <2>2. PICK k \in Taken(st) : st' = _baseputc(st, c, k)
    BY <1>7 DEF fputc
  <2>3. k \in 0 .. st.level /\ c \in Chars /\ c # NUL
    BY <1>1, TakenIs, Sizes DEF Shaped, LF, NUL
  <2> QED BY <1>1, <1>2, <2>1, <2>2, <2>3, PutSeen
<1>8. CASE fputc_lf
  <2>1. mode' = mode
    BY <1>8 DEF fputc_lf, Call
  <2>2. Seen(st')
    BY <1>8, LineSeen
  <2> QED BY <1>1, <1>2, <2>1, <2>2
<1>9. CASE fputc_refused \/ clearerr
  <2>1. mode' = mode
    BY <1>9 DEF fputc_refused, clearerr, Call
  <2>2. st' = [st EXCEPT !.err = TRUE] \/ st' = [st EXCEPT !.err = FALSE]
    BY <1>9 DEF fputc_refused, clearerr, Refused
  <2>3. Seen(st')
    BY <2>2, RefuseSeen
  <2> QED BY <1>1, <1>2, <2>1, <2>3
<1>10. CASE fflush
  <2>1. mode' = mode
    BY <1>10 DEF fflush, Call
  <2>2. PICK k \in Taken(st) : st' = Flushed(st, k)
    BY <1>10 DEF fflush
  <2>3. k \in 0 .. st.level
    BY <1>1, TakenIs DEF Shaped
  <2> QED BY <1>1, <1>2, <2>1, <2>2, <2>3, FlushSeen
<1>11. ASSUME NEW offset, NEW origin, fseek(offset, origin) PROVE Seen(st)'
  <2>1. mode' = mode
    BY <1>11 DEF fseek, Call
  <2> QED BY <1>2, <1>11, <2>1, SeekSeenStep
<1>12. CASE fgetpos \/ UNCHANGED vars
  <2>1. mode' = mode /\ st' = st
    BY <1>12 DEF fgetpos, Call, vars
  <2>2. Seen(st')
    BY <2>1
  <2> QED BY <1>1, <1>2, <2>1, <2>2
<1>13. CASE MayPushBack /\ ungetc(Contents[At])
  <2>1. mode' = mode
    BY <1>13 DEF ungetc, Call
  <2> QED BY <1>1, <1>2, <1>3, <1>13, <2>1, UngetSeen
<1> QED BY <1>1, <1>4, <1>5, <1>6, <1>7, <1>8, <1>9, <1>10, <1>11, <1>12, <1>13, Zenon DEF Next

SeenInv == BufferInv /\ cut \in BOOLEAN /\ (cut = FALSE => Seen(st))

\* For texts in which there is no NUL, what was read ahead is the piece of the
\* file before the handle's position, whatever was put, pushed back and sought
\* before, until a flush is cut short.
THEOREM WhatIsReadIsTheFile ==
  ASSUME \A b \in TextFiles : Clean(b)
  PROVE  Spec => []BufferIsWindow
<1>1. Init => SeenInv
  <2> SUFFICES ASSUME Init PROVE SeenInv
    OBVIOUS
  <2>1. BufferInv
    BY Starts
  <2>2. PICK b \in IF ~mode.read THEN {<< >>} ELSE IF mode.bin THEN BinFiles ELSE TextFiles :
          st.bytes = b /\ st.in = FALSE /\ st.out = FALSE
    BY DEF Init
  <2>3. ~mode.bin => Clean(st.bytes)
    BY <2>2 DEF Clean
  <2>4. Window(st) /\ NulFree(st)
    BY <2>2, <2>3 DEF Window, NulFree
  <2>5. cut = FALSE
    BY DEF Init
  <2> QED BY <2>1, <2>4, <2>5 DEF Seen, SeenInv, BufferInv
<1>2. SeenInv /\ [Next]_vars => SeenInv'
  <2> SUFFICES ASSUME SeenInv, [Next]_vars PROVE SeenInv'
    OBVIOUS
  <2>1. BufferInv' /\ cut' \in BOOLEAN /\ (cut' = FALSE => cut = FALSE)
    BY Steps, CutKept DEF SeenInv
  <2>2. cut' = FALSE => Seen(st)'
    BY <2>1, SeenSteps DEF SeenInv
  <2> QED BY <2>1, <2>2 DEF SeenInv
<1>3. SeenInv => BufferIsWindow
  BY Fields DEF SeenInv, Seen, BufferInv, Shaped, Window, BufferIsWindow
<1> QED BY <1>1, <1>2, <1>3, PTL DEF Spec

-----------------------------------------------------------------------------
(* A binary stream is a ByteStream.  Its contents are the file with what    *)
(* waits in the buffer, so the steps to look at are those that change one   *)
(* of the two.                                                              *)

\* Nothing written changes nothing.
LEMMA OverlayNone ==
  ASSUME NEW s \in Seq(Chars), NEW b \in [1 .. BUFSIZ -> Chars], NEW p \in Nat, p <= Len(s)
  PROVE  Overlay(s, p, SubSeq(b, 1, 0)) = s
<1> DEFINE c == SubSeq(b, 1, 0)
           o == Overlay(s, p, c)
<1>1. c \in Seq(Chars) /\ Len(c) = 0
  BY BufferPart, Sizes
<1> HIDE DEF c
<1>2. Len(s) \in Nat
  BY LenProperties
<1>3. /\ o \in Seq(Chars)
      /\ Len(o) = IF p + Len(c) > Len(s) THEN p + Len(c) ELSE Len(s)
      /\ \A i \in 1 .. Len(o) : o[i] = IF i \in p + 1 .. p + Len(c) THEN c[i - p] ELSE s[i]
  BY <1>1, OverlayIs, ZenonT(60)
<1> HIDE DEF o
<1>4. Len(o) = Len(s) /\ \A i \in 1 .. Len(o) : o[i] = s[i]
  <2>1. Len(o) = Len(s)
    BY <1>1, <1>2, <1>3
  <2>2. ASSUME NEW i \in 1 .. Len(o) PROVE i \notin p + 1 .. p + Len(c)
    BY <1>1, <1>2
  <2> QED BY <1>3, <2>1, <2>2
<1>5. o = s
  BY <1>3, <1>4, SeqEqual
<1> QED BY <1>5 DEF o, c

\* A character more in the buffer is a character more in the file, when both
\* are written.
LEMMA OverlayMore ==
  ASSUME NEW s \in Seq(Chars), NEW b \in [1 .. BUFSIZ -> Chars], NEW p \in Nat, p <= Len(s),
         NEW n \in Nat, n < BUFSIZ, NEW c \in Chars
  PROVE  Overlay(s, p, SubSeq([b EXCEPT ![n + 1] = c], 1, n + 1))
           = Overlay(Overlay(s, p, SubSeq(b, 1, n)), p + n, <<c>>)
<1> DEFINE e == [b EXCEPT ![n + 1] = c]
           x == SubSeq(b, 1, n)
           y == SubSeq(e, 1, n + 1)
           o == Overlay(s, p, x)
           u == Overlay(s, p, y)
           v == Overlay(o, p + n, <<c>>)
<1>1. n + 1 \in 1 .. BUFSIZ /\ n + 1 \in 0 .. BUFSIZ /\ n \in 0 .. BUFSIZ /\ Len(s) \in Nat
  BY Sizes, LenProperties
<1>2. e \in [1 .. BUFSIZ -> Chars]
  OBVIOUS
<1>3. \A i \in 1 .. n + 1 : e[i] = IF i = n + 1 THEN c ELSE b[i]
  BY <1>1, Sizes
<1> HIDE DEF e
<1>4. x \in Seq(Chars) /\ Len(x) = n /\ \A i \in 1 .. n : x[i] = b[i]
  BY <1>1, BufferPart
<1>5. y \in Seq(Chars) /\ Len(y) = n + 1 /\ \A i \in 1 .. n + 1 : y[i] = e[i]
  BY <1>1, <1>2, BufferPart
<1> HIDE DEF x, y
<1>6. /\ o \in Seq(Chars) /\ Len(o) \in Nat
      /\ Len(o) = IF p + Len(x) > Len(s) THEN p + Len(x) ELSE Len(s)
      /\ \A i \in 1 .. Len(o) : o[i] = IF i \in p + 1 .. p + Len(x) THEN x[i - p] ELSE s[i]
  BY <1>4, OverlayIs
<1>7. /\ u \in Seq(Chars) /\ Len(u) \in Nat
      /\ Len(u) = IF p + Len(y) > Len(s) THEN p + Len(y) ELSE Len(s)
      /\ \A i \in 1 .. Len(u) : u[i] = IF i \in p + 1 .. p + Len(y) THEN y[i - p] ELSE s[i]
  BY <1>5, OverlayIs
<1> HIDE DEF o
<1>8. <<c>> \in Seq(Chars) /\ Len(<<c>>) = 1 /\ <<c>>[1] = c
  OBVIOUS
<1> DEFINE z == <<c>>
<1> HIDE DEF z
<1>9. p + n \in Nat /\ p + n <= Len(o)
  BY <1>1, <1>4, <1>6
<1>10. /\ v \in Seq(Chars) /\ Len(v) \in Nat
       /\ Len(v) = IF p + n + Len(z) > Len(o) THEN p + n + Len(z) ELSE Len(o)
       /\ \A i \in 1 .. Len(v) : v[i] = IF i \in p + n + 1 .. p + n + Len(z) THEN z[i - (p + n)] ELSE o[i]
  BY <1>6, <1>8, <1>9, OverlayIs, ZenonT(60) DEF z
<1>11. Len(z) = 1 /\ z[1] = c
  BY <1>8 DEF z
<1> HIDE DEF u, v
<1>12. Len(u) = Len(v)
  BY <1>1, <1>4, <1>5, <1>6, <1>7, <1>10, <1>11
<1>13. ASSUME NEW i \in 1 .. Len(u) PROVE u[i] = v[i]
  <2>1. CASE i = p + n + 1
    <3>1. i - p = n + 1 /\ i - (p + n) = 1 /\ i \in p + 1 .. p + Len(y) /\ i \in p + n + 1 .. p + n + Len(z)
      BY <1>1, <1>5, <1>11, <2>1
    <3>2. u[i] = y[n + 1]
      BY <1>7, <3>1
    <3>3. v[i] = z[1]
      BY <1>10, <1>12, <3>1
    <3>4. y[n + 1] = c
      <4>1. n + 1 \in 1 .. n + 1
        OBVIOUS
      <4> QED BY <1>3, <1>5, <4>1
    <3> QED BY <1>11, <3>2, <3>3, <3>4
  <2>2. CASE i \in p + 1 .. p + n
    <3>1. /\ i - p \in 1 .. n /\ i - p \in 1 .. n + 1 /\ i - p # n + 1
          /\ i \in p + 1 .. p + Len(y) /\ i \in p + 1 .. p + Len(x)
          /\ i \notin p + n + 1 .. p + n + Len(z) /\ i \in 1 .. Len(o)
      BY <1>1, <1>4, <1>5, <1>6, <1>9, <1>11, <2>2
    <3>2. u[i] = y[i - p] /\ y[i - p] = b[i - p]
      BY <1>3, <1>5, <1>7, <3>1
    <3>3. v[i] = o[i] /\ o[i] = x[i - p] /\ x[i - p] = b[i - p]
      BY <1>4, <1>6, <1>10, <1>12, <3>1
    <3> QED BY <3>2, <3>3
  <2>3. CASE i \notin p + 1 .. p + n + 1
    <3>1. /\ i \notin p + 1 .. p + Len(y) /\ i \notin p + 1 .. p + Len(x)
          /\ i \notin p + n + 1 .. p + n + Len(z) /\ i \in 1 .. Len(o)
      BY <1>1, <1>4, <1>5, <1>6, <1>7, <1>11, <2>3
    <3> QED BY <1>6, <1>7, <1>10, <1>12, <3>1
  <2>4. i = p + n + 1 \/ i \in p + 1 .. p + n \/ i \notin p + 1 .. p + n + 1
    <3>1. i \in Int /\ p \in Int /\ n \in Int
      BY <1>7
    <3> QED BY <3>1
  <2> QED BY <2>1, <2>2, <2>3, <2>4, Zenon
<1>14. u = v
  BY <1>7, <1>10, <1>12, <1>13, SeqEqual
<1> QED BY <1>14 DEF u, v, o, x, y, e, z

\* What is in the file when only k of the characters got there.
LEMMA PartWritten ==
  ASSUME NEW s \in Seq(Chars), NEW b \in [1 .. BUFSIZ -> Chars], NEW p \in Nat, p <= Len(s),
         NEW n \in 0 .. BUFSIZ, NEW k \in 0 .. n
  PROVE  LET m == Overlay(s, p, SubSeq(b, 1, k)) IN
         /\ B!PartWay(m, s, Overlay(s, p, SubSeq(b, 1, n)))
         /\ p + k \in 0 .. Len(m)
<1> DEFINE x == SubSeq(b, 1, k)
           y == SubSeq(b, 1, n)
           m == Overlay(s, p, x)
           w == Overlay(s, p, y)
<1>1. k \in 0 .. BUFSIZ /\ Len(s) \in Nat /\ n \in Nat /\ k \in Nat /\ k <= n
  BY Sizes, LenProperties
<1>2. x \in Seq(Chars) /\ Len(x) = k /\ \A i \in 1 .. k : x[i] = b[i]
  BY <1>1, BufferPart
<1>3. y \in Seq(Chars) /\ Len(y) = n /\ \A i \in 1 .. n : y[i] = b[i]
  BY BufferPart
<1> HIDE DEF x, y
<1>4. /\ Len(m) \in Nat
      /\ Len(m) = IF p + Len(x) > Len(s) THEN p + Len(x) ELSE Len(s)
      /\ \A i \in 1 .. Len(m) : m[i] = IF i \in p + 1 .. p + Len(x) THEN x[i - p] ELSE s[i]
  BY <1>2, OverlayIs
<1>5. /\ Len(w) \in Nat
      /\ Len(w) = IF p + Len(y) > Len(s) THEN p + Len(y) ELSE Len(s)
      /\ \A i \in 1 .. Len(w) : w[i] = IF i \in p + 1 .. p + Len(y) THEN y[i - p] ELSE s[i]
  BY <1>3, OverlayIs
<1> HIDE DEF m, w
<1>6. Len(m) \in Len(s) .. Len(w) /\ p + k \in 0 .. Len(m)
  BY <1>1, <1>2, <1>3, <1>4, <1>5
<1>7. ASSUME NEW i \in 1 .. Len(m) PROVE m[i] = w[i] \/ (i <= Len(s) /\ m[i] = s[i])
  <2>1. CASE i \in p + 1 .. p + k
    <3>1. i - p \in 1 .. k /\ i - p \in 1 .. n /\ i \in p + 1 .. p + n /\ i \in 1 .. Len(w)
      BY <1>1, <1>3, <1>5, <1>6, <2>1
    <3> QED BY <1>2, <1>3, <1>4, <1>5, <2>1, <3>1
  <2>2. CASE i \notin p + 1 .. p + k
    <3>1. i <= Len(s)
      BY <1>1, <1>2, <1>4, <2>2
    <3> QED BY <1>2, <1>4, <2>2, <3>1
  <2> QED BY <2>1, <2>2
<1>8. B!PartWay(m, s, w)
  BY <1>6, <1>7 DEF B!PartWay
<1> QED BY <1>6, <1>8 DEF m, w, x, y

-----------------------------------------------------------------------------
(* The steps of a binary stream *)

LEMMA ViewLength ==
  ASSUME NEW s, Shaped(s)
  PROVE  Len(SubSeq(All(s), 1, Place(s))) = Place(s)
<1>1. All(s) \in Seq(Chars) /\ Place(s) <= Len(All(s)) /\ Len(All(s)) \in Nat /\ Place(s) \in Nat
  BY PlaceIs
<1>2. \A i \in 1 .. Place(s) : All(s)[i] \in Chars
  BY <1>1, ElementOfSeq
<1>3. Len(SubSeq(All(s), 1, Place(s))) = IF 1 <= Place(s) THEN Place(s) - 1 + 1 ELSE 0
  BY <1>1, <1>2, SubSeqProperties
<1> QED BY <1>1, <1>3

\* What a client sees of a binary stream, before a step and after it.
LEMMA View ==
  ASSUME Shaped(st), mode.bin
  PROVE  Contents = All(st) /\ Reading(st.bytes) = st.bytes /\ At = Place(st)
BY ViewLength DEF Contents, Reading, At

LEMMA ViewNext ==
  ASSUME Shaped(st'), mode'.bin
  PROVE  Contents' = All(st') /\ Reading(st.bytes)' = st'.bytes /\ At' = Place(st')
<1>1. Len(SubSeq(All(st'), 1, Place(st'))) = Place(st')
  BY ViewLength
<1>2. All(st)' = All(st') /\ Place(st)' = Place(st')
  BY DEF All, Place, Overlay
<1>3. At' = Len(SubSeq(All(st)', 1, Place(st)'))
  BY DEF At, Reading
<1>4. Contents' = All(st)' /\ Reading(st.bytes)' = st'.bytes
  BY DEF Contents, Reading
<1> QED BY <1>1, <1>2, <1>3, <1>4

Idle(s) == s.in = FALSE /\ s.out = FALSE

LEMMA IdleView ==
  ASSUME NEW s, Idle(s)
  PROVE  All(s) = s.bytes /\ Place(s) = s.pos
BY DEF Idle, All, Place

\* A flush that failed left a part of what was put.
LEMMA LoseStep ==
  ASSUME Shaped(st), Shaped(st'), mode.bin, mode'.bin, mode \in Modes,
         NEW k \in 0 .. st.level, st.out,
         st'.bytes = Flushed(st, k).bytes, st'.pos = Flushed(st, k).pos, Idle(st'), st'.err = TRUE,
         ret' \in Chars \cup {0, EOF}
  PROVE  B!Step
<1>1. /\ st.bytes \in Seq(Chars) /\ st.pos \in Nat /\ st.pos <= Len(st.bytes)
      /\ st.buffer \in [1 .. BUFSIZ -> Chars] /\ st.level \in 0 .. BUFSIZ
  BY Fields DEF Shaped
<1>2. /\ st'.bytes = Overlay(st.bytes, st.pos, SubSeq(st.buffer, 1, k))
      /\ st'.pos = st.pos + k
  BY FlushedIs, ZenonT(60)
<1>3. All(st) = Overlay(st.bytes, st.pos, SubSeq(st.buffer, 1, st.level))
  BY DEF All
<1>4. /\ B!PartWay(st'.bytes, st.bytes, All(st))
      /\ st'.pos \in 0 .. Len(st'.bytes)
  BY <1>1, <1>2, <1>3, PartWritten
<1>5. Contents = All(st) /\ Reading(st.bytes) = st.bytes
  BY View
<1>6. Contents' = st'.bytes /\ Reading(st.bytes)' = st'.bytes /\ At' = st'.pos
  BY ViewNext, IdleView
<1>7. B!PartWay(Contents', Reading(st.bytes), Contents) /\ At' \in 0 .. Len(Contents')
  BY <1>4, <1>5, <1>6
<1>8. Reading(st.bytes)' = Contents' /\ st.err' = TRUE
  BY <1>6
<1>9. B!Lose
  BY <1>7, <1>8 DEF B!Lose
<1> QED BY <1>9 DEF B!Step

\* Whatever reaches the file or stays in the buffer, the client sees the same.
Same == All(st') = All(st) /\ st'.err = st.err

Reached == st'.bytes = st.bytes \/ st'.bytes = All(st)

LEMMA RefuseStep ==
  ASSUME Shaped(st), mode.bin, mode'.bin, st' = [st EXCEPT !.err = TRUE], ret' = EOF
  PROVE  B!Step
<1> DEFINE v == TRUE
           r == SetErr(st, v)
<1>1. st \in StType /\ st' = r /\ v \in BOOLEAN /\ Shaped(st')
  BY Refuses DEF Shaped, SetErr
<1> HIDE DEF v
<1>2. /\ r.bytes = st.bytes /\ r.pos = st.pos /\ r.in = st.in /\ r.out = st.out
      /\ r.err = v /\ r.level = st.level /\ r.buffer = st.buffer
  BY <1>1, SetErrIs
<1> HIDE DEF r
<1>3. All(st') = All(st) /\ Place(st') = Place(st) /\ st'.bytes = st.bytes /\ st'.err = TRUE
  BY <1>1, <1>2 DEF All, Place, v
<1>4. Contents' = Contents /\ Reading(st.bytes)' = Reading(st.bytes) /\ At' = At
  BY <1>1, <1>3, View, ViewNext
<1>5. B!Refuse
  BY <1>3, <1>4 DEF B!Refuse
<1> QED BY <1>5 DEF B!Step

LEMMA ClearStep ==
  ASSUME Shaped(st), mode.bin, mode'.bin, st' = [st EXCEPT !.err = FALSE], ret' = 0
  PROVE  B!Step
<1> DEFINE v == FALSE
           r == SetErr(st, v)
<1>1. st \in StType /\ st' = r /\ v \in BOOLEAN /\ Shaped(st')
  BY Refuses DEF Shaped, SetErr
<1> HIDE DEF v
<1>2. /\ r.bytes = st.bytes /\ r.pos = st.pos /\ r.in = st.in /\ r.out = st.out
      /\ r.err = v /\ r.level = st.level /\ r.buffer = st.buffer
  BY <1>1, SetErrIs
<1> HIDE DEF r
<1>3. All(st') = All(st) /\ Place(st') = Place(st) /\ st'.bytes = st.bytes /\ st'.err = FALSE
  BY <1>1, <1>2 DEF All, Place, v
<1>4. Contents' = Contents /\ Reading(st.bytes)' = Reading(st.bytes) /\ At' = At
  BY <1>1, <1>3, View, ViewNext
<1>5. B!Clear
  BY <1>3, <1>4 DEF B!Clear
<1> QED BY <1>5 DEF B!Step

\* A character was taken, or there was none.
LEMMA GotStep ==
  ASSUME Shaped(st), Shaped(st'), mode.bin, mode'.bin, Same, Reached,
         \/ /\ Place(st) < Len(All(st)) /\ Place(st') = Place(st) + 1
            /\ ret' = All(st)[Place(st) + 1]
         \/ Place(st) = Len(All(st)) /\ Place(st') = Place(st) /\ ret' = EOF
  PROVE  B!Step
<1>1. /\ Contents = All(st) /\ Reading(st.bytes) = st.bytes /\ At = Place(st)
      /\ Contents' = All(st') /\ Reading(st.bytes)' = st'.bytes /\ At' = Place(st')
  BY View, ViewNext
<1>2. Place(st) \in Nat /\ Len(All(st)) \in Nat
  BY PlaceIs
<1>3. B!Get
  BY <1>1, <1>2 DEF B!Get, Same, Reached
<1> QED BY <1>3 DEF B!Step

LEMMA PuttingStep ==
  ASSUME Shaped(st), Shaped(st'), mode.bin, mode'.bin, Reached, NEW c \in Chars,
         All(st') = Overlay(All(st), Place(st), <<c>>), Place(st') = Place(st) + 1,
         st'.err = st.err, ret' = c
  PROVE  B!Step
<1>1. /\ Contents = All(st) /\ Reading(st.bytes) = st.bytes /\ At = Place(st)
      /\ Contents' = All(st') /\ Reading(st.bytes)' = st'.bytes /\ At' = Place(st')
  BY View, ViewNext
<1>2. B!Overlay(All(st), Place(st), <<c>>) = Overlay(All(st), Place(st), <<c>>)
  BY DEF B!Overlay, Overlay
<1>3. B!Put(c)
  BY <1>1, <1>2 DEF B!Put, Reached
<1> QED BY <1>3 DEF B!Step

LEMMA UngottenStep ==
  ASSUME Shaped(st), Shaped(st'), mode.bin, mode'.bin, Same, Reached,
         At > 0, Place(st') = Place(st) - 1, ret' = Contents[At]
  PROVE  B!Step
<1>1. /\ Contents = All(st) /\ Reading(st.bytes) = st.bytes /\ At = Place(st)
      /\ Contents' = All(st') /\ Reading(st.bytes)' = st'.bytes /\ At' = Place(st')
  BY View, ViewNext
<1>2. B!Unget
  BY <1>1 DEF B!Unget, Same, Reached
<1> QED BY <1>2 DEF B!Step

\* A flush that does not fail puts all of it into the file.
LEMMA FlushedRight ==
  ASSUME NEW s, Shaped(s), mode \in Modes, NEW k \in Taken(s),
         ~FlushFails(s, k), ~s.in, ~Cuts(s, k)
  PROVE  LET f == Flushed(s, k) IN
         Shaped(f) /\ Idle(f) /\ f.bytes = All(s) /\ f.pos = Place(s) /\ f.err = s.err
<1>1. k \in 0 .. s.level /\ s.err \in BOOLEAN
  BY TakenIs, Fields DEF Shaped
<1> DEFINE f == Flushed(s, k)
<1>2. /\ Shaped(f) /\ f.in = FALSE /\ f.out = FALSE
      /\ f.pos = (IF s.out THEN s.pos + k ELSE IF s.in THEN 0 ELSE s.pos)
      /\ f.err = (s.err \/ FlushFails(s, k))
  BY <1>1, FlushedIs
<1>3. f.bytes = All(s) /\ (s.out => f.pos = Place(s))
  BY FlushedAll
<1> HIDE DEF f
<1>4. f.pos = Place(s)
  BY <1>2, <1>3 DEF Place
<1>5. f.err = s.err
  BY <1>1, <1>2
<1> QED BY <1>2, <1>3, <1>4, <1>5 DEF Idle, f

\* One that fails was one of characters that were put.
LEMMA FlushLost ==
  ASSUME Shaped(st), Shaped(st'), mode.bin, mode'.bin, mode \in Modes,
         NEW k \in Taken(st), FlushFails(st, k), st' = Flushed(st, k), ret' \in Chars \cup {0, EOF}
  PROVE  B!Step
<1>1. k \in 0 .. st.level /\ st.out
  BY TakenIs DEF Shaped, FlushFails
<1>2. Idle(st') /\ st'.err = TRUE
  <2>1. /\ Flushed(st, k).in = FALSE /\ Flushed(st, k).out = FALSE
        /\ Flushed(st, k).err = (st.err \/ FlushFails(st, k))
    BY <1>1, FlushedIs
  <2> QED BY <2>1 DEF Idle
<1>3. st'.bytes = Flushed(st, k).bytes /\ st'.pos = Flushed(st, k).pos
  OBVIOUS
<1> QED BY <1>1, <1>2, <1>3, LoseStep

\* A character taken from the buffer is the one at the client's place.
LEMMA TakenView ==
  ASSUME NEW s, Seen(s), s.in = TRUE, s.level > 0
  PROVE  /\ All(Next1(s)) = All(s) /\ Place(Next1(s)) = Place(s) + 1
         /\ Place(s) < Len(All(s)) /\ Current(s) = All(s)[Place(s) + 1]
         /\ Next1(s).bytes = s.bytes /\ Next1(s).err = s.err
<1>1. Shaped(s) /\ s.level \in Nat /\ s.pos \in Nat /\ s.level <= s.pos /\ s.out \in BOOLEAN
      /\ s.pos <= Len(s.bytes) /\ Len(s.bytes) \in Nat
  BY Fields DEF Seen, Shaped
<1>2. s.out = FALSE
  BY <1>1 DEF Shaped
<1> DEFINE t == Next1(s)
<1>3. /\ t.in = s.in /\ ~t.out /\ t.bytes = s.bytes /\ t.pos = s.pos /\ t.level = s.level - 1
      /\ t.err = s.err
  BY <1>1, TakenShaped
<1> HIDE DEF t
<1>4. All(s) = s.bytes /\ Place(s) = s.pos - s.level
  BY <1>2 DEF All, Place
<1>5. All(t) = s.bytes /\ Place(t) = s.pos - (s.level - 1)
  BY <1>3 DEF All, Place
<1>6. Current(s) = s.bytes[s.pos - s.level + 1]
  BY TakenSeen
<1>7. Place(t) = Place(s) + 1 /\ Place(s) < Len(All(s))
  BY <1>1, <1>4, <1>5
<1> QED BY <1>3, <1>4, <1>5, <1>6, <1>7 DEF t

\* A refill begins at the client's place.
LEMMA RefillView ==
  ASSUME NEW s, Seen(s), mode \in Modes, mode.read, NEW k \in Taken(s),
         ~FlushFails(s, k), ~(s.in /\ s.level > 0), ~Cuts(s, k)
  PROVE  LET f == Filled(Begun(s, k)) IN
         /\ Seen(f) /\ f.in = TRUE /\ f.out = FALSE /\ f.level \in Nat
         /\ f.bytes = All(s) /\ All(f) = All(s) /\ Place(f) = Place(s) /\ f.err = s.err
         /\ f.level = 0 => Place(s) = Len(All(s))
<1>1. /\ Shaped(s) /\ NulFree(s) /\ k \in 0 .. s.level /\ s.err \in BOOLEAN
      /\ s.level \in Nat /\ s.pos \in Nat
  BY TakenIs, Fields DEF Seen, Shaped
<1> DEFINE b == Begun(s, k)
           n == Portion(b)
           f == Filled(b)
<1>2. /\ b \in StType /\ b.pos <= Len(b.bytes) /\ b.in /\ ~b.out
      /\ b.bytes = (IF s.out THEN Overlay(s.bytes, s.pos, SubSeq(s.buffer, 1, k)) ELSE s.bytes)
      /\ b.pos = (IF s.out THEN s.pos + k ELSE s.pos)
      /\ b.err = (s.err \/ FlushFails(s, k))
  BY <1>1, BegunIs
<1>3. s.out => k = s.level
  BY <1>1, WholeFlush
<1>4. b.bytes = All(s) /\ b.pos = Place(s) /\ b.err = s.err
  <2>1. CASE s.out
    BY <1>1, <1>2, <1>3, <2>1 DEF All, Place, Shaped
  <2>2. CASE ~s.out /\ s.in
    <3>1. s.level = 0
      BY <1>1, <2>2
    <3> QED BY <1>1, <1>2, <2>2, <3>1 DEF All, Place
  <2>3. CASE ~s.out /\ ~s.in
    BY <1>1, <1>2, <2>3 DEF All, Place
  <2> QED BY <2>1, <2>2, <2>3
<1>5. Seen(f) /\ f.in = TRUE /\ f.out = FALSE
  BY <1>1, FillSeen
<1> HIDE DEF b
<1>6. f.bytes = b.bytes /\ f.pos = b.pos + n /\ f.level = n /\ f.err = b.err
  BY <1>2, FilledIs
<1>7. n \in Nat /\ b.pos \in Nat /\ (n = 0 => b.pos = Len(b.bytes))
  BY <1>2, PortionIs, Fields
<1> HIDE DEF n, f
<1>8. All(f) = f.bytes /\ Place(f) = f.pos - f.level
  BY <1>5 DEF All, Place
<1>9. Place(f) = b.pos
  BY <1>6, <1>7, <1>8
<1> QED BY <1>4, <1>5, <1>6, <1>7, <1>8, <1>9 DEF f, b

LEMMA BinaryGet ==
  ASSUME BufferInv, Seen(st), mode.bin, fgetc, Shaped(st'), mode' = mode, cut' = FALSE
  PROVE  B!Step
<1>1. mode \in Modes /\ Shaped(st) /\ mode.read \in BOOLEAN
  BY DEF BufferInv, Modes
<1>2. CASE ~mode.read
  <2>1. st' = [st EXCEPT !.err = TRUE] /\ ret' = EOF
    BY <1>2 DEF fgetc, Refused, Returns
  <2> QED BY <1>1, <2>1, RefuseStep
<1>3. CASE mode.read
  <2>1. PICK k \in Taken(st) : st' = _basegetc(st, k).s /\ ret' = _basegetc(st, k).c /\ ~Cuts(st, k)
    BY <1>3 DEF fgetc, Returns, CutWhen
  <2> DEFINE r == _readbuf(st, k)
  <2>2. _basegetc(st, k) = IF ~r.ok THEN [s |-> r.s, c |-> EOF]
                           ELSE [s |-> Next1(r.s), c |-> Current(r.s)]
    BY DEF _basegetc
  <2>3. st' = (IF r.ok THEN Next1(r.s) ELSE r.s) /\ ret' = (IF r.ok THEN Current(r.s) ELSE EOF)
    BY <2>1, <2>2
  <2>4. CASE st.in /\ st.level > 0
    <3>1. r.s = st /\ r.ok
      BY <2>4, ReadbufIs
    <3>2. st' = Next1(st) /\ ret' = Current(st)
      BY <2>3, <3>1
    <3>3. st.in = TRUE
      BY <1>1, <2>4, Fields DEF Shaped
    <3>4. /\ Same /\ Reached /\ Place(st) < Len(All(st)) /\ Place(st') = Place(st) + 1
          /\ ret' = All(st)[Place(st) + 1]
      BY <2>4, <3>2, <3>3, TakenView DEF Same, Reached
    <3> QED BY <1>1, <3>4, GotStep
  <2>5. CASE ~(st.in /\ st.level > 0) /\ FlushFails(st, k)
    <3>1. r.s = Flushed(st, k) /\ r.ok = FALSE
      BY <2>5, ReadbufIs
    <3>2. st' = Flushed(st, k) /\ ret' = EOF
      BY <2>3, <3>1
    <3> QED BY <1>1, <2>5, <3>2, FlushLost
  <2>6. CASE ~(st.in /\ st.level > 0) /\ ~FlushFails(st, k)
    <3> DEFINE f == Filled(Begun(st, k))
    <3>1. r = [s |-> f, ok |-> f.level > 0 /\ ~EndsText(f)]
      BY <2>6, ReadbufIs
    <3>2. ~EndsText(f)
      BY DEF EndsText
    <3>3. /\ Seen(f) /\ f.in = TRUE /\ f.level \in Nat
          /\ f.bytes = All(st) /\ All(f) = All(st) /\ Place(f) = Place(st) /\ f.err = st.err
          /\ f.level = 0 => Place(st) = Len(All(st))
      BY <1>1, <1>3, <2>1, <2>6, RefillView
    <3> HIDE DEF f
    <3> DEFINE ok == f.level > 0 /\ ~EndsText(f)
    <3>7. ok <=> f.level > 0
      BY <3>2
    <3>8. r = [s |-> f, ok |-> ok]
      BY <3>1
    <3> HIDE DEF r, ok
    <3>9. r.s = f /\ r.ok = ok
      BY <3>8
    <3>4. r.s = f /\ (r.ok <=> f.level > 0)
      BY <3>7, <3>9
    <3>5. CASE f.level > 0
      <4>1. st' = Next1(f) /\ ret' = Current(f)
        BY <2>3, <3>4, <3>5
      <4>2. /\ Same /\ Reached /\ Place(st) < Len(All(st)) /\ Place(st') = Place(st) + 1
            /\ ret' = All(st)[Place(st) + 1]
        BY <3>3, <3>5, <4>1, TakenView DEF Same, Reached
      <4> QED BY <1>1, <4>2, GotStep
    <3>6. CASE ~(f.level > 0)
      <4>1. st' = f /\ ret' = EOF
        BY <2>3, <3>4, <3>6
      <4>2. f.level = 0
        BY <3>3, <3>6
      <4>3. Same /\ Reached /\ Place(st) = Len(All(st)) /\ Place(st') = Place(st)
        BY <3>3, <4>1, <4>2 DEF Same, Reached
      <4> QED BY <1>1, <4>1, <4>3, GotStep
    <3> QED BY <3>5, <3>6
  <2> QED BY <2>4, <2>5, <2>6
<1> QED BY <1>2, <1>3

\* Where the next character goes: behind what waits, or where the handle is.
LEMMA RoomView ==
  ASSUME NEW s, Shaped(s), mode \in Modes, ~s.in,
         NEW k \in Taken(s), ~PutFails(s, k), ~PutCuts(s, k)
  PROVE  LET w == _writebuf(s, k) IN
         /\ Overlay(w.bytes, w.pos, SubSeq(w.buffer, 1, w.level)) = All(s)
         /\ w.pos + w.level = Place(s)
         /\ w.bytes = s.bytes \/ w.bytes = All(s)
         /\ w.err = s.err
<1> DEFINE w == _writebuf(s, k)
           f == Flushed(s, k)
<1>1. k \in 0 .. s.level
  BY TakenIs DEF Shaped
<1>2. /\ w \in StType /\ w.pos <= Len(w.bytes) /\ w.level = w.curp
      /\ (w.out => w = s) /\ (~w.out => w.level = 0)
      /\ w.bytes = (IF Flushes(s) THEN f.bytes ELSE s.bytes)
      /\ w.pos = (IF Flushes(s) THEN f.pos ELSE s.pos)
      /\ w.err = (IF Flushes(s) THEN f.err ELSE s.err)
  BY <1>1, WritebufIs
<1>3. ~Flushes(s) /\ s.out => w = s
  BY DEF _writebuf
<1>4. Flushes(s) => f.bytes = All(s) /\ f.pos = Place(s) /\ f.err = s.err
  BY FlushedRight DEF PutFails, PutCuts
<1> HIDE DEF w, f
<1>5. w.bytes \in Seq(Chars) /\ w.pos \in Nat /\ w.buffer \in [1 .. BUFSIZ -> Chars]
  BY <1>2, Fields
<1>6. CASE w = s /\ s.out
  BY <1>6 DEF All, Place, w
<1>7. CASE ~(w = s /\ s.out)
  <2>1. w.level = 0
    BY <1>2, <1>7
  <2>2. Overlay(w.bytes, w.pos, SubSeq(w.buffer, 1, w.level)) = w.bytes
    BY <1>2, <1>5, <2>1, OverlayNone
  <2>3. w.pos + w.level = w.pos
    BY <1>5, <2>1
  <2>4. CASE Flushes(s)
    BY <1>2, <1>4, <2>2, <2>3, <2>4 DEF w
  <2>5. CASE ~Flushes(s)
    <3>1. ~s.out
      BY <1>3, <1>7, <2>5
    <3>2. All(s) = s.bytes /\ Place(s) = s.pos
      BY <3>1 DEF All, Place
    <3> QED BY <1>2, <2>2, <2>3, <2>5, <3>2 DEF w
  <2> QED BY <2>4, <2>5
<1> QED BY <1>6, <1>7

\* A character that is put is one more behind the client's place.
LEMMA PutView ==
  ASSUME NEW s, Shaped(s), mode \in Modes, ~s.in, NEW c \in Chars,
         NEW k \in Taken(s), ~PutFails(s, k), ~PutCuts(s, k)
  PROVE  LET r == _baseputc(s, c, k) IN
         /\ r.in = FALSE /\ r.out = TRUE /\ r.err = s.err
         /\ All(r) = Overlay(All(s), Place(s), <<c>>) /\ Place(r) = Place(s) + 1
         /\ r.bytes = s.bytes \/ r.bytes = All(s)
         /\ r.pos = Place(s) \/ (s.out /\ r.bytes = s.bytes /\ r.pos = s.pos)
<1>1. k \in 0 .. s.level
  BY TakenIs DEF Shaped
<1> DEFINE r == _baseputc(s, c, k)
           w == _writebuf(s, k)
           n == w.curp + 1
<1>2. /\ r.in = FALSE /\ r.out = TRUE /\ r.bytes = w.bytes /\ r.pos = w.pos /\ r.err = w.err
      /\ r.level = n /\ r.buffer = [w.buffer EXCEPT ![n] = c]
  BY <1>1, PutIs
<1> HIDE DEF r
<1>3. /\ Overlay(w.bytes, w.pos, SubSeq(w.buffer, 1, w.level)) = All(s)
      /\ w.pos + w.level = Place(s)
      /\ w.bytes = s.bytes \/ w.bytes = All(s)
      /\ w.err = s.err
  BY RoomView
<1>4. /\ w \in StType /\ w.pos <= Len(w.bytes) /\ w.level = w.curp /\ w.curp < BUFSIZ
      /\ (w.out => w = s) /\ (~w.out => w.level = 0)
  BY <1>1, WritebufIs
<1> HIDE DEF w
<1>5. /\ w.bytes \in Seq(Chars) /\ w.pos \in Nat /\ w.buffer \in [1 .. BUFSIZ -> Chars]
      /\ w.level \in Nat /\ w.level < BUFSIZ
  BY <1>4, Fields
<1>6. Overlay(w.bytes, w.pos, SubSeq([w.buffer EXCEPT ![w.level + 1] = c], 1, w.level + 1))
        = Overlay(All(s), Place(s), <<c>>)
  <2> DEFINE by == w.bytes
             ps == w.pos
             lv == w.level
             bu == w.buffer
  <2>1. /\ by \in Seq(Chars) /\ ps \in Nat /\ ps <= Len(by)
        /\ bu \in [1 .. BUFSIZ -> Chars] /\ lv \in Nat /\ lv < BUFSIZ
    BY <1>4, <1>5
  <2>2. Overlay(by, ps, SubSeq(bu, 1, lv)) = All(s) /\ ps + lv = Place(s)
    BY <1>3
  <2> HIDE DEF by, ps, lv, bu
  <2>3. Overlay(by, ps, SubSeq([bu EXCEPT ![lv + 1] = c], 1, lv + 1))
          = Overlay(Overlay(by, ps, SubSeq(bu, 1, lv)), ps + lv, <<c>>)
    BY <2>1, OverlayMore
  <2> QED BY <2>2, <2>3 DEF by, ps, lv, bu
<1>7. r.level = w.level + 1 /\ r.buffer = [w.buffer EXCEPT ![w.level + 1] = c]
  BY <1>2, <1>4
<1>8. All(r) = Overlay(All(s), Place(s), <<c>>)
  BY <1>2, <1>6, <1>7 DEF All
<1>9. Place(r) = Place(s) + 1
  <2>1. Place(r) = w.pos + (w.level + 1)
    BY <1>2, <1>7 DEF Place
  <2> QED BY <1>3, <1>5, <2>1
<1>10. r.pos = Place(s) \/ (s.out /\ r.bytes = s.bytes /\ r.pos = s.pos)
  <2>1. CASE w.out
    BY <1>2, <1>4, <2>1
  <2>2. CASE ~w.out
    BY <1>2, <1>3, <1>4, <1>5, <2>2
  <2> QED BY <2>1, <2>2
<1> QED BY <1>2, <1>3, <1>8, <1>9, <1>10 DEF r

LEMMA BinaryPut ==
  ASSUME BufferInv, mode.bin, ~st.in, NEW c \in Letters \cup {LF}, fputc(c),
         Shaped(st'), mode' = mode, cut' = FALSE
  PROVE  B!Step
<1>1. mode \in Modes /\ Shaped(st) /\ c \in Chars
  BY Sizes DEF BufferInv
<1>2. PICK k \in Taken(st) :
        /\ st' = _baseputc(st, c, k) /\ ret' = (IF PutFails(st, k) THEN EOF ELSE c)
        /\ ~PutCuts(st, k)
  BY DEF fputc, Returns, CutWhen
<1>3. k \in 0 .. st.level
  BY <1>1, TakenIs DEF Shaped
<1> DEFINE r == _baseputc(st, c, k)
<1>4. CASE PutFails(st, k)
  <2>1. /\ r.bytes = Flushed(st, k).bytes /\ r.pos = Flushed(st, k).pos
        /\ r.in = FALSE /\ r.out = FALSE /\ r.err = TRUE
    BY <1>1, <1>3, <1>4, PutIs
  <2>2. st' = r /\ ret' = EOF
    BY <1>2, <1>4
  <2> HIDE DEF r
  <2>3. st.out /\ Idle(st')
    BY <1>4, <2>1, <2>2 DEF Idle, PutFails, FlushFails
  <2> QED BY <1>1, <1>3, <2>1, <2>2, <2>3, LoseStep
<1>5. CASE ~PutFails(st, k)
  <2>1. /\ r.err = st.err
        /\ r.bytes = st.bytes \/ r.bytes = All(st)
        /\ All(r) = Overlay(All(st), Place(st), <<c>>) /\ Place(r) = Place(st) + 1
    BY <1>1, <1>2, <1>5, PutView
  <2>2. st' = r /\ ret' = c
    BY <1>2, <1>5
  <2> HIDE DEF r
  <2>3. Reached /\ st'.err = st.err
    BY <2>1, <2>2 DEF Reached
  <2> QED BY <1>1, <2>1, <2>2, <2>3, PuttingStep
<1> QED BY <1>4, <1>5

LEMMA BinarySeek ==
  ASSUME BufferInv, mode.bin, NEW offset, NEW origin, fseek(offset, origin),
         Shaped(st'), mode' = mode, cut' = FALSE
  PROVE  B!Step
<1>1. mode \in Modes /\ Shaped(st)
  BY DEF BufferInv
<1>2. PICK k \in Taken(st), e \in {0, EOF}, to \in Nat :
        LET s == Flushed(st, k) IN
        /\ ~Cuts(st, k)
        /\ IF FlushFails(st, k) THEN st' = s /\ Returns(EOF)
           ELSE /\ to \in 0 .. Len(s.bytes)
                /\ st' = [s EXCEPT !.pos = to, !.err = @ \/ e = EOF]
                /\ Returns(e)
  BY RangeInNat DEF fseek, CutWhen
<1>3. CASE FlushFails(st, k)
  <2>1. st' = Flushed(st, k) /\ ret' = EOF
    BY <1>2, <1>3 DEF Returns
  <2> QED BY <1>1, <1>3, <2>1, FlushLost
<1>4. CASE ~FlushFails(st, k)
  <2> DEFINE f == Flushed(st, k)
             v == f.err \/ e = EOF
             r == SetPosErr(f, to, v)
  <2>1. to \in 0 .. Len(f.bytes) /\ st' = r /\ ret' = e
    BY <1>2, <1>4 DEF Returns, SetPosErr
  <2>2. v \in BOOLEAN
    OBVIOUS
  <2>3. k \in 0 .. st.level
    BY <1>1, TakenIs DEF Shaped
  <2>0. ~Cuts(st, k)
    BY <1>2
  <2>4. /\ f \in StType /\ f.in = FALSE /\ f.out = FALSE /\ f.bytes = All(st)
        /\ f.err = (st.err \/ FlushFails(st, k))
    BY <1>1, <1>4, <2>0, <2>3, FlushedIs, FlushedAll DEF Shaped
  <2>5. v = (st.err \/ e = EOF)
    BY <1>4, <2>4
  <2> HIDE DEF f, v
  <2>6. to \in Nat /\ Len(f.bytes) \in Nat
    BY <2>1, <2>4, Fields
  <2>7. r.bytes = f.bytes /\ r.pos = to /\ r.in = f.in /\ r.out = f.out /\ r.err = v
    <3>1. f \in StType
      BY <2>4
    <3>2. to \in Nat
      BY <2>6
    <3> QED BY <2>2, <3>1, <3>2, SetPosErrIs
  <2> HIDE DEF r
  <2>8. Idle(st') /\ st'.bytes = All(st) /\ st'.pos = to /\ st'.err = v
    BY <2>1, <2>4, <2>7 DEF Idle
  <2>9. /\ Contents' = All(st) /\ Reading(st.bytes)' = All(st) /\ At' = to
        /\ Contents = All(st)
    BY <1>1, <2>8, View, ViewNext, IdleView
  <2>10. to \in 0 .. Len(Contents)
    BY <2>1, <2>4, <2>9
  <2>11. B!Seek(to)
    BY <2>1, <2>5, <2>8, <2>9 DEF B!Seek
  <2> QED BY <2>10, <2>11 DEF B!Step
<1> QED BY <1>3, <1>4

LEMMA BinaryUnget ==
  ASSUME BufferInv, Seen(st), mode.bin, MayPushBack, ungetc(Contents[At]),
         Shaped(st'), mode' = mode, cut' = FALSE
  PROVE  B!Step
<1> DEFINE c == Contents[At]
<1>1. mode \in Modes /\ Shaped(st) /\ c \in Chars /\ At > 0
  BY PushIsChar DEF BufferInv, MayPushBack
<1> HIDE DEF c
<1>2. \/ UngotInto(st', st, c) /\ ret' = c
      \/ /\ ~(st.in = TRUE /\ st.curp # 0)
         /\ \E k \in Taken(st) :
              /\ ~Cuts(st, k)
              /\ \/ FlushFails(st, k) /\ st' = Flushed(st, k) /\ ret' = EOF
                 \/ ~FlushFails(st, k) /\ UngotBefore(st', Flushed(st, k), c) /\ ret' = c
  BY <1>1, UngetIs DEF c
<1>3. /\ st.pos \in Nat /\ st.level \in Nat /\ st.err \in BOOLEAN /\ st.out \in BOOLEAN
      /\ ~(st.in /\ st.out)
  BY <1>1, Fields DEF Shaped
<1>4. CASE UngotInto(st', st, c) /\ ret' = c
  <2>1. st.in = TRUE /\ st.out = FALSE
    BY <1>3, <1>4 DEF UngotInto
  <2>2. /\ st'.in = TRUE /\ st'.out = FALSE /\ st'.bytes = st.bytes /\ st'.pos = st.pos
        /\ st'.err = st.err /\ st'.level = st.level + 1
    BY <1>4, <2>1 DEF UngotInto
  <2>3. Same /\ Reached
    BY <2>1, <2>2 DEF Same, Reached, All
  <2>4. Place(st') = st.pos - (st.level + 1) /\ Place(st) = st.pos - st.level
    BY <2>1, <2>2 DEF Place
  <2>5. Place(st') = Place(st) - 1
    BY <1>3, <2>4
  <2> QED BY <1>1, <1>4, <2>3, <2>5, UngottenStep DEF c
<1>5. ASSUME NEW k \in Taken(st), FlushFails(st, k), st' = Flushed(st, k), ret' = EOF
      PROVE  B!Step
  BY <1>1, <1>5, FlushLost
<1>6. ASSUME NEW k \in Taken(st), ~(st.in = TRUE /\ st.curp # 0), ~FlushFails(st, k),
             ~Cuts(st, k), UngotBefore(st', Flushed(st, k), c), ret' = c
      PROVE  B!Step
  <2> DEFINE f == Flushed(st, k)
  <2>1. k \in 0 .. st.level
    BY <1>1, TakenIs DEF Shaped
  <2>2. /\ f.bytes = All(st) /\ f.pos \in Nat /\ f.pos = Place(st)
    BY <1>1, <1>6, FlushedAll, UngetPlace
  <2>3. f.err = st.err
    <3>1. f.err = (st.err \/ FlushFails(st, k))
      BY <1>1, <2>1, FlushedIs
    <3> QED BY <1>3, <1>6, <3>1
  <2> HIDE DEF f
  <2>4. /\ st'.in = TRUE /\ st'.out = FALSE /\ st'.bytes = f.bytes /\ st'.pos = f.pos
        /\ st'.err = f.err /\ st'.level = 1
    BY <1>6 DEF UngotBefore, f
  <2>5. Same /\ Reached
    BY <2>2, <2>3, <2>4 DEF Same, Reached, All
  <2>6. Place(st') = Place(st) - 1
    BY <2>2, <2>4 DEF Place
  <2> QED BY <1>1, <1>6, <2>5, <2>6, UngottenStep DEF c
<1> QED BY <1>2, <1>4, <1>5, <1>6

\* What was put is in the file when a flush or the end of the stream did
\* not fail, and a part of it when it did.
LEMMA BinaryFlush ==
  ASSUME BufferInv, mode.bin, ~st.in, fflush, Shaped(st'), mode' = mode, cut' = FALSE
  PROVE  B!Step
<1>1. mode \in Modes /\ Shaped(st)
  BY DEF BufferInv
<1>2. PICK k \in Taken(st) :
        /\ st' = Flushed(st, k) /\ ret' = (IF FlushFails(st, k) THEN EOF ELSE 0)
        /\ ~Cuts(st, k)
  BY DEF fflush, Returns, CutWhen
<1>3. CASE FlushFails(st, k)
  BY <1>1, <1>2, <1>3, FlushLost
<1>4. CASE ~FlushFails(st, k)
  <2>1. /\ Idle(st') /\ st'.bytes = All(st) /\ st'.pos = Place(st) /\ st'.err = st.err /\ ret' = 0
    BY <1>1, <1>2, <1>4, FlushedRight
  <2>2. /\ Contents = All(st) /\ At = Place(st)
        /\ Contents' = All(st) /\ Reading(st.bytes)' = All(st) /\ At' = Place(st)
    BY <1>1, <2>1, View, ViewNext, IdleView
  <2>3. B!Flush
    BY <2>1, <2>2 DEF B!Flush
  <2> QED BY <2>3 DEF B!Step
<1> QED BY <1>3, <1>4

LEMMA BinaryClose ==
  ASSUME BufferInv, mode.bin, fclose, Shaped(st'), mode' = mode, cut' = FALSE
  PROVE  B!Step
<1>1. mode \in Modes /\ Shaped(st) /\ (st.out => ~st.in)
  BY DEF BufferInv, Shaped
<1>2. PICK k \in Taken(st), e \in {0, EOF} :
        st' = (IF st.out THEN Flushed(st, k) ELSE st) /\ ret' = e /\ ~Cuts(st, k)
  BY DEF fclose, Returns, CutWhen
<1>3. CASE st.out /\ FlushFails(st, k)
  BY <1>1, <1>2, <1>3, FlushLost
<1>4. CASE st.out /\ ~FlushFails(st, k)
  <2>1. Idle(st') /\ st'.bytes = All(st) /\ st'.pos = Place(st) /\ st'.err = st.err
    BY <1>1, <1>2, <1>4, FlushedRight
  <2>2. /\ Contents = All(st) /\ At = Place(st)
        /\ Contents' = All(st) /\ Reading(st.bytes)' = All(st) /\ At' = Place(st)
    BY <1>1, <2>1, View, ViewNext, IdleView
  <2>3. B!Close
    BY <1>2, <2>1, <2>2 DEF B!Close
  <2> QED BY <2>3 DEF B!Step
<1>5. CASE ~st.out
  <2>1. st' = st
    BY <1>2, <1>5
  <2>2. All(st) = st.bytes
    BY <1>5 DEF All
  <2>3. /\ Contents = All(st) /\ Reading(st.bytes) = st.bytes /\ At = Place(st)
        /\ Contents' = All(st) /\ Reading(st.bytes)' = st.bytes /\ At' = Place(st)
    BY <1>1, <2>1, View, ViewNext
  <2>4. B!Close
    BY <1>2, <2>1, <2>2, <2>3 DEF B!Close
  <2> QED BY <2>4 DEF B!Step
<1> QED BY <1>3, <1>4, <1>5

LEMMA BinaryOpen ==
  ASSUME BufferInv, mode.bin, ~st.out, fopen, BufferInv', mode'.bin
  PROVE  B!Step
<1>1. /\ Shaped(st)
      /\ st' = [st EXCEPT !.pos = 0, !.in = FALSE, !.out = FALSE, !.skip = FALSE, !.err = FALSE,
                          !.level = 0, !.curp = 0]
      /\ ret' = 0
  BY DEF BufferInv, fopen, Returns
<1>2. st = [bytes |-> st.bytes, pos |-> st.pos, in |-> st.in, out |-> st.out, skip |-> st.skip,
            err |-> st.err, level |-> st.level, curp |-> st.curp, buffer |-> st.buffer]
  BY <1>1, Fields DEF Shaped
<1>3. st' = [bytes |-> st.bytes, pos |-> 0, in |-> FALSE, out |-> FALSE, skip |-> FALSE,
             err |-> FALSE, level |-> 0, curp |-> 0, buffer |-> st.buffer]
  BY <1>1, <1>2
<1>4. Idle(st') /\ st'.bytes = st.bytes /\ st'.pos = 0 /\ st'.err = FALSE
  BY <1>3 DEF Idle
<1>5. All(st) = st.bytes /\ Shaped(st')
  BY <1>4 DEF All, BufferInv, Shaped, Idle
<1>6. /\ Contents = st.bytes /\ Reading(st.bytes) = st.bytes
      /\ Contents' = st.bytes /\ Reading(st.bytes)' = st.bytes /\ At' = 0
  BY <1>1, <1>4, <1>5, View, ViewNext, IdleView
<1>7. B!Open
  BY <1>1, <1>4, <1>6 DEF B!Open
<1> QED BY <1>7 DEF B!Step

LEMMA BinaryTell ==
  ASSUME BufferInv, BufferInv', mode.bin, fgetpos, Shaped(st'), mode' = mode
  PROVE  B!Step
<1>1. Shaped(st) /\ st' = st /\ ret' \in Int
  BY DEF BufferInv, fgetpos
<1>2. Contents' = Contents /\ Reading(st.bytes)' = Reading(st.bytes) /\ At' = At
  BY <1>1, View, ViewNext
<1>3. B!Tell
  BY <1>1, <1>2 DEF B!Tell
<1> QED BY <1>3 DEF B!Step

\* Nothing waits in the buffer of a binary stream that is closed.
BinaryKept == BufferInv /\ Seen(st) /\ mode.bin /\ (~open => ~st.out)

LEMMA BinarySteps ==
  ASSUME BinaryKept, [Next]_vars, cut' = FALSE
  PROVE  BinaryKept' /\ [B!Step]_B!bsvars
<1>1. BufferInv /\ Seen(st) /\ mode.bin /\ (~open => ~st.out) /\ BufferInv' /\ Seen(st)'
  BY SeenSteps DEF BinaryKept
<1>2. ASSUME mode' = mode PROVE Shaped(st')
  BY <1>1, <1>2 DEF BufferInv, Shaped
<1>3. ASSUME B!Step, open', mode'.bin PROVE BinaryKept' /\ [B!Step]_B!bsvars
  <2>1. BinaryKept'
    <3>1. (~open => ~st.out)' /\ mode.bin'
      BY <1>3
    <3> QED BY <1>1, <3>1 DEF BinaryKept
  <2>2. [B!Step]_B!bsvars
    BY <1>3
  <2> QED BY <2>1, <2>2
<1>4. CASE fopen
  <2>1. open' /\ mode'.bin /\ ~st.out
    BY <1>1, <1>4 DEF fopen
  <2>2. B!Step
    BY <1>1, <1>4, <2>1, BinaryOpen
  <2> QED BY <1>3, <2>1, <2>2
<1>5. CASE fclose
  <2>1. mode' = mode
    BY <1>5 DEF fclose, Call
  <2>2. B!Step
    BY <1>1, <1>2, <1>5, <2>1, BinaryClose
  <2>3. ~st'.out
    <3>1. mode \in Modes /\ Shaped(st)
      BY <1>1 DEF BufferInv
    <3>2. PICK k \in Taken(st) : st' = (IF st.out THEN Flushed(st, k) ELSE st)
      BY <1>5 DEF fclose
    <3>3. k \in 0 .. st.level
      BY <3>1, TakenIs DEF Shaped
    <3>4. Flushed(st, k).out = FALSE
      BY <3>1, <3>3, FlushedIs
    <3> QED BY <3>2, <3>4
  <2> QED BY <1>1, <2>1, <2>2, <2>3 DEF BinaryKept
<1>6. ASSUME open, mode' = mode, open' = open, B!Step PROVE BinaryKept' /\ [B!Step]_B!bsvars
  BY <1>1, <1>3, <1>6
<1>7. CASE fgetc
  <2>1. open /\ mode' = mode /\ open' = open
    BY <1>7 DEF fgetc, Call, Stays
  <2>2. B!Step
    BY <1>1, <1>2, <1>7, <2>1, BinaryGet
  <2> QED BY <1>6, <2>1, <2>2
<1>8. ASSUME NEW c \in Letters \cup {LF}, MayWrite, fputc(c) PROVE BinaryKept' /\ [B!Step]_B!bsvars
  <2>1. open /\ mode' = mode /\ open' = open /\ ~st.in
    BY <1>8 DEF fputc, Call, Stays, MayWrite
  <2>2. B!Step
    BY <1>1, <1>2, <1>8, <2>1, BinaryPut
  <2> QED BY <1>6, <2>1, <2>2
<1>9. CASE fputc_lf
  BY <1>1, <1>9 DEF fputc_lf
<1>10. CASE fputc_refused
  <2>1. /\ open /\ mode' = mode /\ open' = open
        /\ st' = [st EXCEPT !.err = TRUE] /\ ret' = EOF
    BY <1>10 DEF fputc_refused, Call, Stays, Refused, Returns
  <2>2. Shaped(st) /\ mode'.bin
    BY <1>1, <2>1 DEF BufferInv
  <2>3. B!Step
    BY <1>1, <2>1, <2>2, RefuseStep
  <2> QED BY <1>6, <2>1, <2>3
<1>11. CASE clearerr
  <2>1. /\ open /\ mode' = mode /\ open' = open
        /\ st' = [st EXCEPT !.err = FALSE] /\ ret' = 0
    BY <1>11 DEF clearerr, Call, Stays, Returns
  <2>2. Shaped(st) /\ mode'.bin
    BY <1>1, <2>1 DEF BufferInv
  <2>3. B!Step
    BY <1>1, <2>1, <2>2, ClearStep
  <2> QED BY <1>6, <2>1, <2>3
<1>12. CASE ~st.in /\ fflush
  <2>1. open /\ mode' = mode /\ open' = open
    BY <1>12 DEF fflush, Call, Stays
  <2>2. B!Step
    BY <1>1, <1>2, <1>12, <2>1, BinaryFlush
  <2> QED BY <1>6, <2>1, <2>2
<1>13. ASSUME NEW offset, NEW origin, fseek(offset, origin) PROVE BinaryKept' /\ [B!Step]_B!bsvars
  <2>1. open /\ mode' = mode /\ open' = open
    BY <1>13 DEF fseek, Call, Stays
  <2>2. B!Step
    BY <1>1, <1>2, <1>13, <2>1, BinarySeek
  <2> QED BY <1>6, <2>1, <2>2
<1>14. CASE fgetpos
  <2>1. open /\ mode' = mode /\ open' = open
    BY <1>14 DEF fgetpos, Call, Stays
  <2>2. B!Step
    BY <1>1, <1>2, <1>14, <2>1, BinaryTell
  <2> QED BY <1>6, <2>1, <2>2
<1>15. CASE MayPushBack /\ ungetc(Contents[At])
  <2>1. open /\ mode' = mode /\ open' = open
    BY <1>15 DEF ungetc, Call, Stays
  <2>2. B!Step
    BY <1>1, <1>2, <1>15, <2>1, BinaryUnget
  <2> QED BY <1>6, <2>1, <2>2
<1>16. CASE UNCHANGED vars
  <2>1. st' = st /\ mode' = mode /\ open' = open /\ ret' = ret /\ cut' = cut
    BY <1>16 DEF vars
  <2>2. Shaped(st) /\ mode'.bin
    BY <1>1, <2>1 DEF BufferInv
  <2>3. /\ Contents' = Contents /\ Reading(st.bytes)' = Reading(st.bytes) /\ At' = At
    BY <1>1, <1>2, <2>1, <2>2, View, ViewNext
  <2>4. UNCHANGED B!bsvars
    BY <2>1, <2>3 DEF B!bsvars
  <2> QED BY <1>1, <2>1, <2>4 DEF BinaryKept
<1> QED BY <1>4, <1>5, <1>7, <1>8, <1>9, <1>10, <1>11, <1>12, <1>13, <1>14, <1>15, <1>16, Zenon
        DEF Next, BinaryKept

\* A stream stays what it is, a binary or a text one.
LEMMA KindKept ==
  ASSUME [Next]_vars
  PROVE  mode'.bin = mode.bin
<1>1. CASE fopen
  BY <1>1 DEF fopen
<1>2. CASE fclose \/ fgetc \/ clearerr \/ fgetpos \/ fputc_lf \/ fputc_refused \/ fflush
  BY <1>2 DEF fclose, fgetc, clearerr, fgetpos, fputc_lf, fputc_refused, fflush, Call
<1>3. CASE \E c \in Letters \cup {LF} : fputc(c)
  BY <1>3 DEF fputc, Call
<1>4. CASE \E offset, origin : fseek(offset, origin)
  BY <1>4 DEF fseek, Call
<1>5. CASE ungetc(Contents[At])
  BY <1>5 DEF ungetc, Call
<1>6. CASE UNCHANGED vars
  BY <1>6 DEF vars
<1> QED BY <1>1, <1>2, <1>3, <1>4, <1>5, <1>6, Zenon DEF Next

BinaryInv == BufferInv /\ cut \in BOOLEAN /\ mode.bin /\ (cut = FALSE => BinaryKept)

LEMMA BinaryNext ==
  ASSUME BinaryInv, [Next]_vars
  PROVE  BinaryInv' /\ [B!Next]_B!bsvars
<1>1. BufferInv' /\ cut' \in BOOLEAN /\ mode'.bin /\ (cut' = FALSE => cut = FALSE)
  BY Steps, CutKept, KindKept DEF BinaryInv
<1>2. CASE cut' = TRUE
  BY <1>1, <1>2 DEF BinaryInv, B!Next
<1>3. CASE cut' = FALSE
  <2>1. cut = FALSE /\ BinaryKept
    BY <1>1, <1>3 DEF BinaryInv
  <2>2. BinaryKept' /\ [B!Step]_B!bsvars
    BY <1>3, <2>1, BinarySteps
  <2> QED BY <1>1, <1>3, <2>1, <2>2 DEF BinaryInv, B!Next
<1> QED BY <1>1, <1>2, <1>3

\* A binary stream does what ByteStream says, whatever the size of its buffer:
\* what was put is read back at its place, a flush, a seek and the end bring
\* it to the file, and what does not get there is not lost in silence, until a
\* flush is cut short.
THEOREM BinaryStreamsAreByteStreams == Spec /\ mode.bin => IsByteStream
<1>1. Init /\ mode.bin => BinaryInv /\ B!Init
  <2> SUFFICES ASSUME Init, mode.bin PROVE BinaryInv /\ B!Init
    OBVIOUS
  <2>1. BufferInv /\ Shaped(st)
    BY Starts DEF BufferInv
  <2>2. /\ st.bytes \in Seq(Chars) /\ st.pos = 0 /\ st.in = FALSE /\ st.out = FALSE /\ st.err = FALSE
        /\ open = TRUE /\ ret = 0 /\ cut = FALSE
    <3>1. PICK b \in IF ~mode.read THEN {<< >>} ELSE IF mode.bin THEN BinFiles ELSE TextFiles :
            /\ st.pos = 0 /\ st.in = FALSE /\ st.out = FALSE /\ st.err = FALSE
      BY DEF Init
    <3>2. open = TRUE /\ ret = 0 /\ cut = FALSE
      BY DEF Init
    <3> QED BY <2>1, <3>1, <3>2, Fields DEF Shaped
  <2>3. Seen(st)
    BY <2>1, <2>2 DEF Seen, Window, NulFree
  <2>4. Idle(st)
    BY <2>2 DEF Idle
  <2>5. Contents = st.bytes /\ Reading(st.bytes) = st.bytes /\ At = 0
    BY <2>1, <2>2, <2>4, View, IdleView
  <2>6. B!Init
    BY <2>2, <2>5 DEF B!Init
  <2> QED BY <2>1, <2>2, <2>3, <2>6 DEF BinaryInv, BinaryKept
<1>2. BinaryInv /\ [Next]_vars => BinaryInv' /\ [B!Next]_B!bsvars
  BY BinaryNext
<1> QED BY <1>1, <1>2, PTL DEF Spec, IsByteStream, B!Spec

-----------------------------------------------------------------------------
(* Texts whose LFs all stand behind a CR, as in the ones a stream writes.   *)
(* Their contents are a count of the characters kept, so the lemmas say     *)
(* what one character more is for that count.                               *)

Paired(b) == \A i \in 1 .. Len(b) : b[i] = LF => i > 1 /\ b[i - 1] = CR

\* How a client reads a character that is kept.
Shown(c) == IF c = CR THEN LF ELSE c

Begins(d, b) == Len(d) <= Len(b) /\ \A i \in 1 .. Len(d) : d[i] = b[i]

LEMMA PairedKept ==
  ASSUME NEW b \in Seq(Chars), Paired(b)
  PROVE  /\ Kept(b) = {i \in 1 .. Len(b) : b[i] # LF}
         /\ Kept(b) \in SUBSET Nat /\ IsFiniteSet(Kept(b)) /\ Cardinality(Kept(b)) \in Nat
<1>1. Len(b) \in Nat
  BY LenProperties
<1>2. Kept(b) = {i \in 1 .. Len(b) : b[i] # LF}
  BY DEF Kept, Paired
<1>3. Kept(b) \in SUBSET (1 .. Len(b)) /\ IsFiniteSet(1 .. Len(b))
  BY <1>1, <1>2, FS_Interval
<1>4. IsFiniteSet(Kept(b))
  BY <1>3, FS_Subset
<1>5. Cardinality(Kept(b)) \in Nat
  BY <1>4, FS_CardinalityType
<1>6. Kept(b) \in SUBSET Nat
  BY <1>3
<1> QED BY <1>2, <1>4, <1>5, <1>6

\* In a finite set of numbers there is a member of every rank.
LEMMA RankOnto ==
  ASSUME NEW K \in SUBSET Nat, IsFiniteSet(K), NEW j \in 1 .. Cardinality(K)
  PROVE  \E i \in K : Cardinality({h \in K : h <= i}) = j
<1> DEFINE n == Cardinality(K)
           rank(i) == Cardinality({h \in K : h <= i})
           T == 1 .. n
           f == [i \in K |-> rank(i)]
<1>1. n \in Nat
  BY FS_CardinalityType
<1>2. ASSUME NEW i \in K PROVE rank(i) \in 1 .. n
  <2> DEFINE m == Cardinality({h \in K : h < i})
             L == {h \in K : h <= i}
  <2>1. Cardinality(L) = m + 1 /\ m \in Nat
    BY RankAdded
  <2>2. L \in SUBSET K
    OBVIOUS
  <2> HIDE DEF L, m
  <2>3. Cardinality(L) <= n
    BY <2>2, FS_Subset
  <2>4. Cardinality(L) \in 1 .. n
    BY <1>1, <2>1, <2>3
  <2> QED BY <2>4 DEF L
<1>3. ASSUME NEW x \in K, NEW y \in K, rank(x) = rank(y) PROVE x = y
  <2> DEFINE a == Cardinality({h \in K : h < x})
             b == Cardinality({h \in K : h < y})
  <2>1. rank(x) = a + 1 /\ a \in Nat
    BY RankAdded
  <2>2. rank(y) = b + 1 /\ b \in Nat
    BY RankAdded
  <2>3. a = b
    <3>1. rank(x) = rank(y)
      BY <1>3
    <3> HIDE DEF a, b, rank
    <3> QED BY <2>1, <2>2, <3>1
  <2> QED BY <2>3, Ranked
<1>4. f \in [K -> T]
  <2> HIDE DEF rank
  <2> QED BY <1>2
<1>5. \A x \in K : f[x] = rank(x)
  OBVIOUS
<1> HIDE DEF f, rank, n, T
<1>6. f \in Injection(K, T)
  BY <1>3, <1>4, <1>5 DEF Injection, IsInjective
<1>7. IsFiniteSet(T) /\ Cardinality(T) = n
  <2>1. 1 \in Int /\ n \in Int
    BY <1>1
  <2>2. IsFiniteSet(1 .. n) /\ Cardinality(1 .. n) = IF 1 > n THEN 0 ELSE n - 1 + 1
    BY <2>1, FS_Interval
  <2> QED BY <1>1, <2>2 DEF T
<1>8. f \in Surjection(K, T)
  BY <1>6, <1>7, FS_Injection DEF n
<1>9. PICK i \in K : f[i] = j
  BY <1>8 DEF Surjection, T, n
<1>10. rank(i) = j
  BY <1>5, <1>9
<1> QED BY <1>10 DEF rank

LEMMA TextPoint ==
  ASSUME NEW b \in Seq(Chars), Clean(b), Paired(b)
  PROVE  /\ Text(b) \in Seq(Chars) /\ Len(Text(b)) = Cardinality(Kept(b))
         /\ \A i \in Kept(b) :
              /\ Cardinality({h \in Kept(b) : h <= i}) \in 1 .. Cardinality(Kept(b))
              /\ Text(b)[Cardinality({h \in Kept(b) : h <= i})] = Shown(b[i])
<1> DEFINE K == Kept(b)
           n == Cardinality(K)
           below(i) == Cardinality({h \in K : h < i})
           upto(i) == Cardinality({h \in K : h <= i})
           val(j) == LET i == CHOOSE i \in K : Cardinality({h \in K : h < i}) = j - 1
                     IN  IF b[i] = CR THEN LF ELSE b[i]
<1>1. K \in SUBSET Nat /\ IsFiniteSet(K) /\ n \in Nat /\ \A i \in K : b[i] \in Chars /\ Shown(b[i]) \in Chars
  <2>1. \A i \in 1 .. Len(b) : b[i] \in Chars
    BY ElementOfSeq
  <2> QED BY <2>1, PairedKept, Sizes DEF Shown
<1>2. Text(b) = [j \in 1 .. n |-> val(j)]
  BY TextIs
<1>3. ASSUME NEW i \in K PROVE upto(i) = below(i) + 1 /\ below(i) \in Nat /\ upto(i) \in 1 .. n
  <2> HIDE DEF K
  <2>1. upto(i) = below(i) + 1 /\ below(i) \in Nat
    BY <1>1, RankAdded
  <2> DEFINE L == {h \in K : h <= i}
  <2>2. L \in SUBSET K
    OBVIOUS
  <2> HIDE DEF L
  <2>3. Cardinality(L) <= n
    BY <1>1, <2>2, FS_Subset
  <2>4. upto(i) <= n
    BY <2>3 DEF L
  <2> HIDE DEF n, upto, below
  <2> QED BY <1>1, <2>1, <2>4
<1>4. ASSUME NEW i \in K PROVE val(upto(i)) = Shown(b[i])
  <2> DEFINE j == upto(i)
             c == CHOOSE k \in K : below(k) = j - 1
  <2>1. below(i) = j - 1
    <3>1. upto(i) = below(i) + 1 /\ below(i) \in Nat
      BY <1>3
    <3> HIDE DEF upto, below
    <3> QED BY <3>1
  <2>2. c \in K /\ below(c) = j - 1
    <3> HIDE DEF K, below, j
    <3> QED BY <2>1
  <2> HIDE DEF j
  <2>3. below(c) = below(i)
    BY <2>1, <2>2
  <2> HIDE DEF c
  <2>4. c = i
    <3> HIDE DEF K
    <3> QED BY <1>1, <2>2, <2>3, Ranked
  <2>5. val(j) = Shown(b[CHOOSE k \in K : below(k) = j - 1])
    BY DEF Shown
  <2> HIDE DEF val
  <2> QED BY <2>4, <2>5 DEF c, j
<1>5. ASSUME NEW j \in 1 .. n PROVE val(j) \in Chars
  <2> HIDE DEF val, K
  <2>1. PICK i \in K : upto(i) = j
    BY <1>1, RankOnto
  <2>2. val(j) = Shown(b[i])
    BY <1>4, <2>1
  <2> QED BY <1>1, <2>2
<1> HIDE DEF val, n, K
<1>6. Text(b) \in [1 .. n -> Chars]
  BY <1>2, <1>5
<1>7. Text(b) \in Seq(Chars) /\ Len(Text(b)) = n
  <2>1. Text(b) \in Seq(Chars)
    BY <1>1, <1>6, SeqDef
  <2> QED BY <1>1, <1>6, <2>1, LenProperties
<1>8. ASSUME NEW i \in K PROVE Text(b)[upto(i)] = Shown(b[i])
  <2>1. upto(i) \in 1 .. n
    BY <1>3
  <2> HIDE DEF upto
  <2> QED BY <1>2, <1>4, <2>1
<1> QED BY <1>3, <1>7, <1>8 DEF n, K

\* The text of a beginning is the beginning of the text.
LEMMA TextBegins ==
  ASSUME NEW b \in Seq(Chars), Clean(b), Paired(b), NEW d \in Seq(Chars), Begins(d, b)
  PROVE  /\ Clean(d) /\ Paired(d)
         /\ Kept(d) = {h \in Kept(b) : h <= Len(d)}
         /\ Begins(Text(d), Text(b))
<1>1. /\ Len(b) \in Nat /\ Len(d) \in Nat /\ Len(d) <= Len(b)
      /\ \A i \in 1 .. Len(d) : i \in 1 .. Len(b) /\ d[i] = b[i]
  BY LenProperties DEF Begins
<1>2. Clean(d)
  BY <1>1 DEF Clean
<1>3. Paired(d)
  <2> SUFFICES ASSUME NEW i \in 1 .. Len(d), d[i] = LF PROVE i > 1 /\ d[i - 1] = CR
    BY DEF Paired
  <2>1. i > 1 /\ b[i - 1] = CR
    BY <1>1 DEF Paired
  <2>2. i - 1 \in 1 .. Len(d)
    BY <1>1, <2>1
  <2> QED BY <1>1, <2>1, <2>2
<1> DEFINE K == Kept(b)
           D == Kept(d)
<1>4. D = {h \in K : h <= Len(d)}
  <2>1. /\ K = {i \in 1 .. Len(b) : b[i] # LF}
        /\ D = {i \in 1 .. Len(d) : d[i] # LF}
    BY <1>3, PairedKept
  <2> HIDE DEF K, D
  <2> QED BY <1>1, <2>1
<1>5. K \in SUBSET Nat /\ IsFiniteSet(K) /\ D \in SUBSET Nat /\ IsFiniteSet(D) /\ D \in SUBSET K
  BY <1>3, <1>4, PairedKept
<1>6. /\ Len(Text(d)) = Cardinality(D) /\ Len(Text(b)) = Cardinality(K)
      /\ \A i \in D : Text(d)[Cardinality({h \in D : h <= i})] = Shown(d[i])
      /\ \A i \in K : Text(b)[Cardinality({h \in K : h <= i})] = Shown(b[i])
  BY <1>2, <1>3, TextPoint
<1>7. \A i \in D : i \in 1 .. Len(d)
  BY DEF Kept
<1> HIDE DEF K, D
<1>8. ASSUME NEW j \in 1 .. Len(Text(d)) PROVE Text(d)[j] = Text(b)[j]
  <2>1. PICK i \in D : Cardinality({h \in D : h <= i}) = j
    BY <1>5, <1>6, RankOnto
  <2>2. i \in K /\ i \in 1 .. Len(d) /\ i \in Nat
    BY <1>5, <1>7, <2>1
  <2>3. {h \in D : h <= i} = {h \in K : h <= i}
    <3>1. ASSUME NEW h \in K, h <= i PROVE h <= Len(d)
      <4>1. h \in Nat /\ i <= Len(d)
        BY <1>5, <2>2
      <4> QED BY <1>1, <2>2, <3>1, <4>1
    <3> QED BY <1>4, <3>1
  <2>4. Text(d)[j] = Shown(d[i])
    BY <1>6, <2>1
  <2>5. Text(b)[j] = Shown(b[i])
    BY <1>6, <2>1, <2>2, <2>3
  <2> QED BY <1>1, <2>2, <2>4, <2>5
<1>9. Len(Text(d)) <= Len(Text(b))
  BY <1>5, <1>6, FS_Subset
<1> QED BY <1>2, <1>3, <1>4, <1>8, <1>9 DEF Begins, K, D

\* What one more character makes of a text.
LEMMA TextNext ==
  ASSUME NEW b \in Seq(Chars), Clean(b), Paired(b), NEW d \in Seq(Chars), Begins(d, b),
         Len(b) = Len(d) + 1
  PROVE  /\ Len(Text(d)) \in Nat /\ Text(d) \in Seq(Chars) /\ Text(b) \in Seq(Chars)
         /\ b[Len(b)] = LF => Text(b) = Text(d)
         /\ b[Len(b)] # LF => /\ Len(Text(b)) = Len(Text(d)) + 1
                              /\ Text(b)[Len(Text(b))] = Shown(b[Len(b)])
<1> DEFINE K == Kept(b)
           D == Kept(d)
           n == Len(b)
<1>1. /\ Clean(d) /\ Paired(d) /\ D = {h \in K : h <= Len(d)} /\ Begins(Text(d), Text(b))
  BY TextBegins
<1>2. /\ n \in Nat /\ Len(d) \in Nat /\ n = Len(d) + 1 /\ n \in 1 .. n
  BY LenProperties
<1>3. K = {i \in 1 .. n : b[i] # LF} /\ K \in SUBSET Nat /\ IsFiniteSet(K) /\ IsFiniteSet(D)
      /\ Cardinality(D) \in Nat
  BY <1>1, PairedKept
<1>4. /\ Len(Text(d)) = Cardinality(D) /\ Len(Text(b)) = Cardinality(K)
      /\ Text(d) \in Seq(Chars) /\ Text(b) \in Seq(Chars)
      /\ \A i \in K : Text(b)[Cardinality({h \in K : h <= i})] = Shown(b[i])
  BY <1>1, TextPoint
<1>9. n = Len(b)
  OBVIOUS
<1> HIDE DEF K, D, n
<1>5. CASE b[n] = LF
  <2>1. K = D
    <3>1. ASSUME NEW h \in K PROVE h <= Len(d)
      <4>1. h \in 1 .. n /\ h # n
        BY <1>3, <1>5, <3>1
      <4> QED BY <1>2, <4>1
    <3> QED BY <1>1, <3>1
  <2>2. Len(Text(d)) = Len(Text(b)) /\ \A i \in 1 .. Len(Text(d)) : Text(d)[i] = Text(b)[i]
    BY <1>1, <1>4, <2>1 DEF Begins
  <2>3. Text(d) = Text(b)
    BY <1>4, <2>2, SeqEqual
  <2> QED BY <1>3, <1>4, <1>5, <1>9, <2>3
<1>6. CASE b[n] # LF
  <2>1. n \in K /\ n \notin D
    BY <1>1, <1>2, <1>3, <1>6
  <2>2. ASSUME NEW h \in K PROVE h <= n /\ (h <= Len(d) \/ h = n)
    <3>1. h \in 1 .. n
      BY <1>3, <2>2
    <3> QED BY <1>2, <3>1
  <2>3. K = D \cup {n} /\ {h \in K : h <= n} = K
    BY <1>1, <2>1, <2>2
  <2>4. Cardinality(K) = Cardinality(D) + 1
    BY <1>3, <2>1, <2>3, FS_AddElement
  <2>5. Text(b)[Cardinality(K)] = Shown(b[n])
    BY <1>4, <2>1, <2>3
  <2> QED BY <1>3, <1>4, <1>6, <1>9, <2>4, <2>5
<1> QED BY <1>5, <1>6

\* The first p characters.
LEMMA PrefixIs ==
  ASSUME NEW b \in Seq(Chars), NEW p \in 0 .. Len(b)
  PROVE  LET d == SubSeq(b, 1, p) IN
         /\ d \in Seq(Chars) /\ Len(d) = p /\ Begins(d, b)
         /\ \A i \in 1 .. p : d[i] = b[i]
<1>1. Len(b) \in Nat /\ p \in Nat /\ p <= Len(b) /\ (\A i \in 1 .. Len(b) : b[i] \in Chars)
  BY LenProperties, ElementOfSeq
<1>2. \A i \in 1 .. p : b[i] \in Chars
  BY <1>1
<1> DEFINE d == SubSeq(b, 1, p)
<1>3. /\ d \in Seq(Chars) /\ Len(d) = IF 1 <= p THEN p - 1 + 1 ELSE 0
      /\ \A i \in 1 .. p - 1 + 1 : d[i] = b[1 + i - 1]
  BY <1>1, <1>2, SubSeqProperties
<1> HIDE DEF d
<1>4. Len(d) = p /\ \A i \in 1 .. p : d[i] = b[i]
  BY <1>1, <1>3
<1> QED BY <1>1, <1>3, <1>4 DEF Begins, d

\* How much of a text is read at place p of the file.
ReadTo(b, p) == Len(Text(SubSeq(b, 1, p)))

LEMMA ReadToIs ==
  ASSUME NEW b \in Seq(Chars), Clean(b), Paired(b), NEW p \in 0 .. Len(b)
  PROVE  /\ ReadTo(b, p) \in Nat /\ ReadTo(b, p) <= Len(Text(b))
         /\ p = Len(b) => ReadTo(b, p) = Len(Text(b))
         /\ p = 0 => ReadTo(b, p) = 0
<1> DEFINE d == SubSeq(b, 1, p)
<1>1. d \in Seq(Chars) /\ Len(d) = p /\ Begins(d, b) /\ (\A i \in 1 .. p : d[i] = b[i])
  BY PrefixIs
<1>2. ReadTo(b, p) = Len(Text(d))
  BY DEF ReadTo
<1> HIDE DEF d
<1>3. Clean(d) /\ Paired(d) /\ Begins(Text(d), Text(b))
  BY <1>1, TextBegins
<1>4. Len(Text(d)) = Cardinality(Kept(d)) /\ Cardinality(Kept(d)) \in Nat
  BY <1>1, <1>3, TextPoint, PairedKept
<1>5. ASSUME p = Len(b) PROVE d = b
  BY <1>1, <1>5, SeqEqual
<1>6. ASSUME p = 0 PROVE Len(Text(d)) = 0
  <2>1. Kept(d) = {}
    BY <1>1, <1>6 DEF Kept
  <2> QED BY <1>4, <2>1, FS_EmptySet
<1> QED BY <1>2, <1>3, <1>4, <1>5, <1>6 DEF Begins

\* The character at place p, as it is read there.
LEMMA ReadNext ==
  ASSUME NEW b \in Seq(Chars), Clean(b), Paired(b), NEW p \in 0 .. Len(b), p < Len(b)
  PROVE  /\ b[p + 1] = LF => ReadTo(b, p + 1) = ReadTo(b, p)
         /\ b[p + 1] # LF => /\ ReadTo(b, p + 1) = ReadTo(b, p) + 1
                             /\ ReadTo(b, p) < Len(Text(b))
                             /\ Text(b)[ReadTo(b, p) + 1] = Shown(b[p + 1])
<1> DEFINE d == SubSeq(b, 1, p)
           e == SubSeq(b, 1, p + 1)
<1>1. Len(b) \in Nat /\ p \in Nat /\ p + 1 \in 0 .. Len(b) /\ p + 1 \in 1 .. p + 1
  BY LenProperties
<1>2. d \in Seq(Chars) /\ Len(d) = p /\ Begins(d, b) /\ (\A i \in 1 .. p : d[i] = b[i])
  BY PrefixIs
<1>3. e \in Seq(Chars) /\ Len(e) = p + 1 /\ Begins(e, b) /\ (\A i \in 1 .. p + 1 : e[i] = b[i])
  BY <1>1, PrefixIs
<1>4. ReadTo(b, p) = Len(Text(d)) /\ ReadTo(b, p + 1) = Len(Text(e))
  BY DEF ReadTo
<1> HIDE DEF d, e
<1>5. Clean(e) /\ Paired(e) /\ Begins(Text(e), Text(b))
  BY <1>3, TextBegins
<1>6. Begins(d, e)
  BY <1>1, <1>2, <1>3 DEF Begins
<1>7. /\ Len(Text(d)) \in Nat
      /\ e[p + 1] = LF => Text(e) = Text(d)
      /\ e[p + 1] # LF => /\ Len(Text(e)) = Len(Text(d)) + 1
                          /\ Text(e)[Len(Text(e))] = Shown(e[p + 1])
  BY <1>2, <1>3, <1>5, <1>6, TextNext
<1>8. e[p + 1] = b[p + 1]
  BY <1>1, <1>3
<1>9. ASSUME b[p + 1] # LF
      PROVE  Len(Text(d)) < Len(Text(b)) /\ Text(b)[Len(Text(d)) + 1] = Shown(b[p + 1])
  <2>1. Len(Text(e)) = Len(Text(d)) + 1 /\ Text(e)[Len(Text(e))] = Shown(b[p + 1])
    BY <1>7, <1>8, <1>9
  <2>2. Len(Text(e)) <= Len(Text(b)) /\ Len(Text(e)) \in 1 .. Len(Text(e)) /\ Len(Text(b)) \in Nat
    <3>1. Text(b) \in Seq(Chars)
      BY TextPoint
    <3>2. Len(Text(b)) \in Nat
      BY <3>1, LenProperties
    <3> QED BY <1>5, <1>7, <2>1, <3>2 DEF Begins
  <2>3. Text(b)[Len(Text(e))] = Text(e)[Len(Text(e))]
    BY <1>5, <2>2 DEF Begins
  <2> QED BY <1>7, <2>1, <2>2, <2>3
<1> QED BY <1>4, <1>7, <1>8, <1>9

\* A text in which there is nothing is empty.
LEMMA NothingRead ==
  ASSUME NEW b \in Seq(Chars), Clean(b), Paired(b), Len(Text(b)) = 0
  PROVE  Len(b) = 0
<1>1. Len(b) \in Nat
  BY LenProperties
<1>2. SUFFICES ASSUME Len(b) > 0 PROVE FALSE
  BY <1>1
<1>3. b[0 + 1] # LF /\ 0 \in 0 .. Len(b) /\ 0 < Len(b)
  BY <1>1, <1>2 DEF Paired
<1>4. ReadTo(b, 0) < Len(Text(b)) /\ ReadTo(b, 0) \in Nat
  BY <1>3, ReadNext, ReadToIs
<1> QED BY <1>4

-----------------------------------------------------------------------------
(* Sequences that grow at their end *)

LEMMA BeginsSelf ==
  ASSUME NEW b \in Seq(Chars)
  PROVE  Begins(b, b)
BY LenProperties DEF Begins

LEMMA BeginsOn ==
  ASSUME NEW a \in Seq(Chars), NEW b \in Seq(Chars), NEW c \in Seq(Chars), Begins(a, b), Begins(b, c)
  PROVE  Begins(a, c)
<1>1. Len(a) \in Nat /\ Len(b) \in Nat /\ Len(c) \in Nat
  BY LenProperties
<1> QED BY <1>1 DEF Begins

\* What is written behind the last character.
LEMMA Appended ==
  ASSUME NEW d \in Seq(Chars), NEW z \in Seq(Chars)
  PROVE  LET b == Overlay(d, Len(d), z) IN
         /\ b \in Seq(Chars) /\ Len(b) = Len(d) + Len(z) /\ Len(b) \in Nat /\ Begins(d, b)
         /\ \A i \in 1 .. Len(b) : b[i] = IF i <= Len(d) THEN d[i] ELSE z[i - Len(d)]
<1> DEFINE p == Len(d)
           n == Len(z)
           b == Overlay(d, p, z)
<1>1. p \in Nat /\ p <= Len(d) /\ p = Len(d) /\ n \in Nat /\ n = Len(z)
  BY LenProperties
<1> HIDE DEF p, n
<1>2. /\ b \in Seq(Chars) /\ Len(b) \in Nat
      /\ Len(b) = IF p + Len(z) > Len(d) THEN p + Len(z) ELSE Len(d)
      /\ \A i \in 1 .. Len(b) : b[i] = IF i \in p + 1 .. p + Len(z) THEN z[i - p] ELSE d[i]
  <2>1. p \in Nat /\ p <= Len(d)
    BY <1>1
  <2>2. LET o == Overlay(d, p, z) IN
        /\ o \in Seq(Chars) /\ Len(o) \in Nat
        /\ Len(o) = IF p + Len(z) > Len(d) THEN p + Len(z) ELSE Len(d)
        /\ \A i \in 1 .. Len(o) : o[i] = IF i \in p + 1 .. p + Len(z) THEN z[i - p] ELSE d[i]
    BY <2>1, OverlayIs
  <2> QED BY <2>2
<1> HIDE DEF b
<1>3. Len(b) = p + n
  BY <1>1, <1>2
<1>4. ASSUME NEW i \in 1 .. Len(b) PROVE b[i] = IF i <= p THEN d[i] ELSE z[i - p]
  <2>1. i <= p <=> i \notin p + 1 .. p + Len(z)
    BY <1>1, <1>3
  <2>2. b[i] = IF i \in p + 1 .. p + Len(z) THEN z[i - p] ELSE d[i]
    BY <1>2
  <2> QED BY <2>1, <2>2
<1>5. Begins(d, b)
  <2>1. ASSUME NEW i \in 1 .. Len(d) PROVE d[i] = b[i]
    <3>1. i \in 1 .. Len(b) /\ i <= p
      BY <1>1, <1>3
    <3> QED BY <1>4, <3>1
  <2> QED BY <1>1, <1>3, <2>1 DEF Begins
<1> QED BY <1>1, <1>2, <1>3, <1>4, <1>5 DEF b, p, n

\* One character behind the last.
LEMMA Added ==
  ASSUME NEW d \in Seq(Chars), NEW c \in Chars
  PROVE  LET b == Overlay(d, Len(d), <<c>>) IN
         /\ b \in Seq(Chars) /\ Len(b) = Len(d) + 1 /\ Begins(d, b) /\ b[Len(b)] = c
<1> DEFINE z == <<c>>
           b == Overlay(d, Len(d), z)
<1>1. z \in Seq(Chars) /\ Len(z) = 1 /\ z[1] = c /\ Len(d) \in Nat
  BY LenProperties
<1> HIDE DEF z
<1>2. /\ b \in Seq(Chars) /\ Len(b) = Len(d) + Len(z) /\ Len(b) \in Nat /\ Begins(d, b)
      /\ \A i \in 1 .. Len(b) : b[i] = IF i <= Len(d) THEN d[i] ELSE z[i - Len(d)]
  BY <1>1, Appended
<1> HIDE DEF b
<1>3. Len(b) \in 1 .. Len(b) /\ ~(Len(b) <= Len(d)) /\ Len(b) - Len(d) = 1
  BY <1>1, <1>2
<1>4. b[Len(b)] = c
  BY <1>1, <1>2, <1>3
<1> QED BY <1>1, <1>2, <1>4 DEF b, z

\* The beginning of what is to be written gives the beginning of the file.
LEMMA AppendedPart ==
  ASSUME NEW d \in Seq(Chars), NEW x \in Seq(Chars), NEW y \in Seq(Chars), Begins(x, y)
  PROVE  Begins(Overlay(d, Len(d), x), Overlay(d, Len(d), y))
<1> DEFINE m == Overlay(d, Len(d), x)
           w == Overlay(d, Len(d), y)
<1>1. /\ Len(m) = Len(d) + Len(x) /\ Len(m) \in Nat
      /\ \A i \in 1 .. Len(m) : m[i] = IF i <= Len(d) THEN d[i] ELSE x[i - Len(d)]
  BY Appended
<1>2. /\ Len(w) = Len(d) + Len(y) /\ Len(w) \in Nat
      /\ \A i \in 1 .. Len(w) : w[i] = IF i <= Len(d) THEN d[i] ELSE y[i - Len(d)]
  BY Appended
<1>3. Len(d) \in Nat /\ Len(x) \in Nat /\ Len(y) \in Nat /\ Len(x) <= Len(y)
  BY LenProperties DEF Begins
<1> HIDE DEF m, w
<1>4. ASSUME NEW i \in 1 .. Len(m) PROVE i \in 1 .. Len(w) /\ m[i] = w[i]
  <2>1. i \in 1 .. Len(w)
    BY <1>1, <1>2, <1>3
  <2>2. CASE i <= Len(d)
    BY <1>1, <1>2, <2>1, <2>2
  <2>3. CASE ~(i <= Len(d))
    <3>1. i - Len(d) \in 1 .. Len(x)
      BY <1>1, <1>3, <2>3
    <3>2. x[i - Len(d)] = y[i - Len(d)]
      BY <3>1 DEF Begins
    <3> QED BY <1>1, <1>2, <2>1, <2>3, <3>2
  <2> QED BY <2>1, <2>2, <2>3
<1>5. Len(m) <= Len(w)
  BY <1>1, <1>2, <1>3
<1> QED BY <1>4, <1>5 DEF m, w, Begins

LEMMA AddedIs ==
  ASSUME NEW b \in Seq(Chars), NEW d \in Seq(Chars), NEW c \in Chars,
         Len(b) = Len(d) + 1, Begins(d, b), b[Len(b)] = c
  PROVE  b = Overlay(d, Len(d), <<c>>)
<1> DEFINE e == Overlay(d, Len(d), <<c>>)
<1>1. e \in Seq(Chars) /\ Len(e) = Len(d) + 1 /\ Begins(d, e) /\ e[Len(e)] = c
  BY Added
<1>2. Len(d) \in Nat
  BY LenProperties
<1> HIDE DEF e
<1>3. ASSUME NEW i \in 1 .. Len(b) PROVE b[i] = e[i]
  <2>1. i \in 1 .. Len(d) \/ i = Len(b)
    BY <1>2
  <2> QED BY <1>1, <2>1 DEF Begins
<1>4. b = e
  BY <1>1, <1>3, SeqEqual
<1> QED BY <1>4 DEF e

LEMMA PairedAdded ==
  ASSUME NEW b \in Seq(Chars), NEW d \in Seq(Chars), Len(b) = Len(d) + 1, Begins(d, b), Paired(d),
         b[Len(b)] # LF \/ (Len(d) > 0 /\ d[Len(d)] = CR)
  PROVE  Paired(b)
<1>1. Len(d) \in Nat
  BY LenProperties
<1> SUFFICES ASSUME NEW i \in 1 .. Len(b), b[i] = LF PROVE i > 1 /\ b[i - 1] = CR
  BY DEF Paired
<1>2. CASE i \in 1 .. Len(d)
  <2>1. d[i] = LF
    BY <1>2 DEF Begins
  <2>2. i > 1 /\ d[i - 1] = CR
    BY <1>2, <2>1 DEF Paired
  <2>3. i - 1 \in 1 .. Len(d)
    BY <1>1, <1>2, <2>2
  <2> QED BY <2>2, <2>3 DEF Begins
<1>3. CASE i = Len(b)
  <2>1. Len(d) > 0 /\ d[Len(d)] = CR
    BY <1>3
  <2>2. i - 1 = Len(d) /\ i > 1 /\ Len(d) \in 1 .. Len(d)
    BY <1>1, <1>3, <2>1
  <2> QED BY <2>1, <2>2 DEF Begins
<1>4. i \in 1 .. Len(d) \/ i = Len(b)
  BY <1>1
<1> QED BY <1>2, <1>3, <1>4

\* And what it adds to the text.
LEMMA TextAdded ==
  ASSUME NEW b \in Seq(Chars), Clean(b), Paired(b), NEW d \in Seq(Chars), Begins(d, b),
         Len(b) = Len(d) + 1, b[Len(b)] # LF
  PROVE  /\ Shown(b[Len(b)]) \in Chars
         /\ Text(b) = Overlay(Text(d), Len(Text(d)), <<Shown(b[Len(b)])>>)
         /\ Len(Text(b)) = Len(Text(d)) + 1
<1>1. /\ Text(d) \in Seq(Chars) /\ Text(b) \in Seq(Chars)
      /\ Len(Text(b)) = Len(Text(d)) + 1 /\ Text(b)[Len(Text(b))] = Shown(b[Len(b)])
  BY TextNext
<1>2. Begins(Text(d), Text(b))
  BY TextBegins
<1>3. Shown(b[Len(b)]) \in Chars
  <2>1. Len(b) \in 1 .. Len(b)
    <3>1. Len(d) \in Nat
      BY LenProperties
    <3> QED BY <3>1
  <2>2. b[Len(b)] \in Chars
    BY <2>1, ElementOfSeq
  <2> QED BY <2>2, Sizes DEF Shown
<1> QED BY <1>1, <1>2, <1>3, AddedIs

-----------------------------------------------------------------------------
(* The state of a text stream *)

\* Each LF stands behind its CR, the one that is met next is skipped, and the
\* stream is at an end of its text unless it reads, and writes at the last.
Lines(s) ==
  /\ Paired(All(s))
  /\ Place(s) < Len(All(s)) /\ All(s)[Place(s) + 1] = LF => s.in = TRUE /\ s.skip = TRUE
  /\ s.in = TRUE \/ Place(s) \in {0, Len(All(s))}
  /\ s.out = TRUE => s.pos = Len(s.bytes)

LEMMA LinesMoved ==
  ASSUME NEW s, Lines(s), NEW t, All(t) = All(s), Place(t) = Place(s), t.in = TRUE, t.out = FALSE,
         t.skip = s.skip
  PROVE  Lines(t)
BY DEF Lines

\* At its end, or its beginning, no LF is met.
LEMMA LinesRest ==
  ASSUME NEW s, Shaped(s), s.in = FALSE, s.out = FALSE, Paired(s.bytes), s.pos \in {0, Len(s.bytes)}
  PROVE  Lines(s)
<1>1. s.pos \in Nat /\ Len(s.bytes) \in Nat
  BY Fields DEF Shaped
<1>2. All(s) = s.bytes /\ Place(s) = s.pos
  BY DEF All, Place
<1>3. ~(s.pos < Len(s.bytes) /\ s.bytes[s.pos + 1] = LF)
  <2> SUFFICES ASSUME s.pos < Len(s.bytes), s.bytes[s.pos + 1] = LF PROVE FALSE
    OBVIOUS
  <2>1. s.pos = 0 /\ 1 \in 1 .. Len(s.bytes)
    BY <1>1
  <2> QED BY <2>1 DEF Paired
<1> QED BY <1>2, <1>3 DEF Lines

-----------------------------------------------------------------------------
(* Reading a text *)

\* _readbuf leaves the client where it was, with a character if there is one.
LEMMA ReadbufText ==
  ASSUME NEW s, Seen(s), Lines(s), mode \in Modes, mode.read, ~mode.bin,
         NEW k \in Taken(s), ~FlushFails(s, k), ~Cuts(s, k)
  PROVE  LET r == _readbuf(s, k) IN
         /\ Seen(r.s) /\ Lines(r.s) /\ r.s.in = TRUE /\ r.s.skip = s.skip /\ r.s.err = s.err
         /\ All(r.s) = All(s) /\ Place(r.s) = Place(s)
         /\ r.s.bytes = s.bytes \/ r.s.bytes = All(s)
         /\ r.ok \in BOOLEAN /\ (r.ok => r.s.level > 0) /\ (~r.ok => Place(s) = Len(All(s)))
<1>1. Shaped(s) /\ s.in \in BOOLEAN /\ k \in 0 .. s.level
  BY Fields, TakenIs DEF Seen, Shaped
<1>2. CASE s.in /\ s.level > 0
  <2>1. _readbuf(s, k) = [s |-> s, ok |-> TRUE]
    BY <1>2, ReadbufIs
  <2> QED BY <1>1, <1>2, <2>1
<1>3. CASE ~(s.in /\ s.level > 0)
  <2> DEFINE b == Begun(s, k)
             f == Filled(b)
             ok == f.level > 0 /\ ~EndsText(f)
  <2>1. _readbuf(s, k) = [s |-> f, ok |-> ok]
    BY <1>3, ReadbufIs
  <2>2. /\ Seen(f) /\ f.in = TRUE /\ f.out = FALSE /\ f.level \in Nat
        /\ f.bytes = All(s) /\ All(f) = All(s) /\ Place(f) = Place(s) /\ f.err = s.err
        /\ f.level = 0 => Place(s) = Len(All(s))
    BY <1>3, RefillView
  <2>3. b \in StType /\ b.pos <= Len(b.bytes) /\ b.in /\ ~b.out /\ b.skip = s.skip
    BY <1>1, BegunIs
  <2> HIDE DEF b
  <2>4. f.skip = s.skip /\ f.curp = 0
    BY <2>3, FilledIs
  <2> HIDE DEF f
  <2>5. ASSUME f.level > 0 PROVE ~EndsText(f)
    <3>1. /\ Shaped(f) /\ Window(f) /\ NulFree(f) /\ f.pos \in Nat /\ f.level <= f.pos
          /\ f.pos <= Len(f.bytes) /\ Len(f.bytes) \in Nat
      BY <2>2, Fields DEF Seen, Shaped
    <3>2. f.level \in 1 .. f.level /\ f.curp + f.level = f.level /\ f.pos - f.level + f.level = f.pos
          /\ f.pos \in 1 .. Len(f.bytes)
      BY <2>2, <2>4, <2>5, <3>1
    <3>3. f.buffer[f.level] = f.bytes[f.pos]
      BY <2>2, <3>1, <3>2 DEF Window
    <3>4. f.bytes[f.pos] # NUL
      BY <3>1, <3>2 DEF NulFree, Clean
    <3> QED BY <3>3, <3>4 DEF EndsText
  <2>6. Lines(f)
    BY <2>2, <2>4, LinesMoved
  <2>7. ok \in BOOLEAN /\ (ok <=> f.level > 0)
    BY <2>5
  <2> HIDE DEF ok
  <2>8. (ok => f.level > 0) /\ (~ok => Place(s) = Len(All(s)))
    BY <2>2, <2>7
  <2> QED BY <2>1, <2>2, <2>4, <2>6, <2>7, <2>8
<1> QED BY <1>2, <1>3

\* _basegetc once the LF of the last line is behind it.
Taking(r) ==
  IF ~r.ok THEN [s |-> r.s, c |-> EOF]
  ELSE IF mode.bin \/ Current(r.s) \notin {CR, NUL} THEN [s |-> Next1(r.s), c |-> Current(r.s)]
  ELSE IF Current(r.s) = CR THEN [s |-> [Next1(r.s) EXCEPT !.skip = TRUE], c |-> LF]
  ELSE [s |-> [r.s EXCEPT !.level = @ - 1], c |-> EOF]

\* What is got at place q of a text, and where that leaves the client.
GotAt(s, q, t, c) ==
  /\ Lines(t) /\ All(t) = All(s) /\ t.err = s.err
  /\ t.bytes = s.bytes \/ t.bytes = All(s)
  /\ \/ q = Len(All(s)) /\ c = EOF /\ Place(t) = q
     \/ /\ q < Len(All(s)) /\ All(s)[q + 1] # LF
        /\ c = Shown(All(s)[q + 1]) /\ Place(t) = q + 1

LEMMA TakeText ==
  ASSUME NEW s, Seen(s), Lines(s), mode \in Modes, ~mode.bin,
         s.in = TRUE, s.level > 0, All(s)[Place(s) + 1] # LF,
         NEW r, r.s = s, r.ok = TRUE
  PROVE  GotAt(s, Place(s), Taking(r).s, Taking(r).c)
<1> DEFINE n == Next1(s)
           c == Current(s)
           p == Place(s)
           b == All(s)
<1>1. /\ All(n) = b /\ Place(n) = p + 1 /\ p < Len(b) /\ c = b[p + 1] /\ n.bytes = s.bytes
      /\ n.err = s.err
  BY TakenView
<1>2. Seen(n) /\ c # NUL
  BY TakenSeen
<1>3. n.in = TRUE /\ n.out = FALSE
  <2>1. n.in = s.in /\ ~n.out /\ Shaped(n)
    BY TakenShaped DEF Seen
  <2> HIDE DEF n
  <2> QED BY <2>1, Fields DEF Shaped
<1>4. b \in Seq(Chars) /\ p \in Nat /\ Len(b) \in Nat /\ Paired(b)
  BY PlaceIs DEF Seen, Lines
<1>5. Taking(r) = IF c # CR THEN [s |-> n, c |-> c] ELSE [s |-> [n EXCEPT !.skip = TRUE], c |-> LF]
  BY <1>2 DEF Taking
<1>6. b[p + 1] # LF
  OBVIOUS
<1> HIDE DEF n, c, p, b
<1>7. p + 1 < Len(b) /\ b[p + 1 + 1] = LF => c = CR
  <2> SUFFICES ASSUME p + 1 < Len(b), b[p + 1 + 1] = LF PROVE c = CR
    OBVIOUS
  <2>1. p + 1 + 1 \in 1 .. Len(b) /\ p + 1 + 1 - 1 = p + 1
    BY <1>4
  <2> QED BY <1>1, <1>4, <2>1 DEF Paired
<1>8. CASE c # CR
  <2>1. Lines(n)
    BY <1>1, <1>3, <1>4, <1>7, <1>8 DEF Lines
  <2>2. Taking(r).s = n /\ Taking(r).c = Shown(b[p + 1])
    BY <1>1, <1>5, <1>8 DEF Shown
  <2> QED BY <1>1, <1>6, <2>1, <2>2 DEF GotAt, p, b
<1>9. CASE c = CR
  <2> DEFINE t == [n EXCEPT !.skip = TRUE]
             v == TRUE
  <2>1. t = [n EXCEPT !.skip = v] /\ v \in BOOLEAN /\ Shaped(n)
    BY <1>2 DEF Seen
  <2> HIDE DEF t
  <2>2. /\ t.in = n.in /\ t.out = n.out /\ t.bytes = n.bytes /\ t.pos = n.pos
        /\ t.level = n.level /\ t.curp = n.curp /\ t.buffer = n.buffer
        /\ t.err = n.err /\ t.skip = v
    <3> HIDE DEF v
    <3> QED BY <2>1, SkipShaped
  <2>3. All(t) = b /\ Place(t) = p + 1
    BY <1>1, <2>2 DEF All, Place
  <2>4. Lines(t)
    BY <1>3, <1>4, <2>2, <2>3 DEF Lines, v
  <2>5. Taking(r).s = t /\ Taking(r).c = Shown(b[p + 1])
    BY <1>1, <1>5, <1>9 DEF Shown, t
  <2> QED BY <1>1, <1>6, <2>2, <2>3, <2>4, <2>5 DEF GotAt, p, b
<1> QED BY <1>8, <1>9

\* At the end of the text nothing is got.
LEMMA TakeNone ==
  ASSUME NEW s, Lines(s), NEW r, r.s = s, r.ok = FALSE, Place(s) = Len(All(s))
  PROVE  GotAt(s, Place(s), Taking(r).s, Taking(r).c)
<1>1. Taking(r) = [s |-> s, c |-> EOF]
  BY DEF Taking
<1> QED BY <1>1 DEF GotAt

\* A character of a text is got at the client's place, or behind the LF there.
LEMMA GetText ==
  ASSUME NEW s, Seen(s), Lines(s), mode \in Modes, mode.read, ~mode.bin,
         NEW k \in Taken(s), ~FlushFails(s, k), ~Cuts(s, k)
  PROVE  LET g == _basegetc(s, k) IN
         \/ GotAt(s, Place(s), g.s, g.c)
         \/ /\ Place(s) < Len(All(s)) /\ All(s)[Place(s) + 1] = LF
            /\ GotAt(s, Place(s) + 1, g.s, g.c)
<1> DEFINE first == _readbuf(s, k)
           x == first.s
           n1 == Next1(x)
           past == [n1 EXCEPT !.skip = FALSE]
           skips == first.ok /\ ~mode.bin /\ Current(x) = LF /\ x.skip
           b == All(s)
           p == Place(s)
<1>1. /\ Seen(x) /\ Lines(x) /\ x.in = TRUE /\ x.skip = s.skip /\ x.err = s.err
      /\ All(x) = b /\ Place(x) = p
      /\ x.bytes = s.bytes \/ x.bytes = b
      /\ first.ok \in BOOLEAN /\ (first.ok => x.level > 0) /\ (~first.ok => p = Len(b))
  BY ReadbufText
<1>2. _basegetc(s, k) = Taking(IF skips THEN _readbuf(past, 0) ELSE first)
  BY DEF _basegetc, Taking
<1>3. b \in Seq(Chars) /\ p \in Nat /\ Len(b) \in Nat /\ Paired(b) /\ p <= Len(b)
  BY PlaceIs DEF Seen, Lines
<1>4. ASSUME NEW q, NEW t, NEW c, GotAt(x, q, t, c) PROVE GotAt(s, q, t, c)
  <2> HIDE DEF x
  <2> QED BY <1>1, <1>4 DEF GotAt
<1> HIDE DEF first, b, p
<1>5. CASE ~first.ok
  <2>1. first.ok = FALSE /\ Place(x) = Len(All(x)) /\ first.s = x
    BY <1>1, <1>5
  <2>2. GotAt(x, Place(x), Taking(first).s, Taking(first).c)
    <3> HIDE DEF x
    <3> QED BY <1>1, <2>1, TakeNone
  <2>3. _basegetc(s, k) = Taking(first)
    BY <1>2, <1>5
  <2> QED BY <1>1, <1>4, <2>2, <2>3 DEF p
<1>6. CASE first.ok /\ b[p + 1] # LF
  <2>1. first.ok = TRUE /\ first.s = x /\ x.level > 0 /\ All(x)[Place(x) + 1] # LF
    BY <1>1, <1>6
  <2>2. Current(x) = b[p + 1]
    <3> HIDE DEF x
    <3> QED BY <1>1, <2>1, TakenView
  <2>3. _basegetc(s, k) = Taking(first)
    BY <1>2, <1>6, <2>2
  <2>4. GotAt(x, Place(x), Taking(first).s, Taking(first).c)
    <3> HIDE DEF x
    <3> QED BY <1>1, <2>1, TakeText
  <2> QED BY <1>1, <1>4, <2>3, <2>4 DEF p
<1>7. CASE first.ok /\ b[p + 1] = LF
  <2>1. x.level > 0
    BY <1>1, <1>7
  <2>2. /\ All(n1) = b /\ Place(n1) = p + 1 /\ p < Len(b) /\ Current(x) = LF
        /\ n1.bytes = x.bytes /\ n1.err = x.err
    <3> HIDE DEF x
    <3> QED BY <1>1, <1>7, <2>1, TakenView
  <2>3. x.skip = TRUE
    BY <1>1, <1>7, <2>2 DEF Lines
  <2>4. skips
    BY <1>7, <2>2, <2>3
  <2>5. Seen(n1) /\ n1.in = TRUE /\ n1.out = FALSE /\ Shaped(n1)
    <3>1. Seen(n1)
      BY <1>1, <2>1, TakenSeen
    <3>2. n1.in = x.in /\ ~n1.out
      BY <1>1, <2>1, TakenShaped DEF Seen
    <3> HIDE DEF n1
    <3> QED BY <1>1, <3>1, <3>2, Fields DEF Seen, Shaped
  <2> HIDE DEF n1
  <2> DEFINE v == FALSE
  <2>6. past = [n1 EXCEPT !.skip = v] /\ v \in BOOLEAN
    OBVIOUS
  <2> HIDE DEF past, v
  <2>7. /\ Seen(past) /\ past.in = n1.in /\ past.out = n1.out /\ past.bytes = n1.bytes
        /\ past.pos = n1.pos /\ past.level = n1.level /\ past.buffer = n1.buffer
        /\ past.err = n1.err
    <3>1. Seen([n1 EXCEPT !.skip = v])
      BY <2>5, <2>6, SkipSeen
    <3>2. LET t == [n1 EXCEPT !.skip = v] IN
          /\ t.in = n1.in /\ t.out = n1.out /\ t.bytes = n1.bytes
          /\ t.pos = n1.pos /\ t.level = n1.level /\ t.buffer = n1.buffer /\ t.err = n1.err
      BY <2>5, <2>6, SkipShaped
    <3> QED BY <2>6, <3>1, <3>2
  <2>8. All(past) = b /\ Place(past) = p + 1
    BY <2>2, <2>7 DEF All, Place
  \* Behind this LF there is no other.
  <2>9. ~(p + 1 < Len(b) /\ b[p + 1 + 1] = LF)
    <3> SUFFICES ASSUME p + 1 < Len(b), b[p + 1 + 1] = LF PROVE FALSE
      OBVIOUS
    <3>1. p + 1 + 1 \in 1 .. Len(b) /\ p + 1 + 1 - 1 = p + 1
      BY <1>3
    <3>2. b[p + 1] = CR
      BY <1>3, <3>1 DEF Paired
    <3> QED BY <1>7, <3>2 DEF CR, LF
  <2>10. Lines(past)
    BY <1>3, <2>5, <2>7, <2>8, <2>9 DEF Lines
  <2>11. 0 \in Taken(past) /\ ~FlushFails(past, 0) /\ ~Cuts(past, 0)
    BY <2>5, <2>7 DEF Taken, FlushFails, Cuts
  <2> DEFINE q == _readbuf(past, 0)
             y == q.s
  <2>12. /\ Seen(y) /\ Lines(y) /\ y.in = TRUE /\ y.err = past.err
         /\ All(y) = b /\ Place(y) = p + 1
         /\ y.bytes = past.bytes \/ y.bytes = b
         /\ q.ok \in BOOLEAN /\ (q.ok => y.level > 0) /\ (~q.ok => p + 1 = Len(b))
    <3>1. LET r == _readbuf(past, 0) IN
         /\ Seen(r.s) /\ Lines(r.s) /\ r.s.in = TRUE /\ r.s.skip = past.skip /\ r.s.err = past.err
         /\ All(r.s) = All(past) /\ Place(r.s) = Place(past)
         /\ r.s.bytes = past.bytes \/ r.s.bytes = All(past)
         /\ r.ok \in BOOLEAN /\ (r.ok => r.s.level > 0) /\ (~r.ok => Place(past) = Len(All(past)))
      BY <2>7, <2>10, <2>11, ReadbufText
    <3> QED BY <2>8, <3>1
  <2>13. _basegetc(s, k) = Taking(q)
    BY <1>2, <2>4
  <2> HIDE DEF q
  <2>14. ASSUME NEW t, NEW c, GotAt(y, p + 1, t, c) PROVE GotAt(s, p + 1, t, c)
    <3>1. y.err = s.err /\ (y.bytes = s.bytes \/ y.bytes = All(s)) /\ All(y) = All(s)
      BY <1>1, <2>2, <2>7, <2>12 DEF b
    <3> HIDE DEF y
    <3> QED BY <2>14, <3>1 DEF GotAt
  <2>15. GotAt(y, Place(y), Taking(q).s, Taking(q).c)
    <3>1. CASE q.ok = FALSE
      <4>1. q.s = y /\ Place(y) = Len(All(y))
        BY <2>12, <3>1
      <4> HIDE DEF y
      <4> QED BY <2>12, <3>1, <4>1, TakeNone
    <3>2. CASE q.ok = TRUE
      <4>0. Len(b) \in Nat /\ p + 1 <= Len(b)
        BY <1>3, <2>2
      <4>1. q.s = y /\ y.level > 0
        BY <2>12, <3>2
      <4>2. Place(y) < Len(All(y))
        <5> HIDE DEF y
        <5> QED BY <2>12, <4>1, TakenView
      <4>3. All(y)[Place(y) + 1] # LF
        BY <2>9, <2>12, <4>2
      <4> HIDE DEF y
      <4> QED BY <2>12, <3>2, <4>1, <4>3, TakeText
    <3> QED BY <2>12, <3>1, <3>2
  <2>16. GotAt(s, p + 1, Taking(q).s, Taking(q).c)
    BY <2>12, <2>14, <2>15
  <2> QED BY <1>7, <2>2, <2>13, <2>16 DEF b, p
<1> QED BY <1>1, <1>5, <1>6, <1>7

-----------------------------------------------------------------------------
(* Writing a text *)

\* What is at the end of a text, and writes there or rests.
AtEnd(s) == s.in = FALSE /\ Place(s) = Len(All(s))

\* An LF may only follow a CR.
Follows(b, c) == c # LF \/ (Len(b) > 0 /\ b[Len(b)] = CR)

\* r is s with one more character in its text.
PutBehind(s, c, r) ==
  /\ Seen(r) /\ Lines(r) /\ AtEnd(r) /\ r.out = TRUE /\ r.err = s.err
  /\ r.bytes = s.bytes \/ r.bytes = All(s)
  /\ Begins(All(s), All(r)) /\ Len(All(r)) = Len(All(s)) + 1 /\ All(r)[Len(All(r))] = c
  /\ Clean(All(r)) /\ Paired(All(r)) /\ All(r) \in Seq(Chars)

\* Behind the last character another is put, and the text is paired again.
LEMMA PutText ==
  ASSUME NEW s, Seen(s), Lines(s), AtEnd(s), mode \in Modes, ~mode.bin,
         NEW c \in Chars, c # NUL, NEW k \in Taken(s), ~PutFails(s, k), Follows(All(s), c), ~PutCuts(s, k)
  PROVE  PutBehind(s, c, _baseputc(s, c, k))
<1> DEFINE r == _baseputc(s, c, k)
           b == All(r)
           d == All(s)
<1>1. Shaped(s) /\ k \in 0 .. s.level
  BY TakenIs DEF Seen, Shaped
<1>2. /\ r.in = FALSE /\ r.out = TRUE /\ r.err = s.err
      /\ b = Overlay(d, Place(s), <<c>>) /\ Place(r) = Place(s) + 1
      /\ r.bytes = s.bytes \/ r.bytes = d
      /\ r.pos = Place(s) \/ (s.out /\ r.bytes = s.bytes /\ r.pos = s.pos)
  BY <1>1, PutView DEF AtEnd
<1>3. Seen(r)
  BY <1>1, PutSeen
<1> HIDE DEF r
<1>4. Clean(b)
  BY <1>3, CleanAll
<1>5. d \in Seq(Chars) /\ Len(d) \in Nat /\ Paired(d) /\ Place(s) = Len(d)
  BY <1>1, PlaceIs DEF Lines, AtEnd
<1>6. b \in Seq(Chars) /\ Len(b) = Len(d) + 1 /\ Begins(d, b) /\ b[Len(b)] = c
  <2>1. b = Overlay(d, Len(d), <<c>>)
    BY <1>2, <1>5
  <2> HIDE DEF b, d
  <2> QED BY <1>5, <2>1, Added
<1>7. Paired(b)
  <2>1. b[Len(b)] # LF \/ (Len(d) > 0 /\ d[Len(d)] = CR)
    BY <1>6 DEF Follows
  <2> HIDE DEF b, d
  <2> QED BY <1>5, <1>6, <2>1, PairedAdded
<1>8. r.pos = Len(r.bytes)
  <2>1. CASE s.out /\ r.bytes = s.bytes /\ r.pos = s.pos
    <3>1. s.out = TRUE
      BY <1>1, <2>1, Fields DEF Shaped
    <3> QED BY <2>1, <3>1 DEF Lines
  <2>2. CASE r.pos = Place(s)
    <3>1. CASE r.bytes = d
      BY <1>5, <2>2, <3>1
    <3>2. CASE r.bytes = s.bytes
      <4>1. r.pos <= Len(r.bytes) /\ Len(s.bytes) \in Nat /\ s.bytes \in Seq(Chars)
        BY <1>1, <1>3, Fields DEF Seen, Shaped
      <4>2. Len(s.bytes) <= Len(d)
        <5>1. CASE ~s.out
          BY <4>1, <5>1 DEF All
        <5>2. CASE s.out
          <6>1. s.level \in 0 .. BUFSIZ /\ s.buffer \in [1 .. BUFSIZ -> Chars] /\ s.pos \in Nat
                /\ s.pos <= Len(s.bytes)
            BY <1>1, Fields DEF Shaped
          <6> DEFINE z == SubSeq(s.buffer, 1, s.level)
          <6>2. z \in Seq(Chars)
            BY <6>1, BufferPart
          <6>3. Len(z) \in Nat
            BY <6>2, LenProperties
          <6>4. d = Overlay(s.bytes, s.pos, z)
            BY <5>2 DEF All
          <6> HIDE DEF z, d
          <6>5. LET o == Overlay(s.bytes, s.pos, z) IN
                Len(o) = IF s.pos + Len(z) > Len(s.bytes) THEN s.pos + Len(z) ELSE Len(s.bytes)
            BY <4>1, <6>1, <6>2, OverlayIs
          <6> QED BY <4>1, <6>1, <6>3, <6>4, <6>5
        <5> QED BY <5>1, <5>2
      <4> QED BY <1>5, <2>2, <3>2, <4>1, <4>2
    <3> QED BY <1>2, <3>1, <3>2
  <2> QED BY <1>2, <2>1, <2>2
<1>9. Place(r) = Len(b)
  BY <1>2, <1>5, <1>6
<1>10. Lines(r)
  <2>1. Len(b) \in Nat
    BY <1>5, <1>6
  <2> HIDE DEF r
  <2>2. ~(Place(r) < Len(All(r)))
    BY <1>9, <2>1
  <2> QED BY <1>7, <1>8, <1>9, <2>2 DEF Lines
<1>11. AtEnd(r)
  BY <1>2, <1>9 DEF AtEnd
<1> QED BY <1>2, <1>3, <1>4, <1>6, <1>7, <1>10, <1>11 DEF r, PutBehind

\* What a flush that failed leaves: the file with some of what was put.
LEMMA LeftText ==
  ASSUME NEW s, Seen(s), Lines(s), s.out = TRUE, mode \in Modes, ~mode.bin,
         NEW k \in 0 .. s.level
  PROVE  LET f == Flushed(s, k) IN
         /\ Seen(f) /\ f.in = FALSE /\ f.out = FALSE
         /\ f.bytes \in Seq(Chars) /\ f.pos = Len(f.bytes)
         /\ s.bytes \in Seq(Chars) /\ Begins(s.bytes, f.bytes) /\ Begins(f.bytes, All(s))
         /\ Paired(f.bytes) /\ Lines(f)
<1> DEFINE f == Flushed(s, k)
           x == SubSeq(s.buffer, 1, k)
           y == SubSeq(s.buffer, 1, s.level)
           a == s.bytes
           b == All(s)
<1>1. /\ Shaped(s) /\ a \in Seq(Chars) /\ s.pos = Len(a) /\ s.level \in Nat
      /\ s.level \in 0 .. BUFSIZ /\ s.buffer \in [1 .. BUFSIZ -> Chars]
  <2>1. Shaped(s) /\ s.pos = Len(a)
    BY DEF Seen, Lines
  <2>2. s \in StType
    BY <2>1 DEF Shaped
  <2> QED BY <2>1, <2>2, Fields
<1>2. f.bytes = Overlay(a, Len(a), x) /\ f.pos = Len(a) + k
  <2>1. /\ f.bytes = (IF s.out THEN Overlay(s.bytes, s.pos, x) ELSE s.bytes)
        /\ f.pos = (IF s.out THEN s.pos + k ELSE IF s.in THEN 0 ELSE s.pos)
    BY <1>1, FlushedIs
  <2> QED BY <1>1, <2>1
<1>3. Seen(f) /\ f.in = FALSE /\ f.out = FALSE /\ Shaped(f)
  BY <1>1, FlushSeen DEF Seen
<1>4. k \in 0 .. BUFSIZ /\ k \in Nat /\ k <= s.level
  BY <1>1, Sizes
<1>5. x \in Seq(Chars) /\ Len(x) = k /\ \A i \in 1 .. k : x[i] = s.buffer[i]
  BY <1>1, <1>4, BufferPart
<1>6. y \in Seq(Chars) /\ Len(y) = s.level /\ \A i \in 1 .. s.level : y[i] = s.buffer[i]
  BY <1>1, BufferPart
<1>7. b = Overlay(a, Len(a), y)
  BY <1>1 DEF All
<1> HIDE DEF x, y, f, a, b
<1>8. Begins(x, y)
  BY <1>4, <1>5, <1>6 DEF Begins
<1>9. /\ f.bytes \in Seq(Chars) /\ f.pos = Len(f.bytes)
      /\ Begins(a, f.bytes) /\ Begins(f.bytes, b) /\ b \in Seq(Chars)
  <2> DEFINE m == Overlay(a, Len(a), x)
             w == Overlay(a, Len(a), y)
  <2>1. m \in Seq(Chars) /\ Len(m) = Len(a) + Len(x) /\ Begins(a, m)
    BY <1>1, <1>5, Appended
  <2>2. Begins(m, w) /\ w \in Seq(Chars)
    BY <1>1, <1>5, <1>6, <1>8, Appended, AppendedPart
  <2> HIDE DEF m, w
  <2>3. f.bytes = m /\ b = w /\ f.pos = Len(a) + k
    BY <1>2, <1>7 DEF m, w
  <2> QED BY <1>5, <2>1, <2>2, <2>3
<1>10. Paired(f.bytes)
  <2>1. Clean(b) /\ Paired(b)
    BY CleanAll DEF Lines, b
  <2> QED BY <1>9, <2>1, TextBegins
<1>11. Lines(f)
  BY <1>3, <1>9, <1>10, LinesRest
<1> QED BY <1>1, <1>3, <1>9, <1>10, <1>11 DEF f, a, b

-----------------------------------------------------------------------------
(* The steps of a text stream *)

LEMMA TextView ==
  ASSUME ~mode.bin
  PROVE  Contents = Text(All(st)) /\ Reading(st.bytes) = Text(st.bytes) /\ At = ReadTo(All(st), Place(st))
BY DEF Contents, Reading, At, ReadTo

LEMMA TextViewNext ==
  ASSUME ~mode'.bin
  PROVE  /\ Contents' = Text(All(st')) /\ Reading(st.bytes)' = Text(st'.bytes)
         /\ At' = ReadTo(All(st'), Place(st'))
<1>1. All(st)' = All(st') /\ Place(st)' = Place(st')
  BY DEF All, Place, Overlay
<1>2. At' = ReadTo(All(st)', Place(st)')
  BY DEF At, Reading, ReadTo, Text
<1>3. Contents' = Text(All(st)') /\ Reading(st.bytes)' = Text(st'.bytes)
  BY DEF Contents, Reading, Text
<1> QED BY <1>1, <1>2, <1>3

\* What a client of a text sees, in which every LF stands behind a CR.
LEMMA TextState ==
  ASSUME NEW s, Seen(s), Lines(s), mode \in Modes, ~mode.bin
  PROVE  LET b == All(s)
             p == Place(s)
             n == ReadTo(b, p)
         IN  /\ b \in Seq(Chars) /\ Clean(b) /\ Paired(b) /\ p \in 0 .. Len(b) /\ Len(b) \in Nat
             /\ Text(b) \in Seq(Chars) /\ Len(Text(b)) \in Nat
             /\ n \in Nat /\ n <= Len(Text(b))
<1> DEFINE b == All(s)
           p == Place(s)
<1>1. b \in Seq(Chars) /\ p \in 0 .. Len(b) /\ Len(b) \in Nat
  <2>1. Place(s) \in Nat /\ Place(s) <= Len(All(s)) /\ Len(All(s)) \in Nat /\ All(s) \in Seq(Chars)
    BY PlaceIs DEF Seen
  <2> QED BY <2>1
<1>2. Clean(b) /\ Paired(b)
  BY CleanAll DEF Lines
<1> HIDE DEF b, p
<1>3. Text(b) \in Seq(Chars)
  BY <1>1, <1>2, TextPoint
<1>4. Len(Text(b)) \in Nat
  BY <1>3, LenProperties
<1>5. ReadTo(b, p) \in Nat /\ ReadTo(b, p) <= Len(Text(b))
  BY <1>1, <1>2, ReadToIs
<1> QED BY <1>1, <1>2, <1>3, <1>4, <1>5 DEF b, p

LEMMA TextLost ==
  ASSUME Seen(st), Seen(st'), ~mode.bin, ~mode'.bin, mode \in Modes,
         NEW big \in Seq(Chars), Clean(big), Paired(big),
         Begins(st.bytes, st'.bytes), Begins(st'.bytes, big), Idle(st'), st'.err = TRUE,
         ret' \in Chars \cup {0, EOF},
         Text(big) = Contents \/ \E c \in Chars : Text(big) = Overlay(Contents, At, <<c>>)
  PROVE  B!Step
<1> DEFINE a == st.bytes
           m == st'.bytes
           p == st'.pos
<1>1. a \in Seq(Chars) /\ m \in Seq(Chars) /\ p \in 0 .. Len(m)
  <2>1. /\ st.bytes \in Seq(Chars) /\ st'.bytes \in Seq(Chars) /\ st'.pos \in Nat
        /\ st'.pos <= Len(st'.bytes) /\ Len(st'.bytes) \in Nat
    BY Fields DEF Seen, Shaped
  <2> QED BY <2>1
<1>2. Contents' = Text(m) /\ Reading(st.bytes)' = Text(m) /\ At' = ReadTo(m, p)
  BY TextViewNext, IdleView
<1>3. Reading(st.bytes) = Text(a)
  BY TextView
<1>4. Begins(a, m) /\ Begins(m, big)
  OBVIOUS
<1> HIDE DEF a, m, p
<1>5. Clean(m) /\ Paired(m) /\ Begins(Text(m), Text(big))
  BY <1>1, <1>4, TextBegins
<1>6. Clean(a) /\ Paired(a) /\ Begins(Text(a), Text(m))
  BY <1>1, <1>4, <1>5, TextBegins
<1>7. /\ Text(a) \in Seq(Chars) /\ Text(m) \in Seq(Chars) /\ Text(big) \in Seq(Chars)
  BY <1>1, <1>5, <1>6, TextPoint
<1>8. Len(Text(a)) \in Nat /\ Len(Text(m)) \in Nat /\ Len(Text(big)) \in Nat
  BY <1>7, LenProperties
<1>9. B!PartWay(Text(m), Text(a), Text(big))
  BY <1>5, <1>6, <1>8 DEF B!PartWay, Begins
<1>10. At' \in 0 .. Len(Text(m))
  <2>1. ReadTo(m, p) \in Nat /\ ReadTo(m, p) <= Len(Text(m))
    BY <1>1, <1>5, ReadToIs
  <2> QED BY <1>2, <1>8, <2>1
<1>11. \E new \in {Contents} \cup {B!Overlay(Contents, At, <<c>>) : c \in Chars} :
         B!PartWay(Contents', Reading(st.bytes), new)
  <2>1. Text(big) \in {Contents} \cup {B!Overlay(Contents, At, <<c>>) : c \in Chars}
    BY DEF B!Overlay, Overlay
  <2>2. B!PartWay(Contents', Reading(st.bytes), Text(big))
    BY <1>2, <1>3, <1>9
  <2> QED BY <2>1, <2>2
<1>12. st.err' = TRUE /\ Reading(st.bytes)' = Contents' /\ At' \in 0 .. Len(Contents')
  BY <1>2, <1>10
<1>13. B!Lose
  BY <1>11, <1>12 DEF B!Lose
<1> QED BY <1>13 DEF B!Step

\* A flush that failed leaves some of what was put.
LEMMA TextFlushLost ==
  ASSUME Seen(st), Lines(st), ~mode.bin, mode' = mode, mode \in Modes,
         NEW k \in Taken(st), FlushFails(st, k), st' = Flushed(st, k), ret' \in Chars \cup {0, EOF}
  PROVE  B!Step /\ Lines(st')
<1> DEFINE f == Flushed(st, k)
<1>1. k \in 0 .. st.level /\ st.out = TRUE /\ Shaped(st)
  <2>1. Shaped(st) /\ st.out \in BOOLEAN
    BY Fields DEF Seen, Shaped
  <2> QED BY <2>1, TakenIs DEF Shaped, FlushFails
<1>2. /\ Seen(f) /\ f.in = FALSE /\ f.out = FALSE /\ Lines(f)
      /\ Begins(st.bytes, f.bytes) /\ Begins(f.bytes, All(st))
  BY <1>1, LeftText
<1>3. f.err = TRUE
  <2>1. f.err = (st.err \/ FlushFails(st, k))
    BY <1>1, FlushedIs
  <2> QED BY <2>1
<1>4. st' = f
  OBVIOUS
<1> HIDE DEF f
<1>5. All(st) \in Seq(Chars) /\ Clean(All(st)) /\ Paired(All(st))
  BY TextState
<1>6. Contents = Text(All(st)) /\ ~mode'.bin
  BY TextView
<1>7. Idle(st') /\ Seen(st') /\ st'.err = TRUE /\ Begins(st.bytes, st'.bytes) /\ Begins(st'.bytes, All(st))
  BY <1>2, <1>3, <1>4 DEF Idle
<1>8. B!Step
  BY <1>5, <1>6, <1>7, TextLost
<1> QED BY <1>2, <1>4, <1>8

\* All of it is in the file when the flush did not fail.
LEMMA TextFlushed ==
  ASSUME NEW s, Seen(s), Lines(s), mode \in Modes, ~mode.bin,
         NEW k \in Taken(s), ~FlushFails(s, k), ~s.in, ~Cuts(s, k)
  PROVE  LET f == Flushed(s, k) IN
         /\ Seen(f) /\ Lines(f) /\ Idle(f) /\ f.bytes = All(s) /\ f.pos = Place(s) /\ f.err = s.err
<1> DEFINE f == Flushed(s, k)
<1>1. Shaped(s) /\ NulFree(s) /\ s.in = FALSE /\ k \in 0 .. s.level
  BY Fields, TakenIs DEF Seen, Shaped
<1>2. Shaped(f) /\ Idle(f) /\ f.bytes = All(s) /\ f.pos = Place(s) /\ f.err = s.err
  BY <1>1, FlushedRight
<1>3. Seen(f)
  BY <1>1, FlushSeen
<1> HIDE DEF f
<1>4. Lines(f)
  BY <1>1, <1>2, LinesRest DEF Lines, Idle
<1> QED BY <1>2, <1>3, <1>4 DEF f

LEMMA TextGet ==
  ASSUME BufferInv, Seen(st), Lines(st), ~mode.bin, fgetc, mode' = mode, mode.read, cut' = FALSE
  PROVE  B!Step /\ Lines(st')
<1>1. mode \in Modes /\ Shaped(st) /\ ~mode'.bin
  BY DEF BufferInv
<1>2. PICK k \in Taken(st) : st' = _basegetc(st, k).s /\ ret' = _basegetc(st, k).c /\ ~Cuts(st, k)
  BY DEF fgetc, Returns, CutWhen
<1>3. CASE FlushFails(st, k)
  <2>1. ~(st.in /\ st.level > 0)
    BY <1>1, <1>3 DEF Shaped, FlushFails
  <2>2. _readbuf(st, k) = [s |-> Flushed(st, k), ok |-> FALSE]
    BY <1>3, <2>1, ReadbufIs
  <2>3. _basegetc(st, k) = [s |-> Flushed(st, k), c |-> EOF]
    BY <2>2 DEF _basegetc
  <2>4. st' = Flushed(st, k) /\ ret' = EOF
    BY <1>2, <2>3
  <2> QED BY <1>1, <1>3, <2>4, TextFlushLost
<1>4. CASE ~FlushFails(st, k)
  <2> DEFINE b == All(st)
             p == Place(st)
             t == st'
  <2>1. \/ GotAt(st, p, t, ret')
        \/ p < Len(b) /\ b[p + 1] = LF /\ GotAt(st, p + 1, t, ret')
    BY <1>1, <1>2, <1>4, GetText
  <2>2. /\ b \in Seq(Chars) /\ Clean(b) /\ Paired(b) /\ p \in 0 .. Len(b) /\ Len(b) \in Nat
        /\ Len(Text(b)) \in Nat /\ ReadTo(b, p) \in Nat
    BY <1>1, TextState
  <2>3. /\ Contents = Text(b) /\ Reading(st.bytes) = Text(st.bytes) /\ At = ReadTo(b, p)
        /\ Contents' = Text(All(t)) /\ Reading(st.bytes)' = Text(t.bytes)
        /\ At' = ReadTo(All(t), Place(t))
    BY <1>1, TextView, TextViewNext
  <2>4. PICK q \in 0 .. Len(b) : GotAt(st, q, t, ret') /\ ReadTo(b, q) = ReadTo(b, p)
    <3>1. CASE GotAt(st, p, t, ret')
      BY <2>2, <3>1
    <3>2. CASE p < Len(b) /\ b[p + 1] = LF /\ GotAt(st, p + 1, t, ret')
      <4>1. p + 1 \in 0 .. Len(b)
        BY <2>2, <3>2
      <4>2. ReadTo(b, p + 1) = ReadTo(b, p)
        <5> HIDE DEF b, p
        <5> QED BY <2>2, <3>2, ReadNext
      <4> QED BY <3>2, <4>1, <4>2
    <3> QED BY <2>1, <3>1, <3>2
  <2>5. /\ Lines(t) /\ All(t) = b /\ t.err = st.err /\ (t.bytes = st.bytes \/ t.bytes = b)
        /\ \/ q = Len(b) /\ ret' = EOF /\ Place(t) = q
           \/ q < Len(b) /\ b[q + 1] # LF /\ ret' = Shown(b[q + 1]) /\ Place(t) = q + 1
    BY <2>4 DEF GotAt
  <2>6. st'.err = st.err
    BY <2>5
  <2> HIDE DEF b, p, t
  <2>7. CASE q = Len(b) /\ ret' = EOF /\ Place(t) = q
    <3>1. ReadTo(b, q) = Len(Text(b))
      BY <2>2, <2>7, ReadToIs
    <3>2. /\ ~(At < Len(Contents)) /\ ret' = EOF /\ At' = At /\ Contents' = Contents
          /\ Reading(st.bytes)' \in {Reading(st.bytes), Contents}
      BY <2>2, <2>3, <2>4, <2>5, <2>7, <3>1
    <3>3. B!Get
      BY <2>6, <3>2 DEF B!Get
    <3> QED BY <2>5, <3>3 DEF B!Step, t
  <2>8. CASE q < Len(b) /\ b[q + 1] # LF /\ ret' = Shown(b[q + 1]) /\ Place(t) = q + 1
    <3>1. /\ ReadTo(b, q + 1) = ReadTo(b, q) + 1 /\ ReadTo(b, q) < Len(Text(b))
          /\ Text(b)[ReadTo(b, q) + 1] = Shown(b[q + 1])
      BY <2>2, <2>8, ReadNext
    <3>2. /\ At < Len(Contents) /\ ret' = Contents[At + 1] /\ At' = At + 1 /\ Contents' = Contents
          /\ Reading(st.bytes)' \in {Reading(st.bytes), Contents}
      BY <2>2, <2>3, <2>4, <2>5, <2>8, <3>1
    <3>3. B!Get
      BY <2>6, <3>2 DEF B!Get
    <3> QED BY <2>5, <3>3 DEF B!Step, t
  <2> QED BY <2>5, <2>7, <2>8
<1> QED BY <1>3, <1>4

\* A client that writes a text is at its end.
LEMMA WritesAtEnd ==
  ASSUME Seen(st), Lines(st), ~mode.bin, mode \in Modes, MayWrite, ~st.in
  PROVE  AtEnd(st) /\ At = Len(Text(All(st)))
<1> DEFINE b == All(st)
           p == Place(st)
<1>1. b \in Seq(Chars) /\ Clean(b) /\ Paired(b) /\ p \in 0 .. Len(b)
  BY TextState
<1>2. st.in = FALSE
  BY Fields DEF Seen, Shaped
<1>3. At = ReadTo(b, p) /\ At = Len(Text(b))
  BY TextView DEF MayWrite
<1>4. p \in {0, Len(b)}
  BY <1>2 DEF Lines
<1> HIDE DEF b, p
<1>5. p = Len(b)
  <2>1. SUFFICES ASSUME p = 0 PROVE p = Len(b)
    BY <1>4
  <2>2. Len(Text(b)) = 0
    BY <1>1, <1>3, <2>1, ReadToIs
  <2> QED BY <1>1, <2>1, <2>2, NothingRead
<1> QED BY <1>2, <1>3, <1>5 DEF AtEnd, b, p

\* The file is where the text begins.
LEMMA FileBegins ==
  ASSUME NEW s, Seen(s), Lines(s), mode \in Modes, ~mode.bin
  PROVE  s.bytes \in Seq(Chars) /\ Begins(s.bytes, All(s))
<1>1. Shaped(s) /\ s.bytes \in Seq(Chars) /\ s.level \in 0 .. s.level /\ s.out \in BOOLEAN
      /\ All(s) \in Seq(Chars)
  BY Fields, PlaceIs DEF Seen, Shaped
<1>2. CASE s.out = TRUE
  <2> DEFINE f == Flushed(s, s.level)
  <2>1. f.bytes \in Seq(Chars) /\ Begins(s.bytes, f.bytes) /\ Begins(f.bytes, All(s))
    BY <1>1, <1>2, LeftText
  <2> HIDE DEF f
  <2> QED BY <1>1, <2>1, BeginsOn
<1>3. CASE s.out = FALSE
  <2>1. All(s) = s.bytes
    BY <1>3 DEF All
  <2> QED BY <1>1, <2>1, BeginsSelf
<1> QED BY <1>1, <1>2, <1>3

\* A put that failed leaves some of what was put before.
LEMMA PutLost ==
  ASSUME NEW s, Seen(s), Lines(s), mode \in Modes, ~mode.bin,
         NEW c \in Chars, c # NUL, NEW k \in Taken(s), PutFails(s, k)
  PROVE  LET r == _baseputc(s, c, k) IN
         /\ Seen(r) /\ Lines(r) /\ Idle(r) /\ r.err = TRUE
         /\ Begins(s.bytes, r.bytes) /\ Begins(r.bytes, All(s))
<1> DEFINE r == _baseputc(s, c, k)
           f == Flushed(s, k)
<1>1. Shaped(s) /\ k \in 0 .. s.level /\ s.out = TRUE
  <2>1. Shaped(s) /\ s.out \in BOOLEAN
    BY Fields DEF Seen, Shaped
  <2> QED BY <2>1, TakenIs DEF Shaped, PutFails, FlushFails
<1>2. /\ Shaped(r) /\ r.bytes = f.bytes /\ r.pos = f.pos /\ r.in = FALSE /\ r.out = FALSE /\ r.err = TRUE
  BY <1>1, PutIs
<1>3. Seen(r)
  BY <1>1, PutSeen
<1>4. /\ f.pos = Len(f.bytes) /\ Begins(s.bytes, f.bytes) /\ Begins(f.bytes, All(s)) /\ Paired(f.bytes)
  BY <1>1, LeftText
<1> HIDE DEF r, f
<1>5. Lines(r)
  BY <1>2, <1>4, LinesRest
<1> QED BY <1>2, <1>3, <1>4, <1>5 DEF Idle, r, f

\* The text has a character more, and the client is behind it.
LEMMA TextPutting ==
  ASSUME ~mode.bin, ~mode'.bin, Seen(st), Seen(st'), Lines(st), Lines(st'),
         mode \in Modes, At = Len(Text(All(st))), Place(st') = Len(All(st')),
         NEW c \in Chars, Text(All(st')) = Overlay(Text(All(st)), Len(Text(All(st))), <<c>>),
         Len(Text(All(st'))) = Len(Text(All(st))) + 1,
         \/ st'.bytes = st.bytes \/ st'.bytes = All(st) \/ st'.bytes = All(st'),
         st'.err = st.err, ret' = c
  PROVE  B!Step
<1> DEFINE b == All(st')
           p == Place(st')
<1>1. b \in Seq(Chars) /\ Clean(b) /\ Paired(b) /\ p \in 0 .. Len(b)
  BY TextState
<1>2. /\ Contents = Text(All(st)) /\ Reading(st.bytes) = Text(st.bytes)
      /\ Contents' = Text(b) /\ Reading(st.bytes)' = Text(st'.bytes) /\ At' = ReadTo(b, p)
  BY TextView, TextViewNext
<1>3. p = Len(b)
  OBVIOUS
<1>4. ReadTo(b, p) = Len(Text(b))
  <2> HIDE DEF b, p
  <2> QED BY <1>1, <1>3, ReadToIs
<1>5. At' = At + 1
  BY <1>2, <1>4
<1>6. Contents' = B!Overlay(Contents, At, <<c>>)
  BY <1>2 DEF B!Overlay, Overlay
<1>7. Reading(st.bytes)' \in {Reading(st.bytes), Contents, Contents'}
  BY <1>2
<1>8. B!Put(c)
  BY <1>5, <1>6, <1>7 DEF B!Put
<1> QED BY <1>8 DEF B!Step

LEMMA TextPut ==
  ASSUME BufferInv, Seen(st), Lines(st), ~mode.bin, MayWrite, ~st.in,
         NEW c \in Letters \cup {LF}, fputc(c), mode' = mode, cut' = FALSE
  PROVE  B!Step /\ Lines(st')
<1>1. mode \in Modes /\ ~mode'.bin
  BY DEF BufferInv
<1>2. c \in Chars /\ c # NUL /\ c # LF /\ c # CR
  BY Sizes, BufferAssumption DEF fputc
<1>3. PICK k \in Taken(st) :
        /\ st' = _baseputc(st, c, k) /\ ret' = (IF PutFails(st, k) THEN EOF ELSE c)
        /\ ~PutCuts(st, k)
  BY DEF fputc, Returns, CutWhen
<1>4. AtEnd(st) /\ At = Len(Text(All(st)))
  BY <1>1, WritesAtEnd
<1>5. All(st) \in Seq(Chars) /\ Clean(All(st)) /\ Paired(All(st)) /\ Contents = Text(All(st))
  BY <1>1, TextState, TextView
<1> DEFINE r == _baseputc(st, c, k)
<1>6. CASE PutFails(st, k)
  <2>1. /\ Seen(r) /\ Lines(r) /\ Idle(r) /\ r.err = TRUE
        /\ Begins(st.bytes, r.bytes) /\ Begins(r.bytes, All(st))
    BY <1>1, <1>2, <1>6, PutLost
  <2>2. st' = r /\ ret' = EOF
    BY <1>3, <1>6
  <2> HIDE DEF r
  <2>3. B!Step
    BY <1>1, <1>5, <2>1, <2>2, TextLost
  <2> QED BY <2>1, <2>2, <2>3
<1>7. CASE ~PutFails(st, k)
  <2>1. /\ Seen(r) /\ Lines(r) /\ AtEnd(r) /\ r.err = st.err
        /\ r.bytes = st.bytes \/ r.bytes = All(st)
        /\ Begins(All(st), All(r)) /\ Len(All(r)) = Len(All(st)) + 1 /\ All(r)[Len(All(r))] = c
        /\ Clean(All(r)) /\ Paired(All(r)) /\ All(r) \in Seq(Chars)
    <3>1. Follows(All(st), c)
      BY <1>2 DEF Follows
    <3>2. PutBehind(st, c, r)
      BY <1>1, <1>2, <1>3, <1>4, <1>7, <3>1, PutText
    <3> QED BY <3>2 DEF PutBehind
  <2>2. st' = r /\ ret' = c
    BY <1>3, <1>7
  <2> HIDE DEF r
  <2>3. /\ Text(All(r)) = Overlay(Text(All(st)), Len(Text(All(st))), <<Shown(c)>>)
        /\ Len(Text(All(r))) = Len(Text(All(st))) + 1
    BY <1>2, <1>5, <2>1, TextAdded
  <2>4. Shown(c) = c
    BY <1>2 DEF Shown
  <2>5. B!Step
    BY <1>1, <1>2, <1>4, <2>1, <2>2, <2>3, <2>4, TextPutting DEF AtEnd
  <2> QED BY <2>1, <2>2, <2>5
<1> QED BY <1>6, <1>7

\* A line is put as two characters and flushed, and is one for the client.
LEMMA TextLine ==
  ASSUME BufferInv, Seen(st), Lines(st), ~mode.bin, MayWrite, ~st.in, fputc_lf, mode' = mode, cut' = FALSE
  PROVE  B!Step /\ Lines(st')
<1>1. mode \in Modes /\ ~mode'.bin
  BY DEF BufferInv
<1>2. LF \in Chars /\ CR \in Chars /\ LF # NUL /\ CR # NUL /\ CR # LF /\ Shown(CR) = LF
  BY Sizes DEF CR, LF, NUL, Shown
<1>3. PICK k1 \in Taken(st) : LineFrom(k1)
  BY DEF fputc_lf, LineFrom
<1>4. AtEnd(st) /\ At = Len(Text(All(st)))
  BY <1>1, WritesAtEnd
<1>5. /\ All(st) \in Seq(Chars) /\ Clean(All(st)) /\ Paired(All(st)) /\ Contents = Text(All(st))
      /\ st.bytes \in Seq(Chars) /\ Begins(st.bytes, All(st)) /\ Len(All(st)) \in Nat
  BY <1>1, TextState, TextView, FileBegins
<1> DEFINE s1 == _baseputc(st, CR, k1)
<1>6. CASE PutFails(st, k1)
  <2>1. /\ Seen(s1) /\ Lines(s1) /\ Idle(s1) /\ s1.err = TRUE
        /\ Begins(st.bytes, s1.bytes) /\ Begins(s1.bytes, All(st))
    BY <1>1, <1>2, <1>6, PutLost
  <2>2. st' = s1 /\ ret' = EOF
    BY <1>3, <1>6 DEF LineFrom, Returns
  <2> HIDE DEF s1
  <2>3. B!Step
    BY <1>1, <1>5, <2>1, <2>2, TextLost
  <2> QED BY <2>1, <2>2, <2>3
<1>7. CASE ~PutFails(st, k1)
  <2>0. ~PutCuts(st, k1)
    BY <1>3, <1>7 DEF LineFrom, CutWhen
  <2>1. /\ Seen(s1) /\ Lines(s1) /\ AtEnd(s1) /\ s1.err = st.err
        /\ s1.bytes = st.bytes \/ s1.bytes = All(st)
        /\ Begins(All(st), All(s1)) /\ Len(All(s1)) = Len(All(st)) + 1 /\ All(s1)[Len(All(s1))] = CR
        /\ Clean(All(s1)) /\ Paired(All(s1)) /\ All(s1) \in Seq(Chars)
    <3>1. Follows(All(st), CR)
      BY <1>2 DEF Follows
    <3>2. PutBehind(st, CR, s1)
      BY <1>1, <1>2, <1>4, <1>7, <2>0, <3>1, PutText
    <3> QED BY <3>2 DEF PutBehind
  <2>2. PICK k2 \in Taken(s1) :
          LET s2 == _baseputc(s1, LF, k2)
              c2 == PutCuts(st, k1) \/ PutCuts(s1, k2)
          IN IF PutFails(s1, k2) THEN st' = s2 /\ Returns(EOF) /\ CutWhen(c2)
             ELSE \E k3 \in Taken(s2) :
                    st' = LineEnd(s2, k3) /\ Returns(LF) /\ CutWhen(c2 \/ Cuts(s2, k3))
    BY <1>3, <1>7 DEF LineFrom
  <2> HIDE DEF s1
  <2> DEFINE s2 == _baseputc(s1, LF, k2)
             b == All(st)
             b1 == All(s1)
  <2>3. /\ Text(b1) = Overlay(Text(b), Len(Text(b)), <<LF>>)
        /\ Len(Text(b1)) = Len(Text(b)) + 1
    BY <1>2, <1>5, <2>1, TextAdded
  <2>4. s1.bytes \in Seq(Chars) /\ Begins(st.bytes, s1.bytes) /\ Begins(st.bytes, b1)
    BY <1>5, <2>1, BeginsSelf, BeginsOn
  <2>5. Text(b1) = Overlay(Contents, At, <<LF>>)
    BY <1>4, <1>5, <2>3
  <2>6. CASE PutFails(s1, k2)
    <3>1. /\ Seen(s2) /\ Lines(s2) /\ Idle(s2) /\ s2.err = TRUE
          /\ Begins(s1.bytes, s2.bytes) /\ Begins(s2.bytes, b1)
      BY <1>1, <1>2, <2>1, <2>6, PutLost
    <3>2. st' = s2 /\ ret' = EOF
      BY <2>2, <2>6 DEF Returns
    <3> HIDE DEF s2, b1
    <3>3. s2.bytes \in Seq(Chars) /\ Begins(st.bytes, s2.bytes)
      <4>1. s2.bytes \in Seq(Chars)
        BY <3>1, Fields DEF Seen, Shaped
      <4> QED BY <1>5, <2>4, <3>1, <4>1, BeginsOn
    <3>4. b1 \in Seq(Chars) /\ Clean(b1) /\ Paired(b1)
      BY <2>1 DEF b1
    <3>5. B!Step
      BY <1>1, <1>2, <2>5, <3>1, <3>2, <3>3, <3>4, TextLost
    <3> QED BY <3>1, <3>2, <3>5
  <2>7. CASE ~PutFails(s1, k2)
    <3>0. ~PutCuts(s1, k2)
      BY <2>2, <2>7 DEF CutWhen
    <3>1. Len(b1) > 0
      BY <1>5, <2>1
    <3>2. /\ Seen(s2) /\ Lines(s2) /\ AtEnd(s2) /\ s2.out = TRUE /\ s2.err = s1.err
          /\ s2.bytes = s1.bytes \/ s2.bytes = b1
          /\ Begins(b1, All(s2)) /\ Len(All(s2)) = Len(b1) + 1 /\ All(s2)[Len(All(s2))] = LF
          /\ Clean(All(s2)) /\ Paired(All(s2)) /\ All(s2) \in Seq(Chars)
      <4>1. Follows(All(s1), LF)
        BY <2>1, <3>1 DEF Follows
      <4>2. PutBehind(s1, LF, s2)
        BY <1>1, <1>2, <2>1, <2>7, <3>0, <4>1, PutText
      <4> QED BY <4>2 DEF PutBehind
    <3>3. PICK k3 \in Taken(s2) : st' = Flushed(s2, k3) /\ ret' = LF /\ ~Cuts(s2, k3)
      BY <2>2, <2>7 DEF Returns, LineEnd, CutWhen
    <3> HIDE DEF s2
    <3> DEFINE b2 == All(s2)
               f == Flushed(s2, k3)
    <3>4. Text(b2) = Text(b1)
      <4>1. b1 \in Seq(Chars) /\ b2 \in Seq(Chars) /\ Clean(b2) /\ Paired(b2) /\ Begins(b1, b2)
            /\ Len(b2) = Len(b1) + 1 /\ b2[Len(b2)] = LF
        BY <2>1, <3>2
      <4> HIDE DEF b1, b2
      <4> QED BY <4>1, TextNext
    <3>5. k3 \in 0 .. s2.level /\ Shaped(s2) /\ s2.in = FALSE
      BY <3>2, TakenIs DEF Seen, Shaped, AtEnd
    <3>6. CASE FlushFails(s2, k3)
      <4>1. /\ Seen(f) /\ f.in = FALSE /\ f.out = FALSE
            /\ f.bytes \in Seq(Chars)
            /\ s2.bytes \in Seq(Chars) /\ Begins(s2.bytes, f.bytes) /\ Begins(f.bytes, b2)
            /\ Lines(f)
        BY <1>1, <3>2, <3>5, LeftText
      <4>2. f.err = TRUE
        <5>1. f.err = (s2.err \/ FlushFails(s2, k3))
          BY <1>1, <3>5, FlushedIs
        <5> QED BY <3>6, <5>1
      <4>3. st' = f /\ ret' = LF
        BY <3>3
      <4> HIDE DEF f, b1, b2
      <4>4. Begins(st.bytes, f.bytes)
        <5>1. Begins(st.bytes, s2.bytes)
          BY <2>4, <3>2
        <5> QED BY <1>5, <4>1, <5>1, BeginsOn
      <4>5. Idle(st') /\ Seen(st') /\ st'.err = TRUE /\ ret' \in Chars
        BY <1>2, <4>1, <4>2, <4>3 DEF Idle
      <4>6. b2 \in Seq(Chars) /\ Clean(b2) /\ Paired(b2) /\ Text(b2) = Overlay(Contents, At, <<LF>>)
        BY <2>5, <3>2, <3>4 DEF b2
      <4>7. Begins(st.bytes, st'.bytes) /\ Begins(st'.bytes, b2)
        BY <4>1, <4>3, <4>4
      <4>8. B!Step
        BY <1>1, <1>2, <4>5, <4>6, <4>7, TextLost
      <4> QED BY <4>1, <4>3, <4>8
    <3>7. CASE ~FlushFails(s2, k3)
      <4>1. /\ Seen(f) /\ Lines(f) /\ Idle(f) /\ f.bytes = b2 /\ f.pos = Place(s2) /\ f.err = s2.err
        BY <1>1, <3>2, <3>3, <3>5, <3>7, TextFlushed
      <4>2. st' = f /\ ret' = LF
        BY <3>3
      <4> HIDE DEF f
      <4>3. All(f) = b2 /\ Place(f) = Len(b2)
        BY <3>2, <4>1, IdleView DEF AtEnd
      <4>4. Text(All(st')) = Overlay(Text(b), Len(Text(b)), <<LF>>)
            /\ Len(Text(All(st'))) = Len(Text(b)) + 1
        BY <2>3, <3>4, <4>2, <4>3
      <4>5. Place(st') = Len(All(st')) /\ st'.bytes = All(st') /\ st'.err = st.err
        BY <2>1, <3>2, <4>1, <4>2, <4>3
      <4>6. B!Step
        BY <1>1, <1>2, <1>4, <4>1, <4>2, <4>4, <4>5, TextPutting
      <4> QED BY <4>1, <4>2, <4>6
    <3> QED BY <3>6, <3>7
  <2> QED BY <2>6, <2>7
<1> QED BY <1>6, <1>7

\* Back to the first character or behind the last: other places a client of
\* a text does not seek to.
LEMMA TextSeek ==
  ASSUME BufferInv, Seen(st), Lines(st), ~mode.bin, NEW origin, fseek(0, origin),
         origin = "SEEK_SET" \/ origin = "SEEK_END", Seen(st'), mode' = mode, cut' = FALSE
  PROVE  B!Step /\ Lines(st')
<1>1. mode \in Modes /\ Shaped(st) /\ ~mode'.bin
  BY DEF BufferInv
<1>2. PICK k \in Taken(st), e \in {0, EOF} :
        LET s == Flushed(st, k) IN
        /\ ~Cuts(st, k)
        /\ IF FlushFails(st, k) THEN st' = s /\ Returns(EOF)
           ELSE \E to \in {0, Len(s.bytes) + 0} :
                  /\ st' = [s EXCEPT !.pos = to, !.err = @ \/ e = EOF]
                  /\ Returns(e)
  BY DEF fseek, CutWhen
<1>3. CASE FlushFails(st, k)
  <2>1. st' = Flushed(st, k) /\ ret' = EOF
    BY <1>2, <1>3 DEF Returns
  <2> QED BY <1>1, <1>3, <2>1, TextFlushLost
<1>4. CASE ~FlushFails(st, k)
  <2> DEFINE f == Flushed(st, k)
             v == f.err \/ e = EOF
             b == All(st)
  <2>1. PICK to \in {0, Len(f.bytes) + 0} : st' = SetPosErr(f, to, v) /\ ret' = e
    BY <1>2, <1>4 DEF Returns, SetPosErr
  <2> DEFINE r == SetPosErr(f, to, v)
  <2>2. v \in BOOLEAN
    OBVIOUS
  <2>3. k \in 0 .. st.level
    BY <1>1, TakenIs DEF Shaped
  <2>0. ~Cuts(st, k)
    BY <1>2
  <2>4. /\ f \in StType /\ f.in = FALSE /\ f.out = FALSE /\ f.bytes = b
        /\ f.err = (st.err \/ FlushFails(st, k))
    BY <1>1, <1>4, <2>0, <2>3, FlushedIs, FlushedAll DEF Shaped
  <2>5. v = (st.err \/ e = EOF)
    BY <1>4, <2>4
  <2> HIDE DEF f, v
  <2>6. to \in Nat /\ (to = 0 \/ to = Len(b))
    <3>1. Len(f.bytes) \in Nat
      BY <2>4, Fields
    <3> QED BY <2>1, <2>4, <3>1
  <2>7. r.bytes = f.bytes /\ r.pos = to /\ r.in = f.in /\ r.out = f.out /\ r.err = v
    <3>1. f \in StType
      BY <2>4
    <3>2. r = SetPosErr(f, to, v)
      OBVIOUS
    <3> HIDE DEF r
    <3> QED BY <3>1, <3>2, SoughtIs
  <2> HIDE DEF r
  <2>8. Idle(st') /\ st'.bytes = b /\ st'.pos = to /\ st'.err = v /\ ret' = e
    BY <2>1, <2>4, <2>7 DEF Idle, r
  <2>9. b \in Seq(Chars) /\ Clean(b) /\ Paired(b) /\ Len(b) \in Nat /\ Len(Text(b)) \in Nat
    BY <1>1, TextState
  <2>10. Lines(st')
    BY <2>6, <2>8, <2>9, LinesRest DEF Seen, Idle
  <2>11. Contents' = Text(b) /\ Reading(st.bytes)' = Text(b) /\ At' = ReadTo(b, to) /\ Contents = Text(b)
    BY <1>1, <2>8, TextView, TextViewNext, IdleView
  <2> HIDE DEF b
  <2>12. ReadTo(b, to) \in 0 .. Len(Text(b))
    <3>1. to \in 0 .. Len(b)
      BY <2>6, <2>9
    <3>2. ReadTo(b, to) \in Nat /\ ReadTo(b, to) <= Len(Text(b))
      BY <2>9, <3>1, ReadToIs
    <3> QED BY <2>9, <3>2
  <2>13. B!Seek(ReadTo(b, to)) /\ ReadTo(b, to) \in 0 .. Len(Contents)
    BY <2>5, <2>8, <2>11, <2>12 DEF B!Seek
  <2> QED BY <2>10, <2>13 DEF B!Step
<1> QED BY <1>3, <1>4

\* The client steps back over a letter.
LEMMA TextUngotten ==
  ASSUME Seen(st), Lines(st), ~mode.bin, ~mode'.bin, mode \in Modes, At > 0,
         NEW c \in Letters, c = Contents[At], c = All(st)[Place(st)], Place(st) > 0,
         All(st') = All(st), Place(st') = Place(st) - 1, st'.in = TRUE, st'.out = FALSE,
         st'.bytes = st.bytes \/ st'.bytes = All(st), st'.err = st.err, ret' = c
  PROVE  B!Step /\ Lines(st')
<1> DEFINE b == All(st)
           p == Place(st)
           q == Place(st')
<1>1. /\ b \in Seq(Chars) /\ Clean(b) /\ Paired(b) /\ p \in 0 .. Len(b) /\ Len(b) \in Nat
      /\ At = ReadTo(b, p) /\ Contents = Text(b) /\ Reading(st.bytes) = Text(st.bytes)
  BY TextState, TextView
<1>2. /\ Contents' = Text(b) /\ Reading(st.bytes)' = Text(st'.bytes) /\ At' = ReadTo(b, q)
  BY TextViewNext
<1>3. p > 0 /\ q = p - 1 /\ b[p] = c
  OBVIOUS
<1>4. c # LF
  BY Sizes, BufferAssumption DEF LF
<1>5. Lines(st')
  <2>1. Paired(All(st')) /\ st'.in = TRUE /\ st'.out = FALSE
    BY <1>1
  <2>2. All(st') = b /\ Place(st') = q
    OBVIOUS
  <2> HIDE DEF b, p, q
  <2>3. All(st')[Place(st') + 1] # LF
    BY <1>1, <1>3, <1>4, <2>2
  <2> QED BY <2>1, <2>3 DEF Lines
<1> HIDE DEF b, p, q
<1>6. q \in 0 .. Len(b) /\ q < Len(b) /\ q + 1 = p /\ b[q + 1] # LF
  BY <1>1, <1>3, <1>4
<1>7. ReadTo(b, p) = ReadTo(b, q) + 1 /\ ReadTo(b, q) \in Nat
  BY <1>1, <1>6, ReadNext, ReadToIs
<1>8. At' = At - 1 /\ Contents' = Contents /\ Reading(st.bytes)' \in {Reading(st.bytes), Contents}
  BY <1>1, <1>2, <1>7 DEF b
<1>9. B!Unget
  BY <1>8 DEF B!Unget
<1> QED BY <1>5, <1>9 DEF B!Step

LEMMA TextUnget ==
  ASSUME BufferInv, Seen(st), Lines(st), ~mode.bin, MayPushBack, ungetc(Contents[At]), mode' = mode, cut' = FALSE
  PROVE  B!Step /\ Lines(st')
<1> DEFINE c == Contents[At]
<1>1. mode \in Modes /\ Shaped(st) /\ ~mode'.bin
  BY DEF BufferInv
<1>2. /\ c \in Letters /\ c \in Chars /\ At > 0 /\ c = All(st)[Place(st)] /\ Place(st) > 0
  BY <1>1, PushIsChar, PushIsLast DEF MayPushBack
<1> HIDE DEF c
<1>3. \/ UngotInto(st', st, c) /\ ret' = c
      \/ /\ ~(st.in = TRUE /\ st.curp # 0)
         /\ \E k \in Taken(st) :
              /\ ~Cuts(st, k)
              /\ \/ FlushFails(st, k) /\ st' = Flushed(st, k) /\ ret' = EOF
                 \/ ~FlushFails(st, k) /\ UngotBefore(st', Flushed(st, k), c) /\ ret' = c
  BY <1>1, <1>2, UngetIs DEF c
<1>4. /\ st.pos \in Nat /\ st.level \in Nat /\ st.err \in BOOLEAN /\ st.out \in BOOLEAN
      /\ ~(st.in /\ st.out)
  BY <1>1, Fields DEF Shaped
<1>5. CASE UngotInto(st', st, c) /\ ret' = c
  <2>1. st.in = TRUE /\ st.out = FALSE
    BY <1>4, <1>5 DEF UngotInto
  <2>2. /\ st'.in = TRUE /\ st'.out = FALSE /\ st'.bytes = st.bytes /\ st'.pos = st.pos
        /\ st'.err = st.err /\ st'.level = st.level + 1
    BY <1>5, <2>1 DEF UngotInto
  <2>3. All(st') = All(st)
    BY <2>1, <2>2 DEF All
  <2>4. Place(st') = st.pos - (st.level + 1) /\ Place(st) = st.pos - st.level
    BY <2>1, <2>2 DEF Place
  <2>5. Place(st') = Place(st) - 1
    BY <1>4, <2>4
  <2> QED BY <1>1, <1>2, <1>5, <2>2, <2>3, <2>5, TextUngotten DEF c
<1>6. ASSUME NEW k \in Taken(st), FlushFails(st, k), st' = Flushed(st, k), ret' = EOF
      PROVE  B!Step /\ Lines(st')
  BY <1>1, <1>6, TextFlushLost
<1>7. ASSUME NEW k \in Taken(st), ~(st.in = TRUE /\ st.curp # 0), ~FlushFails(st, k),
             ~Cuts(st, k), UngotBefore(st', Flushed(st, k), c), ret' = c
      PROVE  B!Step /\ Lines(st')
  <2> DEFINE f == Flushed(st, k)
  <2>1. k \in 0 .. st.level
    BY <1>1, TakenIs DEF Shaped
  <2>2. /\ f.bytes = All(st) /\ f.pos \in Nat /\ f.pos = Place(st)
    BY <1>1, <1>7, FlushedAll, UngetPlace
  <2>3. f.err = st.err
    <3>1. f.err = (st.err \/ FlushFails(st, k))
      BY <1>1, <2>1, FlushedIs
    <3> QED BY <1>4, <1>7, <3>1
  <2> HIDE DEF f
  <2>4. /\ st'.in = TRUE /\ st'.out = FALSE /\ st'.bytes = f.bytes /\ st'.pos = f.pos
        /\ st'.err = f.err /\ st'.level = 1
    BY <1>7 DEF UngotBefore, f
  <2>5. All(st') = All(st) /\ st'.bytes = All(st) /\ st'.err = st.err
    BY <2>2, <2>3, <2>4 DEF All
  <2>6. Place(st') = Place(st) - 1
    BY <2>2, <2>4 DEF Place
  <2> QED BY <1>1, <1>2, <1>7, <2>4, <2>5, <2>6, TextUngotten DEF c
<1> QED BY <1>3, <1>5, <1>6, <1>7

LEMMA TextFlush ==
  ASSUME BufferInv, Seen(st), Lines(st), ~mode.bin, ~st.in, fflush, mode' = mode, cut' = FALSE
  PROVE  B!Step /\ Lines(st')
<1>1. mode \in Modes /\ Shaped(st) /\ ~mode'.bin
  BY DEF BufferInv
<1>2. PICK k \in Taken(st) :
        /\ st' = Flushed(st, k) /\ ret' = (IF FlushFails(st, k) THEN EOF ELSE 0)
        /\ ~Cuts(st, k)
  BY DEF fflush, Returns, CutWhen
<1>3. CASE FlushFails(st, k)
  BY <1>1, <1>2, <1>3, TextFlushLost
<1>4. CASE ~FlushFails(st, k)
  <2>1. /\ Seen(st') /\ Lines(st') /\ Idle(st') /\ st'.bytes = All(st) /\ st'.pos = Place(st)
        /\ st'.err = st.err /\ ret' = 0
    BY <1>1, <1>2, <1>4, TextFlushed
  <2>2. /\ Contents = Text(All(st)) /\ At = ReadTo(All(st), Place(st))
        /\ Contents' = Text(All(st)) /\ Reading(st.bytes)' = Text(All(st))
        /\ At' = ReadTo(All(st), Place(st))
    BY <1>1, <2>1, TextView, TextViewNext, IdleView
  <2>3. B!Flush
    BY <2>1, <2>2 DEF B!Flush
  <2> QED BY <2>1, <2>3 DEF B!Step
<1> QED BY <1>3, <1>4

LEMMA TextClose ==
  ASSUME BufferInv, Seen(st), Lines(st), ~mode.bin, fclose, mode' = mode, cut' = FALSE
  PROVE  B!Step /\ Lines(st') /\ ~st'.out
<1>1. mode \in Modes /\ Shaped(st) /\ (st.out => ~st.in) /\ ~mode'.bin
  BY DEF BufferInv, Shaped
<1>2. PICK k \in Taken(st), e \in {0, EOF} :
        st' = (IF st.out THEN Flushed(st, k) ELSE st) /\ ret' = e /\ ~Cuts(st, k)
  BY DEF fclose, Returns, CutWhen
<1>3. CASE st.out /\ FlushFails(st, k)
  <2>1. st' = Flushed(st, k) /\ ret' \in Chars \cup {0, EOF}
    BY <1>2, <1>3
  <2>2. k \in 0 .. st.level
    BY <1>1, TakenIs DEF Shaped
  <2>3. ~st'.out
    BY <1>1, <2>1, <2>2, FlushedIs
  <2> QED BY <1>1, <1>3, <2>1, <2>3, TextFlushLost
<1>4. CASE st.out /\ ~FlushFails(st, k)
  <2>1. /\ Seen(st') /\ Lines(st') /\ Idle(st') /\ st'.bytes = All(st) /\ st'.pos = Place(st)
        /\ st'.err = st.err /\ ret' = e
    BY <1>1, <1>2, <1>4, TextFlushed
  <2>2. /\ Contents = Text(All(st)) /\ At = ReadTo(All(st), Place(st))
        /\ Contents' = Text(All(st)) /\ Reading(st.bytes)' = Text(All(st))
        /\ At' = ReadTo(All(st), Place(st))
    BY <1>1, <2>1, TextView, TextViewNext, IdleView
  <2>3. B!Close
    BY <2>1, <2>2 DEF B!Close
  <2> QED BY <2>1, <2>3 DEF B!Step, Idle
<1>5. CASE ~st.out
  <2>1. st' = st
    BY <1>2, <1>5
  <2>2. All(st) = st.bytes
    BY <1>5 DEF All
  <2>3. /\ Contents = Text(st.bytes) /\ Contents' = Contents /\ Reading(st.bytes)' = Contents /\ At' = At
    BY <1>1, <2>1, <2>2, TextView, TextViewNext
  <2>4. B!Close
    BY <1>2, <2>1, <2>3 DEF B!Close
  <2> QED BY <1>5, <2>1, <2>4 DEF B!Step
<1> QED BY <1>3, <1>4, <1>5

LEMMA TextOpen ==
  ASSUME BufferInv, Seen(st), Lines(st), ~mode.bin, ~st.out, fopen, BufferInv'
  PROVE  B!Step /\ Lines(st') /\ ~mode'.bin
<1>1. /\ Shaped(st) /\ mode \in Modes /\ mode'.bin = mode.bin
      /\ st' = [st EXCEPT !.pos = 0, !.in = FALSE, !.out = FALSE, !.skip = FALSE, !.err = FALSE,
                          !.level = 0, !.curp = 0]
      /\ ret' = 0
  BY DEF BufferInv, fopen, Returns
<1>2. st = [bytes |-> st.bytes, pos |-> st.pos, in |-> st.in, out |-> st.out, skip |-> st.skip,
            err |-> st.err, level |-> st.level, curp |-> st.curp, buffer |-> st.buffer]
  BY <1>1, Fields DEF Shaped
<1>3. st' = [bytes |-> st.bytes, pos |-> 0, in |-> FALSE, out |-> FALSE, skip |-> FALSE,
             err |-> FALSE, level |-> 0, curp |-> 0, buffer |-> st.buffer]
  BY <1>1, <1>2
<1>4. Idle(st') /\ st'.bytes = st.bytes /\ st'.pos = 0 /\ st'.err = FALSE
  BY <1>3 DEF Idle
<1>5. All(st) = st.bytes
  BY DEF All
<1>6. ~mode'.bin
  BY <1>1
<1>7. st.bytes \in Seq(Chars) /\ Clean(st.bytes) /\ Paired(st.bytes) /\ Len(st.bytes) \in Nat
  BY <1>1, <1>5, TextState
<1>8. Lines(st')
  <2>1. Shaped(st')
    BY <1>4 DEF BufferInv, Shaped, Idle
  <2> QED BY <1>4, <1>7, <2>1, LinesRest DEF Idle
<1>9. ReadTo(st.bytes, 0) = 0
  <2> DEFINE a == st.bytes
  <2>1. a \in Seq(Chars) /\ Clean(a) /\ Paired(a) /\ 0 \in 0 .. Len(a)
    BY <1>7
  <2> HIDE DEF a
  <2>2. ReadTo(a, 0) = 0
    BY <2>1, ReadToIs
  <2> QED BY <2>2 DEF a
<1>10. /\ Contents = Text(st.bytes) /\ Reading(st.bytes) = Text(st.bytes)
       /\ Contents' = Text(st.bytes) /\ Reading(st.bytes)' = Text(st.bytes) /\ At' = 0
  BY <1>4, <1>5, <1>6, <1>9, TextView, TextViewNext, IdleView
<1>11. B!Open
  BY <1>1, <1>4, <1>10 DEF B!Open
<1> QED BY <1>6, <1>8, <1>11 DEF B!Step

\* The error indicator is no part of a text.
LEMMA TextErr ==
  ASSUME Seen(st), Lines(st), ~mode.bin, ~mode'.bin, NEW v \in BOOLEAN, st' = SetErr(st, v),
         ret' = (IF v THEN EOF ELSE 0)
  PROVE  B!Step /\ Lines(st')
<1> DEFINE r == SetErr(st, v)
<1>1. st \in StType /\ st' = r
  BY DEF Seen, Shaped
<1>2. /\ r.bytes = st.bytes /\ r.pos = st.pos /\ r.in = st.in /\ r.out = st.out /\ r.skip = st.skip
      /\ r.err = v /\ r.level = st.level /\ r.buffer = st.buffer
  BY <1>1, SetErrIs
<1> HIDE DEF r
<1>3. All(st') = All(st) /\ Place(st') = Place(st) /\ st'.bytes = st.bytes /\ st'.err = v
  BY <1>1, <1>2 DEF All, Place
<1>4. Lines(st')
  <2>1. /\ st'.in = st.in /\ st'.out = st.out /\ st'.skip = st.skip /\ st'.pos = st.pos
        /\ st'.bytes = st.bytes
    BY <1>1, <1>2
  <2> QED BY <1>3, <2>1 DEF Lines
<1>5. Contents' = Contents /\ Reading(st.bytes)' = Reading(st.bytes) /\ At' = At
  BY <1>3, TextView, TextViewNext
<1>6. B!Refuse \/ B!Clear
  BY <1>3, <1>5 DEF B!Refuse, B!Clear
<1> QED BY <1>4, <1>6 DEF B!Step

\* Nothing waits in the buffer of a text stream that is closed.
TextKept == BufferInv /\ Seen(st) /\ Lines(st) /\ ~mode.bin /\ (~open => ~st.out)

LEMMA TextSteps ==
  ASSUME TextKept, [Next]_vars, cut' = FALSE
  PROVE  TextKept' /\ [B!Step]_B!bsvars
<1>1. /\ BufferInv /\ Seen(st) /\ Lines(st) /\ ~mode.bin /\ (~open => ~st.out)
      /\ BufferInv' /\ Seen(st)'
  BY SeenSteps DEF TextKept
<1>2. ASSUME mode' = mode PROVE Seen(st')
  BY <1>1, <1>2 DEF Seen, Shaped, Window, NulFree
<1>3. ASSUME B!Step, open', ~mode'.bin, Lines(st') PROVE TextKept' /\ [B!Step]_B!bsvars
  <2>1. TextKept'
    <3>1. (~open => ~st.out)' /\ (~mode.bin)'
      BY <1>3
    <3>2. Lines(st)'
      BY <1>3 DEF Lines, Paired, All, Place, Overlay, CR, LF
    <3> QED BY <1>1, <3>1, <3>2 DEF TextKept
  <2>2. [B!Step]_B!bsvars
    BY <1>3
  <2> QED BY <2>1, <2>2
<1>4. CASE fopen
  <2>1. open' /\ ~st.out
    BY <1>1, <1>4 DEF fopen
  <2>2. B!Step /\ Lines(st') /\ ~mode'.bin
    BY <1>1, <1>4, <2>1, TextOpen
  <2> QED BY <1>3, <2>1, <2>2
<1>5. CASE fclose
  <2>1. mode' = mode
    BY <1>5 DEF fclose, Call
  <2>2. B!Step /\ Lines(st') /\ ~st'.out
    BY <1>1, <1>5, <2>1, TextClose
  <2>3. Lines(st)'
    BY <2>2 DEF Lines, Paired, All, Place, Overlay, CR, LF
  <2> QED BY <1>1, <2>1, <2>2, <2>3 DEF TextKept
<1>6. ASSUME open, mode' = mode, open' = open, B!Step, Lines(st') PROVE TextKept' /\ [B!Step]_B!bsvars
  BY <1>1, <1>3, <1>6
<1>7. CASE fgetc
  <2>1. open /\ mode' = mode /\ open' = open
    BY <1>7 DEF fgetc, Call, Stays
  <2>2. CASE mode.read
    <3>1. B!Step /\ Lines(st')
      BY <1>1, <1>7, <2>1, <2>2, TextGet
    <3> QED BY <1>6, <2>1, <3>1
  <2>3. CASE ~mode.read
    <3>1. st' = SetErr(st, TRUE) /\ ret' = EOF
      BY <1>7, <2>3 DEF fgetc, Refused, Returns, SetErr
    <3> DEFINE v == TRUE
    <3>2. v \in BOOLEAN /\ st' = SetErr(st, v) /\ ret' = (IF v THEN EOF ELSE 0) /\ ~mode'.bin
      BY <1>1, <2>1, <3>1
    <3> HIDE DEF v
    <3>3. B!Step /\ Lines(st')
      BY <1>1, <3>2, TextErr
    <3> QED BY <1>6, <2>1, <3>3
  <2> QED BY <2>2, <2>3
<1>8. ASSUME NEW c \in Letters \cup {LF}, MayWrite, fputc(c) PROVE TextKept' /\ [B!Step]_B!bsvars
  <2>1. open /\ mode' = mode /\ open' = open /\ ~st.in
    BY <1>8 DEF fputc, Call, Stays, MayWrite
  <2>2. B!Step /\ Lines(st')
    BY <1>1, <1>8, <2>1, TextPut
  <2> QED BY <1>6, <2>1, <2>2
<1>9. CASE MayWrite /\ fputc_lf
  <2>1. open /\ mode' = mode /\ open' = open /\ ~st.in
    BY <1>9 DEF fputc_lf, Call, Stays, MayWrite
  <2>2. B!Step /\ Lines(st')
    BY <1>1, <1>9, <2>1, TextLine
  <2> QED BY <1>6, <2>1, <2>2
<1>10. CASE fputc_refused \/ clearerr
  <2>1. open /\ mode' = mode /\ open' = open
    BY <1>10 DEF fputc_refused, clearerr, Call, Stays
  <2>2. PICK v \in BOOLEAN : st' = [st EXCEPT !.err = v] /\ ret' = (IF v THEN EOF ELSE 0)
    BY <1>10 DEF fputc_refused, clearerr, Refused, Returns
  <2>3. st' = SetErr(st, v) /\ ~mode'.bin
    BY <1>1, <2>1, <2>2 DEF SetErr
  <2>4. B!Step /\ Lines(st')
    BY <1>1, <2>2, <2>3, TextErr
  <2> QED BY <1>6, <2>1, <2>4
<1>11. CASE ~st.in /\ fflush
  <2>1. open /\ mode' = mode /\ open' = open
    BY <1>11 DEF fflush, Call, Stays
  <2>2. B!Step /\ Lines(st')
    BY <1>1, <1>11, <2>1, TextFlush
  <2> QED BY <1>6, <2>1, <2>2
<1>12. ASSUME NEW origin, origin = "SEEK_SET" \/ origin = "SEEK_END", fseek(0, origin)
       PROVE  TextKept' /\ [B!Step]_B!bsvars
  <2>1. open /\ mode' = mode /\ open' = open
    BY <1>12 DEF fseek, Call, Stays
  <2>2. B!Step /\ Lines(st')
    BY <1>1, <1>2, <1>12, <2>1, TextSeek
  <2> QED BY <1>6, <2>1, <2>2
<1>13. CASE MayPushBack /\ ungetc(Contents[At])
  <2>1. open /\ mode' = mode /\ open' = open
    BY <1>13 DEF ungetc, Call, Stays
  <2>2. B!Step /\ Lines(st')
    BY <1>1, <1>13, <2>1, TextUnget
  <2> QED BY <1>6, <2>1, <2>2
<1>14. CASE UNCHANGED vars
  <2>1. st' = st /\ mode' = mode /\ open' = open /\ ret' = ret /\ cut' = cut
    BY <1>14 DEF vars
  <2>2. Contents' = Contents /\ Reading(st.bytes)' = Reading(st.bytes) /\ At' = At
    BY <1>1, <2>1, TextView, TextViewNext
  <2>3. UNCHANGED B!bsvars
    BY <2>1, <2>2 DEF B!bsvars
  <2>4. Lines(st')
    BY <1>1, <2>1
  <2>5. Lines(st)'
    BY <2>4 DEF Lines, Paired, All, Place, Overlay, CR, LF
  <2> QED BY <1>1, <2>1, <2>3, <2>5 DEF TextKept
<1>15. ASSUME NEW p, fseek(p, "SEEK_SET"), mode.bin \/ p = 0 PROVE TextKept' /\ [B!Step]_B!bsvars
  BY <1>1, <1>12, <1>15
<1>16. CASE fgetpos
  <2>1. st' = st /\ open /\ mode' = mode /\ open' = open /\ ret' \in Int
    BY <1>1, <1>16 DEF fgetpos, Call, Stays, BufferInv
  <2>2. Contents' = Contents /\ Reading(st.bytes)' = Reading(st.bytes) /\ At' = At
    BY <1>1, <2>1, TextView, TextViewNext
  <2>3. B!Tell
    BY <2>1, <2>2 DEF B!Tell
  <2>4. B!Step /\ Lines(st')
    BY <1>1, <2>1, <2>3 DEF B!Step
  <2> QED BY <1>6, <2>1, <2>4
<1> QED BY <1>1, <1>4, <1>5, <1>7, <1>8, <1>9, <1>10, <1>11, <1>12, <1>13, <1>14, <1>15, <1>16, Zenon
        DEF Next, TextKept

TextInv == BufferInv /\ cut \in BOOLEAN /\ ~mode.bin /\ (cut = FALSE => TextKept)

LEMMA TextNextStep ==
  ASSUME TextInv, [Next]_vars
  PROVE  TextInv' /\ [B!Next]_B!bsvars
<1>1. BufferInv' /\ cut' \in BOOLEAN /\ ~mode'.bin /\ (cut' = FALSE => cut = FALSE)
  BY Steps, CutKept, KindKept DEF TextInv
<1>2. CASE cut' = TRUE
  BY <1>1, <1>2 DEF TextInv, B!Next
<1>3. CASE cut' = FALSE
  <2>1. cut = FALSE /\ TextKept
    BY <1>1, <1>3 DEF TextInv
  <2>2. TextKept' /\ [B!Step]_B!bsvars
    BY <1>3, <2>1, TextSteps
  <2> QED BY <1>1, <1>3, <2>1, <2>2 DEF TextInv, B!Next
<1> QED BY <1>1, <1>2, <1>3

\* So does a text stream, for texts without a NUL whose LFs all stand behind a
\* CR: line ends are read as one character whether they are kept as CR or as
\* CR and LF, wherever a buffer or a read ahead ends between the two, and what
\* was put, a line at once or letter by letter, is read back so.
THEOREM TextStreamsAreByteStreams ==
  ASSUME \A b \in TextFiles : Clean(b) /\ Paired(b)
  PROVE  Spec /\ ~mode.bin => IsByteStream
<1>1. Init /\ ~mode.bin => TextInv /\ B!Init
  <2> SUFFICES ASSUME Init, ~mode.bin PROVE TextInv /\ B!Init
    OBVIOUS
  <2>1. BufferInv /\ Shaped(st) /\ mode \in Modes
    BY Starts DEF BufferInv
  <2>2. /\ st.bytes \in Seq(Chars) /\ st.pos = 0 /\ st.in = FALSE /\ st.out = FALSE /\ st.err = FALSE
        /\ open = TRUE /\ ret = 0 /\ cut = FALSE /\ Clean(st.bytes) /\ Paired(st.bytes)
    <3>1. PICK b \in IF ~mode.read THEN {<< >>} ELSE IF mode.bin THEN BinFiles ELSE TextFiles :
            /\ st.bytes = b /\ st.pos = 0 /\ st.in = FALSE /\ st.out = FALSE /\ st.err = FALSE
      BY DEF Init
    <3>2. open = TRUE /\ ret = 0 /\ cut = FALSE
      BY DEF Init
    <3>3. Clean(b) /\ Paired(b)
      <4>1. CASE b = << >>
        BY <4>1 DEF Clean, Paired
      <4> QED BY <3>1, <4>1
    <3> QED BY <2>1, <3>1, <3>2, <3>3, Fields DEF Shaped
  <2>3. Seen(st)
    BY <2>1, <2>2 DEF Seen, Window, NulFree
  <2>4. Lines(st)
    BY <2>1, <2>2, LinesRest
  <2>5. Idle(st)
    BY <2>2 DEF Idle
  <2>6. Contents = Text(st.bytes) /\ Reading(st.bytes) = Text(st.bytes) /\ At = ReadTo(st.bytes, 0)
    BY <2>2, <2>5, TextView, IdleView
  <2>7. Text(st.bytes) \in Seq(Chars) /\ ReadTo(st.bytes, 0) = 0
    <3> DEFINE a == st.bytes
    <3>1. a \in Seq(Chars) /\ Clean(a) /\ Paired(a) /\ 0 \in 0 .. Len(a)
      BY <2>2, LenProperties
    <3> HIDE DEF a
    <3>2. Text(a) \in Seq(Chars) /\ ReadTo(a, 0) = 0
      BY <3>1, TextPoint, ReadToIs
    <3> QED BY <3>2 DEF a
  <2>8. B!Init
    BY <2>2, <2>6, <2>7 DEF B!Init
  <2> QED BY <2>1, <2>2, <2>3, <2>4, <2>8 DEF TextInv, TextKept
<1>2. TextInv /\ [Next]_vars => TextInv' /\ [B!Next]_B!bsvars
  BY TextNextStep
<1> QED BY <1>1, <1>2, PTL DEF Spec, IsByteStream, B!Spec

\* Every stream is one or the other.
THEOREM StreamsAreByteStreams ==
  ASSUME \A b \in TextFiles : Clean(b) /\ Paired(b)
  PROVE  Spec => IsByteStream
<1>1. Spec /\ mode.bin => IsByteStream
  BY BinaryStreamsAreByteStreams
<1>2. Spec /\ ~mode.bin => IsByteStream
  BY TextStreamsAreByteStreams
<1> QED BY <1>1, <1>2

=============================================================================
