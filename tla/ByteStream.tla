----------------------------- MODULE ByteStream -----------------------------
(***************************************************************************)
(* What a client of a stream counts on, with no buffer in sight: there is  *)
(* a sequence of characters and a place in it.  Characters that were put   *)
(* are handed over to the file some time, at the latest by a flush, a seek *)
(* or the end; if that fails, some of them are lost and the stream says    *)
(* so.  Once it did not notice, nothing more is promised.                  *)
(***************************************************************************)
EXTENDS Integers, Sequences

CONSTANTS
  Chars,      \* numbers
  EOF

VARIABLES
  contents,   \* what a client reads
  handed,     \* what the file holds
  at,         \* characters before the client's place
  err,        \* the error indicator
  ret,        \* what the last call returned
  cut         \* some of what was handed over did not arrive, and the stream
              \* did not notice

bsvars == <<contents, handed, at, err, ret, cut>>

\* s with the characters c written after its first p.
Overlay(s, p, c) ==
  [i \in 1 .. (IF p + Len(c) > Len(s) THEN p + Len(c) ELSE Len(s)) |->
     IF i \in p + 1 .. p + Len(c) THEN c[i - p] ELSE s[i]]

\* m came about when only part of the way from old to new was gone.
PartWay(m, old, new) ==
  /\ Len(m) \in Len(old) .. Len(new)
  /\ \A i \in 1 .. Len(m) : m[i] = new[i] \/ (i <= Len(old) /\ m[i] = old[i])

Init ==
  /\ contents \in Seq(Chars) /\ handed = contents
  /\ at = 0 /\ err = FALSE /\ ret = 0 /\ cut = FALSE

Get ==
  /\ IF at < Len(contents) THEN ret' = contents[at + 1] /\ at' = at + 1
                           ELSE ret' = EOF /\ at' = at
  /\ handed' \in {handed, contents}
  /\ UNCHANGED <<contents, err>>

Put(c) ==
  /\ contents' = Overlay(contents, at, <<c>>)
  /\ at' = at + 1 /\ ret' = c
  /\ handed' \in {handed, contents, contents'}
  /\ UNCHANGED err

Unget ==
  /\ at > 0 /\ at' = at - 1 /\ ret' = contents[at]
  /\ handed' \in {handed, contents}
  /\ UNCHANGED <<contents, err>>

\* What it answers is not the place.
Tell == ret' \in Int /\ UNCHANGED <<contents, handed, at, err>>

Flush == handed' = contents /\ ret' = 0 /\ UNCHANGED <<contents, at, err>>

Seek(p) ==
  /\ at' = p /\ handed' = contents
  /\ ret' \in {0, EOF} /\ err' = (err \/ ret' = EOF)
  /\ UNCHANGED contents

\* A stream that is not for reading, or for writing, refuses.
Refuse == ret' = EOF /\ err' = TRUE /\ UNCHANGED <<contents, handed, at>>

\* A call did not get everything to the file.
Lose ==
  /\ err' = TRUE
  /\ \E new \in {contents} \cup {Overlay(contents, at, <<c>>) : c \in Chars} :
       PartWay(contents', handed, new)
  /\ handed' = contents' /\ at' \in 0 .. Len(contents')
  /\ ret' \in Chars \cup {0, EOF}

Clear == err' = FALSE /\ ret' = 0 /\ UNCHANGED <<contents, handed, at>>

Close == handed' = contents /\ ret' \in {0, EOF} /\ UNCHANGED <<contents, at, err>>

\* What the file holds is what there is from then on.
Open ==
  /\ at' = 0 /\ err' = FALSE /\ ret' = 0
  /\ handed = contents /\ UNCHANGED <<contents, handed>>

\* What a stream does as long as it noticed everything.
Step ==
  \/ Get \/ (\E c \in Chars : Put(c)) \/ Unget \/ Tell \/ Flush
  \/ (\E p \in 0 .. Len(contents) : Seek(p))
  \/ Refuse \/ Lose \/ Clear \/ Close \/ Open

Next ==
  \/ cut' = TRUE
  \/ cut = FALSE /\ cut' = FALSE /\ Step

Spec == Init /\ [][Next]_bsvars

=============================================================================
