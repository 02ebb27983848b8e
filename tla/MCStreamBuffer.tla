--------------------------- MODULE MCStreamBuffer ---------------------------
(* Constants for the runs of StreamBuffer.                                  *)
EXTENDS StreamBuffer

Numbers == {97}
SomeBinFiles == {<<97, NUL, 97>>}
SomeTextFiles == {<<CR, LF>>, <<97, CR>>}
\* With these TextIsRead does not hold.
PaddedTextFiles == {<<97, NUL>>}
=============================================================================
