----------------------------- MODULE MCJadosFS -----------------------------
(* Constants for the runs of JadosFSProps.                                  *)
EXTENDS JadosFSProps, TLC

\* Streams fopen opens with "r" and with "w" or "a".
PlainFlags == { {"READ"}, {"WRIT", "CREATE"} }
\* "w" and "a" only.
CreateFlags == { {"WRIT", "CREATE"} }
\* "r", "w", "a" and "r+".
UpdateFlags == PlainFlags \cup { {"READ", "WRIT"} }

NoSeeks == {}
OneSeek == { <<0, "END">> }

Symmetric == Permutations(Names) \cup Permutations(Fds)

\* What decides which steps are possible and what becomes of the volume in
\* memory: not the contents of clusters and buffers, nor (while nothing is
\* mounted again) the medium, nor what calls reported.
VolumeView ==
  <<fat, dir, call, [h \in Fds |-> IF fcb[h] = NULL THEN NULL ELSE [fcb[h] EXCEPT !.buf = NULL]]>>
=============================================================================
