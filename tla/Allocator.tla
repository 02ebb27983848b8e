----------------------------- MODULE Allocator -----------------------------
(***************************************************************************)
(* What malloc, free and realloc promise their callers, without a word     *)
(* about blocks, headers' contents or lists: the regions handed out and    *)
(* not given back lie in the heap and apart from one another, and memory   *)
(* is refused only when no gap between them is large enough.               *)
(***************************************************************************)
EXTENDS Integers

CONSTANTS
  LOW, HIGH,   \* the heap: addresses LOW .. HIGH - 1
  OVERHEAD,    \* bytes each region costs in front of it
  Requests,    \* sizes clients ask for
  Pointers     \* what clients pass to free and realloc

VARIABLES
  owned,       \* the regions clients hold
  ret          \* what the last malloc or realloc returned, 0 for failure

avars == <<owned, ret>>

Within(x, y) == LOW <= x /\ y <= HIGH

\* The bytes x .. y - 1 touch neither region r nor what lies in front of it.
Clear(x, y, r) == y <= r.start - OVERHEAD \/ r.start + r.size <= x

\* A region of n bytes at p, with its overhead, is free.
Vacant(p, n) ==
  Within(p - OVERHEAD, p + n) /\ \A r \in owned : Clear(p - OVERHEAD, p + n, r)

\* A gap takes n bytes, their overhead and that of what is left of the gap.
Room(n) == \E p \in LOW .. HIGH : Vacant(p, n + OVERHEAD)

AInit == owned = {} /\ ret = 0

Grant(n) ==
  \E p \in LOW + OVERHEAD .. HIGH :
    /\ Vacant(p, n)
    /\ owned' = owned \cup {[start |-> p, size |-> n]}
    /\ ret' = p

Refuse(n) == ~Room(n) /\ ret' = 0 /\ owned' = owned

Without(b) == {r \in owned : r.start # b}

\* Giving back what is not held (a null pointer, a second time) does nothing.
GiveBack(b) == owned' = Without(b) /\ ret' = ret

\* The new region is found while the old one is still held; the old one is
\* given back in either case.
Exchange(b, n) ==
  \/ \E p \in LOW + OVERHEAD .. HIGH :
       /\ Vacant(p, n)
       /\ owned' = Without(b) \cup {[start |-> p, size |-> n]}
       /\ ret' = p
  \/ ~Room(n) /\ ret' = 0 /\ owned' = Without(b)

Drop == owned' = {} /\ ret' = 0

ANext ==
  \/ \E n \in Requests : Grant(n) \/ Refuse(n)
  \/ \E b \in Pointers : GiveBack(b)
  \/ \E b \in Pointers, n \in Requests : Exchange(b, n)
  \/ Drop

ASpec == AInit /\ [][ANext]_avars

=============================================================================
