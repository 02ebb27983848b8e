-------------------------------- MODULE Heap --------------------------------
(***************************************************************************)
(* The heap of nkc/first.c behind malloc, free and realloc: one list of    *)
(* blocks, each with a header in front, taken first fit and merged with    *)
(* their free neighbours when they are given back.                         *)
(*                                                                         *)
(* heap maps the address of every header in the list to its fields; the    *)
(* field start is always the address behind the header.  A walk along the  *)
(* list meets headers in the order of their addresses (Tiled says so), so  *)
(* the first one that fits is the lowest one.  Sums are taken to stay      *)
(* below 2^32.                                                             *)
(***************************************************************************)
EXTENDS Integers

CONSTANTS
  HEAP,        \* _HEAP: where the heap begins
  RAM_TOP,     \* _RAM_TOP: where it ends
  HDR,         \* sizeof(struct block_header)
  Requests,    \* sizes clients ask for
  Pointers     \* what clients pass to free and realloc, stale ones included

ASSUME HeapAssumption ==
  /\ HEAP \in Nat \ {0} /\ RAM_TOP \in Nat /\ HDR \in Nat \ {0}
  /\ HEAP + HDR <= RAM_TOP
  /\ Requests \subseteq Nat
  /\ Pointers \subseteq Nat

VARIABLES
  heap,        \* the headers in the list, by address
  ret          \* what the last malloc or realloc returned

vars == <<heap, ret>>

block_header == [size : Nat, next : Nat, free : BOOLEAN]

\* The address behind the block at l.
End(hp, l) == l + HDR + hp[l].size

Least(S) == CHOOSE x \in S : \A y \in S : x <= y

-----------------------------------------------------------------------------
mm_init == [l \in {HEAP} |-> [size |-> RAM_TOP - HEAP - HDR, next |-> 0, free |-> TRUE]]

\* Mutant: room for the header of the rest is not asked for.
FittingExactly(hp, n) == {l \in DOMAIN hp : hp[l].free /\ hp[l].size >= n}

Fitting(hp, n) == {l \in DOMAIN hp : hp[l].free /\ hp[l].size >= n + HDR}

\* Mutants: the rest keeps the size of the whole block; the rest is the end
\* of the list.
SplitUnshrunk(hp, l, n) ==
  LET next == l + n + HDR IN
  [k \in DOMAIN hp \cup {next} |->
     CASE k = l -> [size |-> n, next |-> next, free |-> FALSE]
       [] k = next -> [size |-> hp[l].size - n, next |-> hp[l].next, free |-> TRUE]
       [] OTHER -> hp[k]]
SplitUnlinked(hp, l, n) ==
  LET next == l + n + HDR IN
  [k \in DOMAIN hp \cup {next} |->
     CASE k = l -> [size |-> n, next |-> next, free |-> FALSE]
       [] k = next -> [size |-> hp[l].size - n - HDR, next |-> 0, free |-> TRUE]
       [] OTHER -> hp[k]]

\* The block at l is cut to n bytes; what is left of it becomes a free block.
Split(hp, l, n) ==
  LET next == l + n + HDR IN
  [k \in DOMAIN hp \cup {next} |->
     CASE k = l -> [size |-> n, next |-> next, free |-> FALSE]
       [] k = next -> [size |-> hp[l].size - n - HDR, next |-> hp[l].next, free |-> TRUE]
       [] OTHER -> hp[k]]

ll_malloc(hp, n) ==
  IF Fitting(hp, n) = {} THEN [heap |-> hp, ret |-> 0]
  ELSE LET l == Least(Fitting(hp, n)) IN [heap |-> Split(hp, l, n), ret |-> l + HDR]

Freed(hp, l) == [hp EXCEPT ![l].free = TRUE]

\* Mutant: the header between the two blocks is not gained.
MergedHeaderless(hp, l) ==
  LET next == hp[l].next IN
  [k \in DOMAIN hp \ {next} |->
     IF k = l THEN [hp[l] EXCEPT !.next = hp[next].next, !.size = @ + hp[next].size]
     ELSE hp[k]]

\* The block at l swallows the one behind it.
Merged(hp, l) ==
  LET next == hp[l].next IN
  [k \in DOMAIN hp \ {next} |->
     IF k = l THEN [hp[l] EXCEPT !.next = hp[next].next, !.size = @ + hp[next].size + HDR]
     ELSE hp[k]]

MergeNext(hp, l) ==
  IF hp[l].next # 0 /\ hp[hp[l].next].free THEN Merged(hp, l) ELSE hp

\* The block whose link leads to l, if that block is free.
FreePrev(hp, l) == {p \in DOMAIN hp : hp[p].next = l /\ hp[p].free}

\* Mutant: only the block behind is merged.
ll_free_forward(hp, b) ==
  IF b - HDR \notin DOMAIN hp THEN hp ELSE MergeNext(Freed(hp, b - HDR), b - HDR)

ll_free(hp, b) ==
  LET l == b - HDR IN
  IF l \notin DOMAIN hp THEN hp
  ELSE IF FreePrev(hp, l) = {} THEN MergeNext(Freed(hp, l), l)
  ELSE LET p == Least(FreePrev(hp, l)) IN MergeNext(Merged(Freed(hp, l), p), p)

-----------------------------------------------------------------------------
Init == heap = mm_init /\ ret = 0

malloc(n) ==
  /\ heap' = ll_malloc(heap, n).heap
  /\ ret' = ll_malloc(heap, n).ret

free(b) == heap' = ll_free(heap, b) /\ ret' = ret

\* The old block is freed whether or not there was memory for the new one.
realloc(b, n) ==
  LET new == ll_malloc(heap, n) IN
  /\ heap' = ll_free(new.heap, b)
  /\ ret' = new.ret

\* The end of the program: the start-up code initialises the heap again.
mm_free == heap' = mm_init /\ ret' = 0

\* Clients give back what they hold, nothing (0), or what they gave back
\* already; what realloc is called with is never the block it just took.
Next ==
  \/ \E n \in Requests : malloc(n)
  \/ \E b \in Pointers : free(b)
  \/ \E b \in Pointers, n \in Requests :
       (b # 0 => b # ll_malloc(heap, n).ret) /\ realloc(b, n)
  \/ mm_free

Spec == Init /\ [][Next]_vars

-----------------------------------------------------------------------------
(* Properties *)

Typed(hp) ==
  /\ DOMAIN hp \subseteq HEAP .. RAM_TOP
  /\ hp \in [DOMAIN hp -> block_header]

\* Headers lie inside the heap and keep their fields' types.
TypeOK == Typed(heap) /\ ret \in Nat

Tiles(hp) ==
  /\ HEAP \in DOMAIN hp
  /\ \A l \in DOMAIN hp :
       \/ hp[l].next = End(hp, l) /\ End(hp, l) \in DOMAIN hp
       \/ hp[l].next = 0 /\ End(hp, l) = RAM_TOP
  /\ \A l, k \in DOMAIN hp : l < k => End(hp, l) <= k

\* The blocks of the list tile the heap: the list starts at its beginning,
\* each link leads to the byte behind the block, the last block ends at the
\* top, and no two blocks share a byte, in whatever order blocks are taken
\* and given back (first.c, _ll_malloc and _ll_free).
Tiled == Tiles(heap)

\* No block outside L is free together with the one behind it.
MergedBut(hp, L) ==
  \A k \in DOMAIN hp \ L : hp[k].free /\ hp[k].next # 0 => ~hp[hp[k].next].free

\* No two neighbours are free: every merge _ll_free owes is made, so memory
\* does not stay in pieces.
Coalesced == MergedBut(heap, {})

\* Nothing leaks: when every block was given back, in any order, the heap is
\* again the one block it was at the start.
NothingLost == (\A l \in DOMAIN heap : heap[l].free) => heap = mm_init

\* The regions clients hold, for Allocator.
Taken(hp) == {l \in DOMAIN hp : ~hp[l].free}
HeldIn(hp) == {[start |-> l + HDR, size |-> hp[l].size] : l \in Taken(hp)}
held == HeldIn(heap)

A == INSTANCE Allocator WITH
       LOW <- HEAP, HIGH <- RAM_TOP, OVERHEAD <- HDR, owned <- held

\* The list of blocks does what malloc, free and realloc promise: regions in
\* use never move, shrink or touch, a stale pointer given back a second time
\* with nothing taken in between harms nobody, and memory is refused only
\* when no gap is large enough.
Promises == A!ASpec

=============================================================================
