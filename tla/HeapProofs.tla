----------------------------- MODULE HeapProofs -----------------------------
(* The heap keeps its shape and does what Allocator promises, for heaps of  *)
(* every size and whatever clients ask for.                                 *)
(*                                                                          *)
(* A heap is sound when its blocks are typed, tile the memory between HEAP  *)
(* and RAM_TOP, and leave no byte uncovered.  Splitting, freeing and        *)
(* merging each keep it sound; which neighbours may still be free is        *)
(* followed through the steps of ll_free by MergedBut.                      *)
EXTENDS Heap, NaturalsInduction, WellFoundedInduction, TLAPS

Covers(hp) ==
  \A x \in HEAP .. RAM_TOP - 1 : \E l \in DOMAIN hp : l <= x /\ x < End(hp, l)

Sound(hp) == Typed(hp) /\ Tiles(hp) /\ Covers(hp)

\* The least element of a set of numbers is one of its members.
LEMMA LeastMember ==
  ASSUME NEW S \in SUBSET Nat, S # {}
  PROVE  Least(S) \in S
<1> DEFINE R == OpToRel(<, Nat)
<1>1. IsWellFoundedOn(R, Nat)
  BY NatLessThanWellFounded
<1>2. \A x, y \in Nat : <<x, y>> \in R <=> x < y
  BY DEF OpToRel
<1> HIDE DEF R
<1>3. PICK x \in S : \A y \in S : ~(<<y, x>> \in R)
  BY <1>1, WFMin, Zenon
<1>4. ASSUME NEW y \in S PROVE x <= y
  <2>1. x \in Nat /\ y \in Nat /\ ~(y < x)
    BY <1>2, <1>3
  <2> QED BY <2>1
<1> QED BY <1>4 DEF Least

\* What a sound heap says of one block.
LEMMA Block ==
  ASSUME NEW hp, Sound(hp), NEW l \in DOMAIN hp
  PROVE  /\ l \in Nat /\ HEAP <= l
         /\ hp[l].size \in Nat /\ hp[l].next \in Nat /\ hp[l].free \in BOOLEAN
         /\ End(hp, l) \in Nat /\ l < End(hp, l) /\ End(hp, l) <= RAM_TOP
         /\ hp[l].next # 0 => hp[l].next \in DOMAIN hp /\ hp[l].next = End(hp, l)
         /\ hp[l].next = 0 => End(hp, l) = RAM_TOP
<1>1. l \in HEAP .. RAM_TOP /\ hp[l] \in block_header
  BY DEF Sound, Typed
<1>2. l \in Nat /\ HEAP <= l /\ HEAP > 0 /\ HDR > 0 /\ HDR \in Nat /\ RAM_TOP \in Nat
  BY <1>1, HeapAssumption
<1>3. hp[l].size \in Nat /\ hp[l].next \in Nat /\ hp[l].free \in BOOLEAN
  BY <1>1 DEF block_header
<1>4. End(hp, l) \in Nat /\ l < End(hp, l)
  BY <1>2, <1>3 DEF End
<1>5. \/ hp[l].next = End(hp, l) /\ End(hp, l) \in DOMAIN hp
      \/ hp[l].next = 0 /\ End(hp, l) = RAM_TOP
  BY DEF Sound, Tiles
<1>6. End(hp, l) \in DOMAIN hp => End(hp, l) <= RAM_TOP
  BY <1>2 DEF Sound, Typed
<1> QED BY <1>2, <1>3, <1>4, <1>5, <1>6

LEMMA BlocksApart ==
  ASSUME NEW hp, Sound(hp), NEW l \in DOMAIN hp, NEW k \in DOMAIN hp, l < k
  PROVE  End(hp, l) <= k
BY DEF Sound, Tiles

-----------------------------------------------------------------------------
(* The steps of _ll_malloc and _ll_free *)

LEMMA InitSound == Sound(mm_init) /\ MergedBut(mm_init, {})
<1>1. DOMAIN mm_init = {HEAP} /\ HEAP \in HEAP .. RAM_TOP
  BY HeapAssumption DEF mm_init
<1>2. /\ mm_init[HEAP].size = RAM_TOP - HEAP - HDR
      /\ mm_init[HEAP].next = 0 /\ mm_init[HEAP].free = TRUE
  BY DEF mm_init
<1>3. RAM_TOP - HEAP - HDR \in Nat
  BY HeapAssumption
<1>4. Typed(mm_init)
  BY <1>1, <1>3 DEF Typed, mm_init, block_header
<1>5. End(mm_init, HEAP) = RAM_TOP
  BY <1>2, HeapAssumption DEF End
<1>6. Tiles(mm_init)
  BY <1>1, <1>2, <1>5, HeapAssumption DEF Tiles
<1>7. Covers(mm_init)
  BY <1>1, <1>5, HeapAssumption DEF Covers
<1> QED BY <1>1, <1>2, <1>4, <1>6, <1>7 DEF Sound, MergedBut

\* Split leaves a block of n bytes at l and a free one of the rest behind it.
SplitAt(hp, l, n, next, new) ==
  /\ l \in DOMAIN hp /\ next \in Nat /\ l < next /\ next \notin DOMAIN hp
  /\ next + HDR <= End(hp, l)
  /\ DOMAIN new = DOMAIN hp \cup {next}
  /\ new[l] = [size |-> n, next |-> next, free |-> FALSE]
  /\ new[next] = [size |-> hp[l].size - n - HDR, next |-> hp[l].next, free |-> TRUE]
  /\ hp[l].size - n - HDR \in Nat
  /\ \A k \in DOMAIN hp \ {l} : new[k] = hp[k]
  /\ End(new, l) = next /\ End(new, next) = End(hp, l)
  /\ \A k \in DOMAIN hp \ {l} : End(new, k) = End(hp, k)

LEMMA SplitBlocks ==
  ASSUME NEW hp, Sound(hp), NEW n \in Nat, NEW l \in Fitting(hp, n)
  PROVE  SplitAt(hp, l, n, l + n + HDR, Split(hp, l, n))
<1> DEFINE next == l + n + HDR
           new == Split(hp, l, n)
<1>1. l \in DOMAIN hp /\ hp[l].size >= n + HDR /\ hp[l].free
  BY DEF Fitting
<1>2. l \in Nat /\ hp[l].size \in Nat /\ HDR \in Nat /\ HDR > 0
  BY <1>1, Block, HeapAssumption
<1>3. next \in Nat /\ l < next /\ next + HDR <= End(hp, l)
  BY <1>1, <1>2 DEF End
<1>4. next \notin DOMAIN hp
  <2> SUFFICES ASSUME next \in DOMAIN hp PROVE FALSE
    OBVIOUS
  <2>1. End(hp, l) <= next
    BY <1>1, <1>3, BlocksApart
  <2> QED BY <2>1, <1>1, <1>2, <1>3, Block
<1>5. /\ DOMAIN new = DOMAIN hp \cup {next}
      /\ new[l] = [size |-> n, next |-> next, free |-> FALSE]
      /\ new[next] = [size |-> hp[l].size - n - HDR, next |-> hp[l].next, free |-> TRUE]
      /\ \A k \in DOMAIN hp \ {l} : new[k] = hp[k]
  BY <1>1, <1>2, <1>3, <1>4 DEF Split
<1>6. hp[l].size - n - HDR \in Nat
  BY <1>1, <1>2
<1>7. End(new, l) = next /\ End(new, next) = End(hp, l)
  BY <1>2, <1>5, <1>6 DEF End
<1>8. \A k \in DOMAIN hp \ {l} : End(new, k) = End(hp, k)
  BY <1>5 DEF End
<1> QED BY <1>1, <1>3, <1>4, <1>5, <1>6, <1>7, <1>8 DEF SplitAt

LEMMA SplitSound ==
  ASSUME NEW hp, Sound(hp), NEW n \in Nat, NEW l \in Fitting(hp, n)
  PROVE  Sound(Split(hp, l, n))
<1> DEFINE next == l + n + HDR
           new == Split(hp, l, n)
<1> HIDE DEF new
<1>0. SplitAt(hp, l, n, next, new)
  BY SplitBlocks DEF new
<1>1. /\ l \in DOMAIN hp /\ next \in Nat /\ l < next /\ next \notin DOMAIN hp
      /\ next + HDR <= End(hp, l)
      /\ DOMAIN new = DOMAIN hp \cup {next}
      /\ new[l] = [size |-> n, next |-> next, free |-> FALSE]
      /\ new[next] = [size |-> hp[l].size - n - HDR, next |-> hp[l].next, free |-> TRUE]
      /\ hp[l].size - n - HDR \in Nat
      /\ \A k \in DOMAIN hp \ {l} : new[k] = hp[k]
      /\ End(new, l) = next /\ End(new, next) = End(hp, l)
      /\ \A k \in DOMAIN hp \ {l} : End(new, k) = End(hp, k)
  BY <1>0 DEF SplitAt
<1>2. l \in Nat /\ HEAP <= l /\ End(hp, l) \in Nat /\ End(hp, l) <= RAM_TOP
      /\ hp[l].next \in Nat /\ HDR \in Nat /\ HDR > 0 /\ HEAP \in Nat /\ RAM_TOP \in Nat
  BY <1>1, Block, HeapAssumption
<1>3. Typed(new)
  <2>1. next \in HEAP .. RAM_TOP
    <3>1. HEAP <= next /\ next <= RAM_TOP
      BY <1>1, <1>2
    <3> QED BY <3>1, <1>1, <1>2
  <2>2. DOMAIN new \subseteq HEAP .. RAM_TOP
    BY <1>1, <2>1 DEF Sound, Typed
  <2>3. ASSUME NEW k \in DOMAIN new PROVE new[k] \in block_header
    <3>1. CASE k = l
      <4>1. [size |-> n, next |-> next, free |-> FALSE] \in block_header
        BY <1>1 DEF block_header
      <4> QED BY <1>1, <3>1, <4>1
    <3>2. CASE k = next
      <4>1. [size |-> hp[l].size - n - HDR, next |-> hp[l].next, free |-> TRUE] \in block_header
        BY <1>1, <1>2 DEF block_header
      <4> QED BY <1>1, <3>2, <4>1
    <3>3. CASE k \in DOMAIN hp \ {l}
      BY <1>1, <3>3 DEF Sound, Typed
    <3> QED BY <1>1, <3>1, <3>2, <3>3
  <2>4. new = [k \in DOMAIN new |-> new[k]]
    BY DEF new, Split
  <2> QED BY <2>2, <2>3, <2>4 DEF Typed
<1>4. Tiles(new)
  <2>1. HEAP \in DOMAIN new
    BY <1>1 DEF Sound, Tiles
  <2>2. ASSUME NEW k \in DOMAIN new
        PROVE  \/ new[k].next = End(new, k) /\ End(new, k) \in DOMAIN new
               \/ new[k].next = 0 /\ End(new, k) = RAM_TOP
    <3>1. CASE k = l
      BY <1>1, <3>1
    <3>2. CASE k = next
      BY <1>1, <3>2 DEF Sound, Tiles
    <3>3. CASE k \in DOMAIN hp \ {l}
      BY <1>1, <3>3 DEF Sound, Tiles
    <3> QED BY <1>1, <3>1, <3>2, <3>3
  <2>3. ASSUME NEW j \in DOMAIN new, NEW k \in DOMAIN new, j < k
        PROVE  End(new, j) <= k
    <3>1. CASE j = l
      <4>1. CASE k \in DOMAIN hp
        BY <1>1, <1>2, <2>3, <3>1, <4>1, BlocksApart, Block
      <4>2. CASE k = next
        BY <1>1, <1>2, <3>1, <4>2
      <4> QED BY <1>1, <4>1, <4>2
    <3>2. CASE j = next
      <4>1. k \in DOMAIN hp /\ k \in Nat
        BY <1>1, <2>3, <3>2, Block
      <4> QED BY <1>1, <1>2, <2>3, <3>2, <4>1, BlocksApart
    <3>3. CASE j \in DOMAIN hp \ {l}
      <4>1. CASE k \in DOMAIN hp
        BY <1>1, <2>3, <3>3, <4>1, BlocksApart
      <4>2. CASE k = next
        <5>1. j \in Nat /\ End(hp, j) \in Nat
          BY <3>3, Block
        <5>2. j < l
          <6> SUFFICES ASSUME l < j PROVE FALSE
            BY <1>2, <3>3, <5>1
          <6>1. End(hp, l) <= j
            BY <1>1, <3>3, BlocksApart
          <6> QED BY <6>1, <1>1, <1>2, <2>3, <4>2, <5>1
        <5> QED BY <1>1, <1>2, <3>3, <4>2, <5>1, <5>2, BlocksApart
      <4> QED BY <1>1, <4>1, <4>2
    <3> QED BY <1>1, <3>1, <3>2, <3>3
  <2> QED BY <2>1, <2>2, <2>3 DEF Tiles
<1>5. Covers(new)
  <2> SUFFICES ASSUME NEW x \in HEAP .. RAM_TOP - 1
               PROVE  \E k \in DOMAIN new : k <= x /\ x < End(new, k)
    BY DEF Covers
  <2>1. PICK k \in DOMAIN hp : k <= x /\ x < End(hp, k)
    BY DEF Sound, Covers
  <2>2. CASE k # l
    BY <1>1, <2>1, <2>2
  <2>3. CASE k = l
    BY <1>1, <1>2, <2>1, <2>3
  <2> QED BY <2>2, <2>3
<1> QED BY <1>3, <1>4, <1>5 DEF Sound, new

\* The rest of a split block has no free block behind it, because the block
\* that was split had none.
LEMMA SplitMerged ==
  ASSUME NEW hp, Sound(hp), MergedBut(hp, {}), NEW n \in Nat, NEW l \in Fitting(hp, n)
  PROVE  MergedBut(Split(hp, l, n), {})
<1> DEFINE next == l + n + HDR
           new == Split(hp, l, n)
<1> HIDE DEF new
<1>0. SplitAt(hp, l, n, next, new)
  BY SplitBlocks DEF new
<1>1. /\ l \in DOMAIN hp /\ next \in Nat /\ l < next /\ next \notin DOMAIN hp
      /\ next + HDR <= End(hp, l)
      /\ DOMAIN new = DOMAIN hp \cup {next}
      /\ new[l] = [size |-> n, next |-> next, free |-> FALSE]
      /\ new[next] = [size |-> hp[l].size - n - HDR, next |-> hp[l].next, free |-> TRUE]
      /\ hp[l].size - n - HDR \in Nat
      /\ \A k \in DOMAIN hp \ {l} : new[k] = hp[k]
      /\ End(new, l) = next /\ End(new, next) = End(hp, l)
      /\ \A k \in DOMAIN hp \ {l} : End(new, k) = End(hp, k)
  BY <1>0 DEF SplitAt
<1>2. hp[l].free
  BY DEF Fitting
<1>3. ASSUME NEW k \in DOMAIN new, new[k].free, new[k].next # 0
      PROVE  ~new[new[k].next].free
  <2>1. k # l
    BY <1>1, <1>3
  <2> DEFINE o == IF k = next THEN l ELSE k
  <2>2. o \in DOMAIN hp /\ hp[o].free /\ hp[o].next = new[k].next
    BY <1>1, <1>2, <1>3, <2>1
  <2>3. new[k].next \in DOMAIN hp /\ ~hp[new[k].next].free
    BY <1>3, <2>2, Block DEF MergedBut
  <2>4. CASE new[k].next = l
    BY <1>1, <2>4
  <2>5. CASE new[k].next # l
    BY <1>1, <2>3, <2>5
  <2> QED BY <2>4, <2>5
<1> QED BY <1>3 DEF MergedBut, new

-----------------------------------------------------------------------------
(* Freeing and merging *)

LEMMA FreedBlocks ==
  ASSUME NEW hp, Sound(hp), NEW l \in DOMAIN hp
  PROVE  /\ DOMAIN Freed(hp, l) = DOMAIN hp
         /\ \A k \in DOMAIN hp : /\ Freed(hp, l)[k].size = hp[k].size
                                 /\ Freed(hp, l)[k].next = hp[k].next
                                 /\ End(Freed(hp, l), k) = End(hp, k)
         /\ Freed(hp, l)[l].free = TRUE
         /\ \A k \in DOMAIN hp \ {l} : Freed(hp, l)[k] = hp[k]
         /\ Typed(Freed(hp, l))
<1>1. hp \in [DOMAIN hp -> block_header]
  BY DEF Sound, Typed
<1>2. Freed(hp, l) \in [DOMAIN hp -> block_header]
  BY <1>1 DEF Freed, block_header
<1>3. DOMAIN Freed(hp, l) = DOMAIN hp
  BY DEF Freed
<1>4. \A k \in DOMAIN hp \ {l} : Freed(hp, l)[k] = hp[k]
  BY DEF Freed
<1>5. /\ Freed(hp, l)[l].size = hp[l].size
      /\ Freed(hp, l)[l].next = hp[l].next
      /\ Freed(hp, l)[l].free = TRUE
  BY <1>1 DEF Freed, block_header
<1>6. \A k \in DOMAIN hp : /\ Freed(hp, l)[k].size = hp[k].size
                           /\ Freed(hp, l)[k].next = hp[k].next
  BY <1>4, <1>5
<1>7. Typed(Freed(hp, l))
  BY <1>2, <1>3 DEF Sound, Typed
<1> QED BY <1>3, <1>4, <1>5, <1>6, <1>7 DEF End

LEMMA FreedSound ==
  ASSUME NEW hp, Sound(hp), NEW l \in DOMAIN hp
  PROVE  Sound(Freed(hp, l))
<1> DEFINE new == Freed(hp, l)
<1>1. /\ DOMAIN new = DOMAIN hp /\ Typed(new)
      /\ \A k \in DOMAIN hp : new[k].next = hp[k].next /\ End(new, k) = End(hp, k)
  BY FreedBlocks
<1> HIDE DEF new
<1>2. Tiles(new)
  BY <1>1 DEF Sound, Tiles
<1>3. Covers(new)
  BY <1>1 DEF Sound, Covers
<1> QED BY <1>1, <1>2, <1>3 DEF Sound, new

\* One block leads to l.
LEMMA OnePrev ==
  ASSUME NEW hp, Sound(hp), NEW p \in DOMAIN hp, NEW q \in DOMAIN hp,
         hp[p].next = hp[q].next, hp[p].next # 0
  PROVE  p = q
<1>1. /\ p \in Nat /\ q \in Nat /\ End(hp, p) = End(hp, q)
      /\ p < End(hp, p) /\ q < End(hp, q) /\ End(hp, p) \in Nat
  BY Block
<1>2. ~(p < q)
  BY <1>1, BlocksApart
<1>3. ~(q < p)
  BY <1>1, BlocksApart
<1> QED BY <1>1, <1>2, <1>3

\* What merging the block at l with the one behind it, at next, leaves.
MergedAt(hp, l, next, new) ==
  /\ next \in DOMAIN hp /\ l < next /\ next = End(hp, l)
  /\ DOMAIN new = DOMAIN hp \ {next}
  /\ new[l].size = hp[l].size + hp[next].size + HDR
  /\ new[l].next = hp[next].next /\ new[l].free = hp[l].free
  /\ \A k \in DOMAIN hp \ {l, next} : new[k] = hp[k]
  /\ End(new, l) = End(hp, next)
  /\ \A k \in DOMAIN hp \ {l, next} : End(new, k) = End(hp, k)
  /\ new \in [DOMAIN new -> block_header]

LEMMA MergedBlocks ==
  ASSUME NEW hp, Sound(hp), NEW l \in DOMAIN hp, hp[l].next # 0
  PROVE  MergedAt(hp, l, hp[l].next, Merged(hp, l))
<1> DEFINE next == hp[l].next
           new == Merged(hp, l)
<1>1. /\ l \in Nat /\ next \in DOMAIN hp /\ next = End(hp, l) /\ l < next
      /\ hp[l].size \in Nat /\ hp[next].size \in Nat /\ hp[next].next \in Nat
      /\ HDR \in Nat /\ next \in Nat
  BY Block, HeapAssumption
<1>2. hp \in [DOMAIN hp -> block_header]
  BY DEF Sound, Typed
<1>3. /\ DOMAIN new = DOMAIN hp \ {next}
      /\ \A k \in DOMAIN hp \ {l, next} : new[k] = hp[k]
  BY DEF Merged
<1>4. new[l] = [hp[l] EXCEPT !.next = hp[next].next, !.size = @ + hp[next].size + HDR]
  BY <1>1 DEF Merged
<1>5. hp[l] \in block_header
  BY <1>2
<1>6. /\ new[l].size = hp[l].size + hp[next].size + HDR
      /\ new[l].next = hp[next].next /\ new[l].free = hp[l].free
  BY <1>4, <1>5 DEF block_header
<1>7. new[l] \in block_header
  <2>1. hp[l].size + hp[next].size + HDR \in Nat
    BY <1>1
  <2> QED BY <1>1, <1>4, <1>5, <2>1 DEF block_header
<1>8. new \in [DOMAIN new -> block_header]
  <2>1. new = [k \in DOMAIN new |-> new[k]]
    BY DEF Merged
  <2>2. \A k \in DOMAIN new : new[k] \in block_header
    BY <1>2, <1>3, <1>7
  <2> HIDE DEF new
  <2> QED BY <2>1, <2>2
<1>9. End(new, l) = End(hp, next)
  BY <1>1, <1>6 DEF End
<1>10. \A k \in DOMAIN hp \ {l, next} : End(new, k) = End(hp, k)
  BY <1>3 DEF End
<1> QED BY <1>1, <1>3, <1>6, <1>8, <1>9, <1>10 DEF MergedAt

LEMMA MergedSound ==
  ASSUME NEW hp, Sound(hp), NEW l \in DOMAIN hp, hp[l].next # 0
  PROVE  Sound(Merged(hp, l))
<1> DEFINE next == hp[l].next
           new == Merged(hp, l)
<1>0. MergedAt(hp, l, next, new)
  BY MergedBlocks
<1> HIDE DEF new
<1>1. /\ next \in DOMAIN hp /\ l < next /\ next = End(hp, l)
      /\ DOMAIN new = DOMAIN hp \ {next}
      /\ new[l].next = hp[next].next
      /\ \A k \in DOMAIN hp \ {l, next} : new[k] = hp[k]
      /\ End(new, l) = End(hp, next)
      /\ \A k \in DOMAIN hp \ {l, next} : End(new, k) = End(hp, k)
      /\ new \in [DOMAIN new -> block_header]
  BY <1>0 DEF MergedAt
<1>2. /\ l \in Nat /\ next \in Nat /\ HEAP <= l /\ HEAP \in Nat
      /\ End(hp, next) \in Nat /\ next < End(hp, next)
  BY <1>1, Block, HeapAssumption
<1>3. Typed(new)
  BY <1>1 DEF Sound, Typed
<1>4. Tiles(new)
  <2>1. HEAP \in DOMAIN new
    BY <1>1, <1>2 DEF Sound, Tiles
  <2>2. ASSUME NEW k \in DOMAIN new
        PROVE  \/ new[k].next = End(new, k) /\ End(new, k) \in DOMAIN new
               \/ new[k].next = 0 /\ End(new, k) = RAM_TOP
    <3>1. CASE k = l
      <4>1. \/ hp[next].next = End(hp, next) /\ End(hp, next) \in DOMAIN hp
            \/ hp[next].next = 0 /\ End(hp, next) = RAM_TOP
        BY <1>1 DEF Sound, Tiles
      <4>2. End(hp, next) # next
        BY <1>2
      <4> QED BY <1>1, <3>1, <4>1, <4>2
    <3>2. CASE k # l
      <4>1. k \in DOMAIN hp \ {l, next}
        BY <1>1, <3>2
      <4>2. \/ hp[k].next = End(hp, k) /\ End(hp, k) \in DOMAIN hp
            \/ hp[k].next = 0 /\ End(hp, k) = RAM_TOP
        BY <4>1 DEF Sound, Tiles
      <4>3. hp[k].next # 0 => hp[k].next # next
        BY <1>1, <4>1, OnePrev
      <4>4. next # 0
        OBVIOUS
      <4>5. End(hp, k) \in DOMAIN hp /\ hp[k].next = End(hp, k) => End(hp, k) # next
        BY <4>3, <4>4
      <4> QED BY <1>1, <4>1, <4>2, <4>5
    <3> QED BY <3>1, <3>2
  <2>3. ASSUME NEW j \in DOMAIN new, NEW k \in DOMAIN new, j < k
        PROVE  End(new, j) <= k
    <3>1. CASE j = l
      <4>1. k \in DOMAIN hp /\ k \in Nat /\ k # next
        BY <1>1, Block
      <4>2. End(hp, l) <= k
        BY <2>3, <3>1, <4>1, BlocksApart
      <4>3. next < k
        BY <1>1, <1>2, <4>1, <4>2
      <4> QED BY <1>1, <3>1, <4>1, <4>3, BlocksApart
    <3>2. CASE j # l
      BY <1>1, <2>3, <3>2, BlocksApart
    <3> QED BY <3>1, <3>2
  <2> QED BY <2>1, <2>2, <2>3 DEF Tiles
<1>5. Covers(new)
  <2> SUFFICES ASSUME NEW x \in HEAP .. RAM_TOP - 1
               PROVE  \E k \in DOMAIN new : k <= x /\ x < End(new, k)
    BY DEF Covers
  <2>1. PICK k \in DOMAIN hp : k <= x /\ x < End(hp, k)
    BY DEF Sound, Covers
  <2>2. CASE k \in {l, next}
    <3>1. x \in Int
      BY HeapAssumption
    <3>2. l <= x /\ x < End(hp, next)
      BY <1>1, <1>2, <2>1, <2>2, <3>1
    <3> QED BY <1>1, <1>2, <3>2
  <2>3. CASE k \notin {l, next}
    BY <1>1, <2>1, <2>3
  <2> QED BY <2>2, <2>3
<1> QED BY <1>3, <1>4, <1>5 DEF Sound, new

\* Merging two blocks changes no other pair of neighbours.
LEMMA MergedMerged ==
  ASSUME NEW hp, Sound(hp), NEW l \in DOMAIN hp, hp[l].next # 0,
         MergedBut(hp, {l, hp[l].next})
  PROVE  MergedBut(Merged(hp, l), {l})
<1> DEFINE next == hp[l].next
           new == Merged(hp, l)
<1>0. MergedAt(hp, l, next, new)
  BY MergedBlocks
<1> HIDE DEF new
<1>1. ASSUME NEW k \in DOMAIN new \ {l}, new[k].free, new[k].next # 0
      PROVE  ~new[new[k].next].free
  <2>1. k \in DOMAIN hp \ {l, next} /\ new[k] = hp[k]
    BY <1>0 DEF MergedAt
  <2>2. hp[k].next \in DOMAIN hp
    BY <1>1, <2>1, Block
  <2>3. hp[k].next # next
    BY <1>1, <2>1, OnePrev
  <2>4. ~hp[hp[k].next].free
    BY <1>1, <2>1 DEF MergedBut
  <2>5. new[hp[k].next].free = hp[hp[k].next].free
    BY <1>0, <2>2, <2>3 DEF MergedAt
  <2> QED BY <2>1, <2>4, <2>5
<1> QED BY <1>1 DEF MergedBut, new

LEMMA MergeNextDone ==
  ASSUME NEW hp, Sound(hp), NEW l \in DOMAIN hp, MergedBut(hp, {l})
  PROVE  Sound(MergeNext(hp, l)) /\ MergedBut(MergeNext(hp, l), {})
<1> DEFINE next == hp[l].next
<1>1. CASE next # 0 /\ hp[next].free
  <2> DEFINE new == Merged(hp, l)
  <2>1. MergeNext(hp, l) = new
    BY <1>1 DEF MergeNext
  <2>2. MergedBut(hp, {l, next})
    BY DEF MergedBut
  <2>3. Sound(new) /\ MergedBut(new, {l}) /\ MergedAt(hp, l, next, new)
    BY <1>1, <2>2, MergedSound, MergedMerged, MergedBlocks
  <2> HIDE DEF new
  <2>4. next \in DOMAIN hp /\ next # l /\ l \in Nat /\ next \in Nat
    BY <1>1, Block
  <2>5. hp[next].next # 0 => ~hp[hp[next].next].free
    BY <1>1, <2>4 DEF MergedBut
  <2>6. hp[next].next # 0 => hp[next].next \in DOMAIN hp /\ hp[next].next # next /\ hp[next].next # l
    <3>1. hp[next].next # 0 => hp[next].next \in DOMAIN hp /\ hp[next].next = End(hp, next)
      BY <2>4, Block
    <3>2. next < End(hp, next) /\ l < next /\ End(hp, next) \in Nat
      BY <2>4, <2>3, Block DEF MergedAt
    <3> QED BY <2>4, <3>1, <3>2
  <2>7. new[l].next = hp[next].next
    BY <2>3 DEF MergedAt
  <2>8. new[l].next # 0 => ~new[new[l].next].free
    BY <2>3, <2>5, <2>6, <2>7 DEF MergedAt
  <2> QED BY <2>1, <2>3, <2>8 DEF MergedBut
<1>2. CASE ~(next # 0 /\ hp[next].free)
  BY <1>2 DEF MergeNext, MergedBut
<1> QED BY <1>1, <1>2

-----------------------------------------------------------------------------
(* What the steps do to the regions clients hold *)

LEMMA FreedHeld ==
  ASSUME NEW hp, Sound(hp), NEW l \in DOMAIN hp
  PROVE  HeldIn(Freed(hp, l)) = {r \in HeldIn(hp) : r.start # l + HDR}
<1> DEFINE new == Freed(hp, l)
<1>1. /\ DOMAIN new = DOMAIN hp /\ new[l].free = TRUE
      /\ \A k \in DOMAIN hp \ {l} : new[k] = hp[k]
  BY FreedBlocks
<1> HIDE DEF new
<1>2. Taken(new) = Taken(hp) \ {l}
  BY <1>1 DEF Taken
<1>3. \A k \in Taken(hp) : k \in Nat /\ (k + HDR = l + HDR <=> k = l)
  <2> SUFFICES ASSUME NEW k \in Taken(hp)
               PROVE  k \in Nat /\ (k + HDR = l + HDR <=> k = l)
    OBVIOUS
  <2>1. k \in Nat /\ l \in Nat
    BY Block DEF Taken
  <2> QED BY <2>1, HeapAssumption
<1>4. \A k \in Taken(new) : new[k].size = hp[k].size
  BY <1>1, <1>2 DEF Taken
<1>5. HeldIn(new) = {[start |-> k + HDR, size |-> hp[k].size] : k \in Taken(hp) \ {l}}
  BY <1>2, <1>4 DEF HeldIn
<1>6. ASSUME NEW r \in HeldIn(new) PROVE r \in HeldIn(hp) /\ r.start # l + HDR
  <2>1. PICK k \in Taken(hp) \ {l} : r = [start |-> k + HDR, size |-> hp[k].size]
    BY <1>5, <1>6
  <2> QED BY <1>3, <2>1 DEF HeldIn
<1>7. ASSUME NEW r \in HeldIn(hp), r.start # l + HDR PROVE r \in HeldIn(new)
  <2>1. PICK k \in Taken(hp) : r = [start |-> k + HDR, size |-> hp[k].size]
    BY DEF HeldIn
  <2>2. k # l
    BY <1>7, <2>1
  <2> QED BY <1>5, <2>1, <2>2
<1>8. HeldIn(new) = {r \in HeldIn(hp) : r.start # l + HDR}
  BY <1>6, <1>7
<1> QED BY <1>8 DEF new

LEMMA MergedHeld ==
  ASSUME NEW hp, Sound(hp), NEW l \in DOMAIN hp, hp[l].next # 0,
         hp[l].free, hp[hp[l].next].free
  PROVE  HeldIn(Merged(hp, l)) = HeldIn(hp)
<1> DEFINE next == hp[l].next
           new == Merged(hp, l)
<1>1. MergedAt(hp, l, next, new)
  BY MergedBlocks
<1> HIDE DEF new
<1>2. Taken(new) = Taken(hp)
  BY <1>1 DEF Taken, MergedAt
<1>3. \A k \in Taken(hp) : new[k].size = hp[k].size
  BY <1>1 DEF Taken, MergedAt
<1> QED BY <1>2, <1>3 DEF HeldIn, new

LEMMA SplitHeld ==
  ASSUME NEW hp, Sound(hp), NEW n \in Nat, NEW l \in Fitting(hp, n)
  PROVE  HeldIn(Split(hp, l, n)) = HeldIn(hp) \cup {[start |-> l + HDR, size |-> n]}
<1> DEFINE next == l + n + HDR
           new == Split(hp, l, n)
<1>1. SplitAt(hp, l, n, next, new)
  BY SplitBlocks
<1> HIDE DEF new
<1>2. l \in DOMAIN hp /\ hp[l].free
  BY DEF Fitting
<1>3. Taken(new) = Taken(hp) \cup {l} /\ l \notin Taken(hp)
  BY <1>1, <1>2 DEF Taken, SplitAt
<1>4. new[l].size = n /\ \A k \in Taken(hp) : new[k].size = hp[k].size
  BY <1>1, <1>3 DEF Taken, SplitAt
<1> QED BY <1>3, <1>4 DEF HeldIn, new

LEMMA MergeNextHeld ==
  ASSUME NEW hp, Sound(hp), NEW l \in DOMAIN hp, hp[l].free
  PROVE  HeldIn(MergeNext(hp, l)) = HeldIn(hp)
BY MergedHeld DEF MergeNext

-----------------------------------------------------------------------------
(* malloc and free *)

\* Freeing any pointer keeps the heap sound and its free blocks merged, and
\* takes exactly the region that starts there from its holder.
LEMMA FreeDone ==
  ASSUME NEW hp, Sound(hp), MergedBut(hp, {}), NEW b \in Nat
  PROVE  /\ Sound(ll_free(hp, b)) /\ MergedBut(ll_free(hp, b), {})
         /\ HeldIn(ll_free(hp, b)) = {r \in HeldIn(hp) : r.start # b}
<1> DEFINE l == b - HDR
<1>0. HDR \in Nat /\ l \in Int /\ b = l + HDR
  BY HeapAssumption
<1>1. CASE l \notin DOMAIN hp
  <2>1. ll_free(hp, b) = hp
    BY <1>1 DEF ll_free
  <2>2. ASSUME NEW r \in HeldIn(hp) PROVE r.start # b
    <3>1. PICK k \in Taken(hp) : r = [start |-> k + HDR, size |-> hp[k].size]
      BY DEF HeldIn
    <3>2. k \in DOMAIN hp /\ k \in Nat
      BY Block DEF Taken
    <3> QED BY <1>0, <1>1, <3>1, <3>2
  <2> QED BY <2>1, <2>2
<1>2. CASE l \in DOMAIN hp
  <2> DEFINE f == Freed(hp, l)
  <2>1. /\ Sound(f) /\ DOMAIN f = DOMAIN hp /\ f[l].free
        /\ \A k \in DOMAIN hp : f[k].next = hp[k].next
        /\ \A k \in DOMAIN hp \ {l} : f[k] = hp[k]
    BY <1>2, FreedSound, FreedBlocks
  <2>2. HeldIn(f) = {r \in HeldIn(hp) : r.start # b}
    BY <1>0, <1>2, FreedHeld
  <2> HIDE DEF f
  <2>3. \A k \in DOMAIN f : f[k].free /\ f[k].next # 0 /\ f[k].next # l /\ k # l
                              => ~f[f[k].next].free
    <3> SUFFICES ASSUME NEW k \in DOMAIN hp, f[k].free, f[k].next # 0, f[k].next # l, k # l
                 PROVE  ~f[f[k].next].free
      BY <2>1
    <3>1. hp[k].next \in DOMAIN hp /\ hp[k].next # 0 /\ hp[k].free
      BY <2>1, Block
    <3>2. ~hp[hp[k].next].free
      BY <3>1 DEF MergedBut
    <3> QED BY <2>1, <3>1, <3>2
  <2>4. l \in Nat /\ l # 0
    BY <1>2, Block, HeapAssumption
  <2>5. CASE FreePrev(hp, l) = {}
    <3>1. ll_free(hp, b) = MergeNext(f, l)
      BY <1>2, <2>5 DEF ll_free, f
    <3>2. MergedBut(f, {l})
      BY <2>1, <2>3, <2>5 DEF MergedBut, FreePrev
    <3> QED BY <1>2, <2>1, <2>2, <3>1, <3>2, MergeNextDone, MergeNextHeld
  <2>6. CASE FreePrev(hp, l) # {}
    <3> DEFINE p == Least(FreePrev(hp, l))
               m == Merged(f, p)
    <3>1. p \in FreePrev(hp, l)
      <4>1. FreePrev(hp, l) \in SUBSET Nat
        BY Block DEF FreePrev
      <4> QED BY <2>6, <4>1, LeastMember
    <3>2. ll_free(hp, b) = MergeNext(m, p)
      BY <1>2, <2>6 DEF ll_free, f
    <3> HIDE DEF p
    <3>3. p \in DOMAIN hp /\ hp[p].next = l /\ hp[p].free
      BY <3>1 DEF FreePrev
    <3>4. p < l
      BY <2>4, <3>3, Block
    <3>5. p \in DOMAIN f /\ f[p].next = l /\ f[p].next # 0 /\ f[p].free /\ p # l
      BY <2>1, <2>4, <3>3, <3>4, Block
    <3>6. MergedBut(f, {p, l})
      <4> SUFFICES ASSUME NEW k \in DOMAIN f \ {p, l}, f[k].free, f[k].next # 0
                   PROVE  ~f[f[k].next].free
        BY DEF MergedBut
      <4>1. f[k].next # l
        BY <2>1, <3>5, OnePrev
      <4> QED BY <2>3, <4>1
    <3>7. Sound(m) /\ MergedBut(m, {p}) /\ MergedAt(f, p, l, m)
      BY <2>1, <3>5, <3>6, MergedSound, MergedMerged, MergedBlocks
    <3>8. HeldIn(m) = HeldIn(f)
      BY <2>1, <3>5, MergedHeld
    <3> HIDE DEF m
    <3>9. p \in DOMAIN m /\ m[p].free
      BY <3>5, <3>7 DEF MergedAt
    <3> QED BY <2>2, <3>2, <3>7, <3>8, <3>9, MergeNextDone, MergeNextHeld
  <2> QED BY <2>5, <2>6
<1> QED BY <1>1, <1>2

LEMMA MallocDone ==
  ASSUME NEW hp, Sound(hp), MergedBut(hp, {}), NEW n \in Nat
  PROVE  /\ Sound(ll_malloc(hp, n).heap) /\ MergedBut(ll_malloc(hp, n).heap, {})
         /\ ll_malloc(hp, n).ret \in Nat
<1>1. CASE Fitting(hp, n) = {}
  BY <1>1 DEF ll_malloc
<1>2. CASE Fitting(hp, n) # {}
  <2> DEFINE l == Least(Fitting(hp, n))
  <2>1. Fitting(hp, n) \in SUBSET Nat
    BY Block DEF Fitting
  <2>2. l \in Fitting(hp, n) /\ l \in Nat
    BY <1>2, <2>1, LeastMember
  <2>3. ll_malloc(hp, n) = [heap |-> Split(hp, l, n), ret |-> l + HDR]
    BY <1>2 DEF ll_malloc
  <2> HIDE DEF l
  <2>4. l + HDR \in Nat
    BY <2>2, HeapAssumption
  <2> QED BY <2>2, <2>3, <2>4, SplitSound, SplitMerged
<1> QED BY <1>1, <1>2

-----------------------------------------------------------------------------
(* The invariant *)

Inv == Sound(heap) /\ MergedBut(heap, {}) /\ ret \in Nat

LEMMA InvInit == Init => Inv
BY InitSound DEF Init, Inv

LEMMA ReallocDone ==
  ASSUME Inv, NEW b \in Nat, NEW n \in Nat, realloc(b, n)
  PROVE  Inv'
<1>1. /\ Sound(ll_malloc(heap, n).heap) /\ MergedBut(ll_malloc(heap, n).heap, {})
      /\ ll_malloc(heap, n).ret \in Nat
  BY MallocDone DEF Inv
<1>2. heap' = ll_free(ll_malloc(heap, n).heap, b) /\ ret' = ll_malloc(heap, n).ret
  BY DEF realloc
<1>3. Sound(heap') /\ MergedBut(heap', {})
  BY <1>1, <1>2, FreeDone
<1> QED BY <1>1, <1>2, <1>3 DEF Inv

LEMMA InvNext == Inv /\ [Next]_vars => Inv'
<1> SUFFICES ASSUME Inv, [Next]_vars PROVE Inv'
  OBVIOUS
<1>1. ASSUME NEW n \in Requests, malloc(n) PROVE Inv'
  <2>1. n \in Nat
    BY HeapAssumption
  <2> QED BY <1>1, <2>1, MallocDone DEF Inv, malloc
<1>2. ASSUME NEW b \in Pointers, free(b) PROVE Inv'
  <2>1. b \in Nat
    BY HeapAssumption
  <2> QED BY <1>2, <2>1, FreeDone DEF Inv, free
<1>3. ASSUME NEW b \in Pointers, NEW n \in Requests, realloc(b, n) PROVE Inv'
  BY <1>3, ReallocDone, HeapAssumption
<1>4. ASSUME mm_free PROVE Inv'
  BY <1>4, InitSound DEF mm_free, Inv
<1>5. ASSUME UNCHANGED vars PROVE Inv'
  BY <1>5 DEF vars, Inv
<1> QED BY <1>1, <1>2, <1>3, <1>4, <1>5 DEF Next

LEMMA InvAlways == Spec => []Inv
BY InvInit, InvNext, PTL DEF Spec

\* Headers stay inside the heap, for heaps of every size.
THEOREM HeapTypeCorrect == Spec => []TypeOK
<1>1. Inv => TypeOK
  BY DEF Inv, Sound, TypeOK
<1> QED BY <1>1, InvAlways, PTL

\* The blocks of the list always tile the heap, whatever is taken, given back
\* once or twice, and in whatever order (first.c, _ll_malloc and _ll_free).
THEOREM HeapStaysTiled == Spec => []Tiled
<1>1. Inv => Tiled
  BY DEF Inv, Sound, Tiled
<1> QED BY <1>1, InvAlways, PTL

\* Two free blocks are never neighbours: _ll_free makes every merge.
THEOREM HeapStaysCoalesced == Spec => []Coalesced
<1>1. Inv => Coalesced
  BY DEF Inv, Coalesced
<1> QED BY <1>1, InvAlways, PTL

\* When all blocks were given back the heap is one block again.
THEOREM NothingGetsLost == Spec => []NothingLost
<1>1. ASSUME Inv, \A l \in DOMAIN heap : heap[l].free PROVE heap = mm_init
  <2>1. Sound(heap) /\ HEAP \in DOMAIN heap
    BY <1>1 DEF Inv, Sound, Tiles
  <2>2. heap[HEAP].next = 0
    <3> SUFFICES ASSUME heap[HEAP].next # 0 PROVE FALSE
      OBVIOUS
    <3>1. heap[HEAP].next \in DOMAIN heap
      BY <2>1, Block
    <3> QED BY <1>1, <2>1, <3>1 DEF Inv, MergedBut
  <2>3. End(heap, HEAP) = RAM_TOP
    BY <2>1, <2>2, Block
  <2>4. DOMAIN heap = {HEAP}
    <3> SUFFICES ASSUME NEW k \in DOMAIN heap, k # HEAP PROVE FALSE
      BY <2>1
    <3>1. k \in Nat /\ HEAP <= k /\ HEAP \in Nat /\ RAM_TOP \in Nat
      BY <2>1, Block, HeapAssumption
    <3>2. RAM_TOP <= k
      BY <2>1, <2>3, <3>1, BlocksApart
    <3>3. k < End(heap, k) /\ End(heap, k) <= RAM_TOP /\ End(heap, k) \in Nat
      BY <2>1, Block
    <3> QED BY <3>1, <3>2, <3>3
  <2>5. heap \in [DOMAIN heap -> block_header] /\ heap[HEAP] \in block_header
    BY <2>1 DEF Sound, Typed
  <2>6. heap[HEAP].size = RAM_TOP - HEAP - HDR
    BY <2>3, <2>5, HeapAssumption DEF End, block_header
  <2>7. heap[HEAP] = [size |-> RAM_TOP - HEAP - HDR, next |-> 0, free |-> TRUE]
    BY <1>1, <2>1, <2>2, <2>5, <2>6 DEF block_header
  <2> QED BY <2>4, <2>5, <2>7 DEF mm_init
<1>2. Inv => NothingLost
  BY <1>1 DEF NothingLost
<1> QED BY <1>2, InvAlways, PTL

-----------------------------------------------------------------------------
(* The heap implements Allocator *)

\* Where a block fits, no region in use is in the way.
LEMMA FitVacant ==
  ASSUME Sound(heap), NEW n \in Nat, NEW l \in Fitting(heap, n)
  PROVE  l + HDR \in HEAP + HDR .. RAM_TOP /\ A!Vacant(l + HDR, n)
<1>1. /\ l \in DOMAIN heap /\ heap[l].free /\ heap[l].size >= n + HDR
      /\ l \in Nat /\ HEAP <= l /\ heap[l].size \in Nat /\ End(heap, l) <= RAM_TOP
      /\ HDR \in Nat /\ HEAP \in Nat /\ RAM_TOP \in Nat
  BY Block, HeapAssumption DEF Fitting
<1>2. l + HDR + n <= End(heap, l) /\ End(heap, l) \in Nat
  BY <1>1 DEF End
<1>3. ASSUME NEW r \in held PROVE A!Clear(l, l + HDR + n, r)
  <2>1. PICK k \in Taken(heap) : r = [start |-> k + HDR, size |-> heap[k].size]
    BY DEF held, HeldIn
  <2>2. k \in DOMAIN heap /\ k # l /\ k \in Nat /\ heap[k].size \in Nat
    BY <1>1, Block DEF Taken
  <2>3. CASE k < l
    <3>1. End(heap, k) <= l
      BY <1>1, <2>2, <2>3, BlocksApart
    <3> QED BY <2>1, <3>1 DEF A!Clear, End
  <2>4. CASE l < k
    <3>1. End(heap, l) <= k
      BY <1>1, <2>2, <2>4, BlocksApart
    <3>2. l + HDR + n <= k /\ k = r.start - HDR
      BY <1>1, <1>2, <2>1, <2>2, <3>1
    <3> QED BY <3>2 DEF A!Clear
  <2> QED BY <1>1, <2>2, <2>3, <2>4
<1>4. l + HDR - HDR = l /\ l + HDR + n <= RAM_TOP /\ l + HDR \in HEAP + HDR .. RAM_TOP
  BY <1>1, <1>2
<1> QED BY <1>1, <1>3, <1>4 DEF A!Vacant, A!Within

\* Where no block fits, no gap between the regions in use is large enough:
\* a gap is one block, because free neighbours are merged.
LEMMA NoFitNoRoom ==
  ASSUME Sound(heap), MergedBut(heap, {}), NEW n \in Nat, Fitting(heap, n) = {}
  PROVE  ~A!Room(n)
<1> SUFFICES ASSUME NEW p \in HEAP .. RAM_TOP, A!Vacant(p, n + HDR)
             PROVE  FALSE
  BY DEF A!Room
<1> DEFINE x == p - HDR
           y == p + (n + HDR)
<1>1. /\ p \in Nat /\ HDR \in Nat /\ HDR > 0 /\ HEAP \in Nat /\ RAM_TOP \in Nat
      /\ x \in Int /\ y \in Int /\ x < y
  BY HeapAssumption
<1>2. HEAP <= x /\ y <= RAM_TOP /\ \A r \in held : A!Clear(x, y, r)
  BY DEF A!Vacant, A!Within
<1>3. PICK k \in DOMAIN heap : k <= x /\ x < End(heap, k)
  <2>1. x \in HEAP .. RAM_TOP - 1
    BY <1>1, <1>2
  <2> QED BY <2>1 DEF Sound, Covers
\* A block with an address between x and y has no holder.
<1>4. ASSUME NEW j \in DOMAIN heap, j < y, x < End(heap, j) PROVE heap[j].free
  <2> SUFFICES ASSUME ~heap[j].free PROVE FALSE
    OBVIOUS
  <2> DEFINE r == [start |-> j + HDR, size |-> heap[j].size]
  <2>1. r \in held
    BY DEF held, HeldIn, Taken
  <2>2. j \in Nat /\ heap[j].size \in Nat
    BY Block
  <2>3. y <= r.start - HDR \/ r.start + r.size <= x
    BY <1>2, <2>1 DEF A!Clear
  <2>4. r.start - HDR = j /\ r.start + r.size = End(heap, j)
    BY <1>1, <2>2 DEF End
  <2>5. End(heap, j) \in Nat
    BY Block
  <2> QED BY <1>1, <1>4, <2>2, <2>3, <2>4, <2>5
<1>5. k \in Nat /\ End(heap, k) \in Nat /\ heap[k].size \in Nat
  BY Block
<1>6. heap[k].free
  BY <1>1, <1>3, <1>4, <1>5
<1>7. CASE y <= End(heap, k)
  <2>1. heap[k].size >= n + HDR
    BY <1>1, <1>3, <1>5, <1>7 DEF End
  <2> QED BY <1>6, <2>1 DEF Fitting
<1>8. CASE End(heap, k) < y
  <2> DEFINE j == heap[k].next
  <2>1. j # 0 /\ j \in DOMAIN heap /\ j = End(heap, k)
    BY <1>1, <1>2, <1>5, <1>8, Block
  <2>2. j < y /\ x < End(heap, j)
    <3>1. j < End(heap, j) /\ End(heap, j) \in Nat /\ j \in Nat
      BY <2>1, Block
    <3> QED BY <1>1, <1>3, <1>5, <1>8, <2>1, <3>1
  <2>3. heap[j].free
    BY <1>4, <2>1, <2>2
  <2> QED BY <1>6, <2>1, <2>3 DEF MergedBut
<1> QED BY <1>1, <1>5, <1>7, <1>8

\* What malloc finds, in Allocator's terms.
LEMMA MallocPromise ==
  ASSUME Inv, NEW n \in Nat
  PROVE  LET m == ll_malloc(heap, n) IN
         \/ m.ret = 0 /\ m.heap = heap /\ ~A!Room(n)
         \/ /\ m.ret \in HEAP + HDR .. RAM_TOP /\ A!Vacant(m.ret, n)
            /\ HeldIn(m.heap) = held \cup {[start |-> m.ret, size |-> n]}
<1>1. CASE Fitting(heap, n) = {}
  <2>1. ll_malloc(heap, n) = [heap |-> heap, ret |-> 0]
    BY <1>1 DEF ll_malloc
  <2> QED BY <1>1, <2>1, NoFitNoRoom DEF Inv
<1>2. CASE Fitting(heap, n) # {}
  <2> DEFINE l == Least(Fitting(heap, n))
  <2>1. Fitting(heap, n) \in SUBSET Nat
    BY Block DEF Fitting, Inv
  <2>2. l \in Fitting(heap, n)
    BY <1>2, <2>1, LeastMember
  <2>3. ll_malloc(heap, n) = [heap |-> Split(heap, l, n), ret |-> l + HDR]
    BY <1>2 DEF ll_malloc
  <2> HIDE DEF l
  <2>4. HeldIn(Split(heap, l, n)) = held \cup {[start |-> l + HDR, size |-> n]}
    BY <2>2, SplitHeld DEF Inv, held
  <2> QED BY <2>2, <2>3, <2>4, FitVacant DEF Inv
<1> QED BY <1>1, <1>2

\* Every step of the heap is a step of Allocator, or none: so malloc, free and
\* realloc do what Allocator promises, whatever clients ask for.
THEOREM HeapKeepsPromises == Spec => Promises
<1>1. Init => A!AInit
  <2>1. Taken(mm_init) = {}
    BY DEF Taken, mm_init
  <2> QED BY <2>1 DEF Init, A!AInit, held, HeldIn
<1>2. Inv /\ [Next]_vars => [A!ANext]_<<held, ret>>
  <2> SUFFICES ASSUME Inv, [Next]_vars PROVE [A!ANext]_<<held, ret>>
    OBVIOUS
  <2>1. ASSUME NEW n \in Requests, malloc(n) PROVE A!ANext
    <3>1. n \in Nat
      BY HeapAssumption
    <3>2. heap' = ll_malloc(heap, n).heap /\ ret' = ll_malloc(heap, n).ret
      BY <2>1 DEF malloc
    <3>3. held' = HeldIn(heap')
      BY DEF held
    <3>4. A!Grant(n) \/ A!Refuse(n)
      <4>1. CASE ret' = 0 /\ heap' = heap /\ ~A!Room(n)
        BY <3>3, <4>1 DEF A!Refuse, held
      <4>2. CASE /\ ret' \in HEAP + HDR .. RAM_TOP /\ A!Vacant(ret', n)
                 /\ HeldIn(heap') = held \cup {[start |-> ret', size |-> n]}
        BY <3>3, <4>2 DEF A!Grant
      <4> QED BY <3>1, <3>2, <4>1, <4>2, MallocPromise
    <3> QED BY <3>4 DEF A!ANext
  <2>2. ASSUME NEW b \in Pointers, free(b) PROVE A!ANext
    <3>1. heap' = ll_free(heap, b) /\ ret' = ret /\ b \in Nat
      BY <2>2, HeapAssumption DEF free
    <3>2. HeldIn(heap') = {r \in held : r.start # b}
      BY <3>1, FreeDone DEF Inv, held
    <3>3. A!GiveBack(b)
      BY <3>1, <3>2 DEF A!GiveBack, A!Without, held
    <3> QED BY <3>3 DEF A!ANext
  <2>3. ASSUME NEW b \in Pointers, NEW n \in Requests,
               b # 0 => b # ll_malloc(heap, n).ret, realloc(b, n)
        PROVE  A!ANext
    <3> DEFINE m == ll_malloc(heap, n)
    <3>1. b \in Nat /\ n \in Nat
      BY HeapAssumption
    <3>2. heap' = ll_free(m.heap, b) /\ ret' = m.ret
      BY <2>3 DEF realloc
    <3>3. held' = {r \in HeldIn(m.heap) : r.start # b}
      <4>1. Sound(m.heap) /\ MergedBut(m.heap, {})
        BY <3>1, MallocDone DEF Inv
      <4> HIDE DEF m
      <4> QED BY <3>1, <3>2, <4>1, FreeDone DEF held
    <3>4. A!Exchange(b, n)
      <4>1. \/ m.ret = 0 /\ m.heap = heap /\ ~A!Room(n)
            \/ /\ m.ret \in HEAP + HDR .. RAM_TOP /\ A!Vacant(m.ret, n)
               /\ HeldIn(m.heap) = held \cup {[start |-> m.ret, size |-> n]}
        BY <3>1, MallocPromise
      <4>2. b # 0 => b # m.ret
        BY <2>3
      <4> HIDE DEF m
      <4>3. CASE m.ret = 0 /\ m.heap = heap /\ ~A!Room(n)
        BY <3>2, <3>3, <4>3 DEF A!Exchange, A!Without, held
      <4>4. CASE /\ m.ret \in HEAP + HDR .. RAM_TOP /\ A!Vacant(m.ret, n)
                 /\ HeldIn(m.heap) = held \cup {[start |-> m.ret, size |-> n]}
        <5>1. m.ret # b
          <6>1. m.ret \in Nat /\ m.ret # 0
            BY <4>4, HeapAssumption
          <6> QED BY <4>2, <6>1
        <5>2. held' = {r \in held : r.start # b} \cup {[start |-> m.ret, size |-> n]}
          BY <3>3, <4>4, <5>1
        <5> QED BY <3>2, <4>4, <5>2 DEF A!Exchange, A!Without
      <4> QED BY <4>1, <4>3, <4>4
    <3> QED BY <3>4 DEF A!ANext
  <2>4. ASSUME mm_free PROVE A!ANext
    <3>1. Taken(mm_init) = {}
      BY DEF Taken, mm_init
    <3>2. A!Drop
      BY <2>4, <3>1 DEF mm_free, A!Drop, held, HeldIn
    <3> QED BY <3>2 DEF A!ANext
  <2>5. ASSUME UNCHANGED vars PROVE UNCHANGED <<held, ret>>
    BY <2>5 DEF vars, held
  <2> QED BY <2>1, <2>2, <2>3, <2>4, <2>5 DEF Next
<1>3. Spec => A!ASpec
  <2>1. Inv /\ [Next]_vars => [A!ANext]_A!avars
    BY <1>2 DEF A!avars
  <2> QED BY <1>1, <2>1, InvAlways, PTL DEF Spec, A!ASpec
<1> QED BY <1>3 DEF Promises

=============================================================================
