---------------------------- MODULE MountProofs ----------------------------
(* What volumes and open files point to is not freed, and the table         *)
(* implements MountMap, for any number of devices, drivers, volumes and     *)
(* files, as long as clients take away only what nobody uses.               *)
EXTENDS MountTable, NaturalsInduction, WellFoundedInduction, FiniteSetTheorems,
        SequenceTheorems, TLAPS

-----------------------------------------------------------------------------
(* Lists *)

Distinct(list) ==
  \A i, j \in 1 .. Len(list) : list[i].at = list[j].at => i = j

\* The first of some positions is one of them.
LEMMA FirstMember ==
  ASSUME NEW I \in SUBSET Nat, I # {}
  PROVE  First(I) \in I
<1> DEFINE R == OpToRel(<, Nat)
<1>1. IsWellFoundedOn(R, Nat)
  BY NatLessThanWellFounded
<1>2. \A x, y \in Nat : <<x, y>> \in R <=> x < y
  BY DEF OpToRel
<1> HIDE DEF R
<1>3. PICK x \in I : \A y \in I : ~(<<y, x>> \in R)
  BY <1>1, WFMin, Zenon
<1>4. ASSUME NEW y \in I PROVE x <= y
  <2>1. x \in Nat /\ y \in Nat /\ ~(y < x)
    BY <1>2, <1>3
  <2> QED BY <2>1
<1> QED BY <1>4 DEF First

LEMMA FirstAlone ==
  ASSUME NEW k \in Nat
  PROVE  First({k}) = k
<1>1. {k} \in SUBSET Nat /\ {k} # {}
  OBVIOUS
<1>2. First({k}) \in {k}
  BY <1>1, FirstMember, Zenon
<1> QED BY <1>2

\* Where the j-th element of a list without its i-th was before.
Before(i, j) == IF j < i THEN j ELSE j + 1

LEMMA UnlinkedElements ==
  ASSUME NEW S, NEW list \in Seq(S), NEW i \in 1 .. Len(list)
  PROVE  /\ Unlinked(list, i) \in Seq(S)
         /\ Len(Unlinked(list, i)) = Len(list) - 1
         /\ \A j \in 1 .. Len(list) - 1 : Unlinked(list, i)[j] = list[Before(i, j)]
<1> DEFINE a == SubSeq(list, 1, i - 1)
           b == SubSeq(list, i + 1, Len(list))
<1>1. Len(list) \in Nat /\ i \in Nat
  OBVIOUS
<1>2. /\ a \in Seq(S) /\ Len(a) = i - 1
      /\ \A j \in 1 .. i - 1 : a[j] = list[j]
  BY <1>1, SubSeqProperties
<1>3. /\ b \in Seq(S) /\ Len(b) = Len(list) - i
      /\ \A j \in 1 .. Len(list) - i : b[j] = list[j + i]
  BY <1>1, SubSeqProperties
<1> HIDE DEF a, b
<1>4. /\ a \o b \in Seq(S) /\ Len(a \o b) = Len(list) - 1
      /\ \A j \in 1 .. Len(list) - 1 :
           (a \o b)[j] = IF j <= i - 1 THEN a[j] ELSE b[j - (i - 1)]
  <2>1. Len(a) + Len(b) = Len(list) - 1
    BY <1>1, <1>2, <1>3
  <2>2. /\ a \o b \in Seq(S) /\ Len(a \o b) = Len(a) + Len(b)
        /\ \A j \in 1 .. Len(a) + Len(b) :
             (a \o b)[j] = IF j <= Len(a) THEN a[j] ELSE b[j - Len(a)]
    BY <1>2, <1>3, ConcatProperties
  <2>3. Len(a) = i - 1
    BY <1>2
  <2> QED BY <2>1, <2>2, <2>3
<1>5. ASSUME NEW j \in 1 .. Len(list) - 1 PROVE (a \o b)[j] = list[Before(i, j)]
  <2>1. CASE j < i
    BY <1>1, <1>2, <1>4, <2>1 DEF Before
  <2>2. CASE ~(j < i)
    <3>1. j - (i - 1) \in 1 .. Len(list) - i /\ j - (i - 1) + i = j + 1 /\ ~(j <= i - 1)
      BY <1>1, <2>2
    <3> QED BY <1>3, <1>4, <2>2, <3>1 DEF Before
  <2> QED BY <2>1, <2>2
<1>6. Unlinked(list, i) = a \o b
  BY DEF Unlinked, a, b
<1> QED BY <1>4, <1>5, <1>6

LEMMA UnlinkedFrom ==
  ASSUME NEW S, NEW list \in Seq(S), NEW i \in 1 .. Len(list)
  PROVE  /\ \A j \in 1 .. Len(list) - 1 : Before(i, j) \in 1 .. Len(list) /\ Before(i, j) # i
         /\ \A j, k \in 1 .. Len(list) - 1 : Before(i, j) = Before(i, k) => j = k
         /\ \A k \in 1 .. Len(list) : k # i => \E j \in 1 .. Len(list) - 1 : Before(i, j) = k
<1>1. ASSUME NEW k \in 1 .. Len(list), k # i
      PROVE  \E j \in 1 .. Len(list) - 1 : Before(i, j) = k
  <2>1. CASE k < i
    <3>1. k \in 1 .. Len(list) - 1 /\ Before(i, k) = k
      BY <2>1 DEF Before
    <3> QED BY <3>1
  <2>2. CASE k > i
    <3>1. k - 1 \in 1 .. Len(list) - 1 /\ Before(i, k - 1) = k
      BY <2>2 DEF Before
    <3> QED BY <3>1
  <2> QED BY <1>1, <2>1, <2>2
<1>2. \A j \in 1 .. Len(list) - 1 : Before(i, j) \in 1 .. Len(list) /\ Before(i, j) # i
  BY DEF Before
<1>3. \A j, k \in 1 .. Len(list) - 1 : Before(i, j) = Before(i, k) => j = k
  BY DEF Before
<1> QED BY <1>1, <1>2, <1>3

\* The blocks left, and which element a block is, after one has gone.
LEMMA UnlinkedBlocks ==
  ASSUME NEW S, NEW list \in Seq(S), NEW i \in 1 .. Len(list), Distinct(list)
  PROVE  /\ Distinct(Unlinked(list, i))
         /\ Blocks(Unlinked(list, i)) = Blocks(list) \ {list[i].at}
<1> DEFINE u == Unlinked(list, i)
<1>1. /\ u \in Seq(S) /\ Len(u) = Len(list) - 1
      /\ \A j \in 1 .. Len(u) : u[j] = list[Before(i, j)]
  BY UnlinkedElements
<1>2. /\ \A j \in 1 .. Len(u) : Before(i, j) \in 1 .. Len(list) /\ Before(i, j) # i
      /\ \A j, k \in 1 .. Len(u) : Before(i, j) = Before(i, k) => j = k
      /\ \A k \in 1 .. Len(list) : k # i => \E j \in 1 .. Len(u) : Before(i, j) = k
  BY <1>1, UnlinkedFrom
<1> HIDE DEF u
<1>3. Distinct(u)
  <2>1. ASSUME NEW j \in 1 .. Len(u), NEW k \in 1 .. Len(u), u[j].at = u[k].at PROVE j = k
    <3>1. list[Before(i, j)].at = list[Before(i, k)].at
      BY <1>1, <2>1
    <3>2. Before(i, j) = Before(i, k)
      BY <1>2, <3>1 DEF Distinct
    <3> QED BY <1>2, <3>2
  <2> QED BY <2>1 DEF Distinct
<1>4. ASSUME NEW b \in Blocks(u) PROVE b \in Blocks(list) \ {list[i].at}
  <2>1. PICK j \in 1 .. Len(u) : b = u[j].at
    BY DEF Blocks
  <2>2. Before(i, j) \in 1 .. Len(list) /\ Before(i, j) # i /\ b = list[Before(i, j)].at
    BY <1>1, <1>2, <2>1
  <2> QED BY <2>2 DEF Blocks, Distinct
<1>5. ASSUME NEW b \in Blocks(list), b # list[i].at PROVE b \in Blocks(u)
  <2>1. PICK k \in 1 .. Len(list) : b = list[k].at
    BY DEF Blocks
  <2>2. PICK j \in 1 .. Len(u) : Before(i, j) = k
    BY <1>2, <1>5, <2>1
  <2> QED BY <1>1, <2>1, <2>2 DEF Blocks
<1> QED BY <1>3, <1>4, <1>5 DEF u

LEMMA Appended ==
  ASSUME NEW S, NEW list \in Seq(S), NEW e \in S
  PROVE  /\ Append(list, e) \in Seq(S)
         /\ Len(Append(list, e)) = Len(list) + 1
         /\ \A i \in 1 .. Len(list) : Append(list, e)[i] = list[i]
         /\ Append(list, e)[Len(list) + 1] = e
OBVIOUS

\* a is the list with e behind it.
Extends(a, list, e) ==
  /\ Len(a) = Len(list) + 1 /\ a[Len(list) + 1] = e
  /\ \A i \in 1 .. Len(list) : a[i] = list[i]

LEMMA ExtendedBlocks ==
  ASSUME NEW S, NEW list \in Seq(S), NEW e, Distinct(list), e.at \notin Blocks(list),
         NEW a, Extends(a, list, e)
  PROVE  Distinct(a) /\ Blocks(a) = Blocks(list) \cup {e.at}
<1>1. /\ Len(a) = Len(list) + 1 /\ a[Len(list) + 1] = e
      /\ \A i \in 1 .. Len(list) : a[i] = list[i]
  BY DEF Extends
<1>2. Len(list) \in Nat
  OBVIOUS
<1>3. \A i \in 1 .. Len(a) : i \in 1 .. Len(list) \/ i = Len(list) + 1
  BY <1>1, <1>2
<1>4. \A i \in 1 .. Len(list) : list[i].at # e.at
  BY DEF Blocks
<1>5. Distinct(a)
  BY <1>1, <1>3, <1>4 DEF Distinct
<1>6. Len(list) + 1 \in 1 .. Len(a) /\ 1 .. Len(list) \subseteq 1 .. Len(a)
  BY <1>1, <1>2
<1>7. Blocks(a) = Blocks(list) \cup {e.at}
  BY <1>1, <1>3, <1>6 DEF Blocks
<1> QED BY <1>5, <1>7

LEMMA AppendedBlocks ==
  ASSUME NEW S, NEW list \in Seq(S), NEW e \in S, Distinct(list), e.at \notin Blocks(list)
  PROVE  Distinct(Append(list, e)) /\ Blocks(Append(list, e)) = Blocks(list) \cup {e.at}
<1>1. Extends(Append(list, e), list, e)
  BY Appended DEF Extends
<1> QED BY <1>1, ExtendedBlocks

\* The element at a block is the one.
LEMMA ElementFound ==
  ASSUME NEW S, NEW list \in Seq(S), Distinct(list), NEW k \in 1 .. Len(list)
  PROVE  ElementAt(list, list[k].at) = list[k]
<1>1. At(list, list[k].at) = {k}
  BY DEF At, Distinct
<1>2. First({k}) \in {k}
  BY FirstMember
<1> QED BY <1>1, <1>2 DEF ElementAt

LEMMA ElementIs ==
  ASSUME NEW S, NEW list \in Seq(S), Distinct(list), NEW b \in Blocks(list)
  PROVE  ElementAt(list, b) \in S /\ ElementAt(list, b).at = b
<1>1. PICK k \in 1 .. Len(list) : b = list[k].at
  BY DEF Blocks
<1> QED BY <1>1, ElementFound

\* Other elements are found as before.
LEMMA ElementStays ==
  ASSUME NEW S, NEW list \in Seq(S), NEW more \in Seq(S), Distinct(list), Distinct(more),
         NEW b \in Blocks(list) \cap Blocks(more),
         \A i \in 1 .. Len(more) : more[i].at = b => \E k \in 1 .. Len(list) : more[i] = list[k]
  PROVE  ElementAt(more, b) = ElementAt(list, b)
<1>1. PICK i \in 1 .. Len(more) : b = more[i].at
  BY DEF Blocks
<1>2. PICK k \in 1 .. Len(list) : more[i] = list[k]
  BY <1>1
<1> QED BY <1>1, <1>2, ElementFound

\* Taking away what was appended, or the element that was changed.
LEMMA UnlinkedAppended ==
  ASSUME NEW S, NEW list \in Seq(S), NEW e \in S
  PROVE  Unlinked(Append(list, e), Len(list) + 1) = list
<1> DEFINE a == Append(list, e)
           i == Len(list) + 1
<1>1. /\ a \in Seq(S) /\ Len(a) = i /\ Len(list) \in Nat
      /\ \A j \in 1 .. Len(list) : a[j] = list[j]
  BY Appended
<1>2. i \in 1 .. Len(a) /\ Len(a) - 1 = Len(list)
  BY <1>1
<1> HIDE DEF a
<1>3. /\ Unlinked(a, i) \in Seq(S) /\ Len(Unlinked(a, i)) = Len(list)
      /\ \A j \in 1 .. Len(list) : Unlinked(a, i)[j] = a[Before(i, j)]
  BY <1>1, <1>2, UnlinkedElements
<1>4. \A j \in 1 .. Len(list) : Before(i, j) = j
  BY <1>1 DEF Before
<1>5. Unlinked(a, i) = list
  BY <1>1, <1>3, <1>4, SeqEqual
<1> QED BY <1>5 DEF a

LEMMA UnlinkedExcept ==
  ASSUME NEW S, NEW list \in Seq(S), NEW i \in 1 .. Len(list), NEW e \in S
  PROVE  Unlinked([list EXCEPT ![i] = e], i) = Unlinked(list, i)
<1> DEFINE x == [list EXCEPT ![i] = e]
<1>1. /\ x \in Seq(S) /\ Len(x) = Len(list)
      /\ \A j \in 1 .. Len(list) : j # i => x[j] = list[j]
  BY ExceptSeq
<1> HIDE DEF x
<1>2. i \in 1 .. Len(x)
  BY <1>1
<1>3. \A j \in 1 .. Len(list) - 1 : Before(i, j) \in 1 .. Len(list) /\ Before(i, j) # i
  BY UnlinkedFrom
<1>4. /\ Unlinked(x, i) \in Seq(S) /\ Len(Unlinked(x, i)) = Len(list) - 1
      /\ \A j \in 1 .. Len(list) - 1 : Unlinked(x, i)[j] = x[Before(i, j)]
  BY <1>1, <1>2, UnlinkedElements
<1>5. /\ Unlinked(list, i) \in Seq(S) /\ Len(Unlinked(list, i)) = Len(list) - 1
      /\ \A j \in 1 .. Len(list) - 1 : Unlinked(list, i)[j] = list[Before(i, j)]
  BY UnlinkedElements
<1>6. \A j \in 1 .. Len(list) - 1 : Unlinked(x, i)[j] = Unlinked(list, i)[j]
  BY <1>1, <1>3, <1>4, <1>5
<1>7. Unlinked(x, i) = Unlinked(list, i)
  BY <1>4, <1>5, <1>6, SeqEqual
<1> QED BY <1>7 DEF x

-----------------------------------------------------------------------------
(* The table *)

Bared(d) == [dev |-> d, tail |-> FALSE]

\* Entries have bare names, one for a device, and a volume of their own.
Tidy(tab) ==
  /\ Distinct(tab)
  /\ \A i \in 1 .. Len(tab) : tab[i].devname.tail = FALSE
  /\ \A i, j \in 1 .. Len(tab) : tab[i].devname = tab[j].devname => i = j
  /\ \A i, j \in 1 .. Len(tab) : tab[i].pfs = tab[j].pfs => i = j

\* Everything pointed to is there.
Sound(dl, bl, tab, fl, vol) ==
  /\ dl \in Seq(fs_driver) /\ Distinct(dl)
  /\ bl \in Seq(blk_driver) /\ Distinct(bl)
  /\ tab \in Seq(fstabentry) /\ Tidy(tab)
  /\ fl \in [Fds -> EntryBlocks \cup {NULL}] /\ vol \subseteq VolumeBlocks
  /\ \A i \in 1 .. Len(tab) :
       tab[i].pfsdrv \in Blocks(dl) /\ tab[i].pblkdrv \in Blocks(bl) /\ tab[i].pfs \in vol
  /\ \A h \in Fds : fl[h] # NULL => fl[h] \in Blocks(tab)

\* The invariant.
Inv == Sound(driverlist, blk_driverlist, fstab, filelist, volumes)

\* The files that stand on an entry.
Holders(fl, at) == {h \in Fds : fl[h] = at}

\* MountedAs and UsersOf of given lists.
As(dl, tab, d) ==
  IF Entries(tab, Bared(d)) = {} THEN NULL
  ELSE ElementAt(dl, tab[First(Entries(tab, Bared(d)))].pfsdrv).name
Users(tab, fl, d) ==
  IF Entries(tab, Bared(d)) = {} THEN 0
  ELSE Cardinality(Holders(fl, tab[First(Entries(tab, Bared(d)))].at))

LEMMA EntryAlone ==
  ASSUME NEW tab, Tidy(tab), NEW i \in 1 .. Len(tab), NEW n, tab[i].devname = n
  PROVE  Entries(tab, n) = {i} /\ First(Entries(tab, n)) = i
<1>1. Entries(tab, n) = {i}
  BY DEF Entries, Tidy
<1>2. First({i}) \in {i}
  BY FirstMember
<1> QED BY <1>1, <1>2

\* What is mounted where, by the entry that says so.
LEMMA Seen ==
  ASSUME NEW tab, Tidy(tab), NEW i \in 1 .. Len(tab), NEW d, tab[i].devname = Bared(d)
  PROVE  /\ \A dl : As(dl, tab, d) = ElementAt(dl, tab[i].pfsdrv).name
         /\ \A fl : Users(tab, fl, d) = Cardinality(Holders(fl, tab[i].at))
<1>1. Entries(tab, Bared(d)) = {i} /\ First(Entries(tab, Bared(d))) = i
  BY EntryAlone
<1> QED BY <1>1 DEF As, Users

LEMMA Unseen ==
  ASSUME NEW dl, NEW tab, NEW fl, NEW d, \A i \in 1 .. Len(tab) : tab[i].devname # Bared(d)
  PROVE  As(dl, tab, d) = NULL /\ Users(tab, fl, d) = 0
<1>1. Entries(tab, Bared(d)) = {}
  BY DEF Entries
<1> QED BY <1>1 DEF As, Users

-----------------------------------------------------------------------------
(* Drivers come and go *)

\* The drivers of entries are still found in a longer or a shorter list.
Kept(dl, more, tab) ==
  \A i \in 1 .. Len(tab) : ElementAt(more, tab[i].pfsdrv) = ElementAt(dl, tab[i].pfsdrv)

LEMMA DriversChanged ==
  ASSUME NEW dl, NEW bl, NEW tab, NEW fl, NEW vol, Sound(dl, bl, tab, fl, vol),
         NEW more \in Seq(fs_driver), Distinct(more),
         \A i \in 1 .. Len(tab) : tab[i].pfsdrv \in Blocks(more),
         \A i \in 1 .. Len(more) :
           more[i].at \in Blocks(dl) => \E k \in 1 .. Len(dl) : more[i] = dl[k]
  PROVE  /\ Sound(more, bl, tab, fl, vol) /\ Kept(dl, more, tab)
         /\ \A d : As(more, tab, d) = As(dl, tab, d)
<1>1. Sound(more, bl, tab, fl, vol) /\ Tidy(tab)
  BY DEF Sound
<1>3. Kept(dl, more, tab)
  <2>1. ASSUME NEW i \in 1 .. Len(tab)
        PROVE  ElementAt(more, tab[i].pfsdrv) = ElementAt(dl, tab[i].pfsdrv)
    <3>1. tab[i].pfsdrv \in Blocks(dl) \cap Blocks(more) /\ dl \in Seq(fs_driver) /\ Distinct(dl)
      BY DEF Sound
    <3> QED BY <3>1, ElementStays
  <2> QED BY <2>1 DEF Kept
<1>2. ASSUME NEW d PROVE As(more, tab, d) = As(dl, tab, d)
  <2>1. CASE \A i \in 1 .. Len(tab) : tab[i].devname # Bared(d)
    BY <2>1, Unseen
  <2>2. CASE \E i \in 1 .. Len(tab) : tab[i].devname = Bared(d)
    <3>1. PICK i \in 1 .. Len(tab) : tab[i].devname = Bared(d)
      BY <2>2
    <3>2. /\ As(dl, tab, d) = ElementAt(dl, tab[i].pfsdrv).name
          /\ As(more, tab, d) = ElementAt(more, tab[i].pfsdrv).name
      BY <1>1, <3>1, Seen
    <3> QED BY <1>3, <3>2 DEF Kept
  <2> QED BY <2>1, <2>2
<1> QED BY <1>1, <1>2, <1>3

LEMMA DriverRegistered ==
  ASSUME NEW dl, NEW bl, NEW tab, NEW fl, NEW vol, Sound(dl, bl, tab, fl, vol),
         NEW e \in fs_driver, e.at \notin Blocks(dl)
  PROVE  /\ Sound(Append(dl, e), bl, tab, fl, vol) /\ Kept(dl, Append(dl, e), tab)
         /\ \A d : As(Append(dl, e), tab, d) = As(dl, tab, d)
<1> DEFINE more == Append(dl, e)
<1>1. dl \in Seq(fs_driver) /\ Distinct(dl) /\ Len(dl) \in Nat
  BY DEF Sound
<1>2. /\ more \in Seq(fs_driver) /\ Len(more) = Len(dl) + 1 /\ more[Len(dl) + 1] = e
      /\ \A i \in 1 .. Len(dl) : more[i] = dl[i]
  BY <1>1, Appended
<1>3. Distinct(more) /\ Blocks(more) = Blocks(dl) \cup {e.at}
  BY <1>1, AppendedBlocks
<1> HIDE DEF more
<1>4. \A i \in 1 .. Len(more) : i \in 1 .. Len(dl) \/ i = Len(dl) + 1
  BY <1>1, <1>2
<1>5. \A i \in 1 .. Len(more) :
        more[i].at \in Blocks(dl) => \E k \in 1 .. Len(dl) : more[i] = dl[k]
  BY <1>2, <1>4
<1>6. \A i \in 1 .. Len(tab) : tab[i].pfsdrv \in Blocks(more)
  BY <1>3 DEF Sound
<1>7. /\ Sound(more, bl, tab, fl, vol) /\ Kept(dl, more, tab)
      /\ \A d : As(more, tab, d) = As(dl, tab, d)
  BY <1>2, <1>3, <1>5, <1>6, DriversChanged
<1> QED BY <1>7 DEF more

LEMMA DriverUnregistered ==
  ASSUME NEW dl, NEW bl, NEW tab, NEW fl, NEW vol, Sound(dl, bl, tab, fl, vol),
         NEW k \in 1 .. Len(dl),
         \A i \in 1 .. Len(tab) : ElementAt(dl, tab[i].pfsdrv).name # dl[k].name
  PROVE  /\ Sound(Unlinked(dl, k), bl, tab, fl, vol) /\ Kept(dl, Unlinked(dl, k), tab)
         /\ \A d : As(Unlinked(dl, k), tab, d) = As(dl, tab, d)
<1> DEFINE less == Unlinked(dl, k)
<1>1. dl \in Seq(fs_driver) /\ Distinct(dl)
  BY DEF Sound
<1>2. /\ less \in Seq(fs_driver) /\ Len(less) = Len(dl) - 1
      /\ \A j \in 1 .. Len(dl) - 1 : less[j] = dl[Before(k, j)]
  BY <1>1, UnlinkedElements
<1>3. \A j \in 1 .. Len(dl) - 1 : Before(k, j) \in 1 .. Len(dl)
  BY <1>1, UnlinkedFrom
<1>4. Distinct(less) /\ Blocks(less) = Blocks(dl) \ {dl[k].at}
  BY <1>1, UnlinkedBlocks
<1>5. ASSUME NEW i \in 1 .. Len(tab) PROVE tab[i].pfsdrv \in Blocks(less)
  <2>1. ElementAt(dl, dl[k].at) = dl[k]
    BY <1>1, ElementFound
  <2>2. tab[i].pfsdrv # dl[k].at
    BY <2>1
  <2> QED BY <1>4, <2>2 DEF Sound
<1>6. \A i \in 1 .. Len(less) : \E j \in 1 .. Len(dl) : less[i] = dl[j]
  BY <1>2, <1>3
<1> HIDE DEF less
<1>7. /\ less \in Seq(fs_driver) /\ Distinct(less)
      /\ \A i \in 1 .. Len(tab) : tab[i].pfsdrv \in Blocks(less)
      /\ \A i \in 1 .. Len(less) :
           less[i].at \in Blocks(dl) => \E j \in 1 .. Len(dl) : less[i] = dl[j]
  BY <1>2, <1>4, <1>5, <1>6, Zenon
<1>8. /\ Sound(less, bl, tab, fl, vol) /\ Kept(dl, less, tab)
      /\ \A d : As(less, tab, d) = As(dl, tab, d)
  BY <1>7, DriversChanged, SMTT(30)
<1> QED BY <1>8 DEF less

LEMMA BlkRegistered ==
  ASSUME NEW dl, NEW bl, NEW tab, NEW fl, NEW vol, Sound(dl, bl, tab, fl, vol),
         NEW e \in blk_driver, e.at \notin Blocks(bl)
  PROVE  Sound(dl, Append(bl, e), tab, fl, vol)
<1>1. bl \in Seq(blk_driver) /\ Distinct(bl)
  BY DEF Sound
<1>2. Append(bl, e) \in Seq(blk_driver)
  BY <1>1, Appended
<1>3. Distinct(Append(bl, e)) /\ Blocks(Append(bl, e)) = Blocks(bl) \cup {e.at}
  BY <1>1, AppendedBlocks
<1> QED BY <1>2, <1>3 DEF Sound

LEMMA BlkUnregistered ==
  ASSUME NEW dl, NEW bl, NEW tab, NEW fl, NEW vol, Sound(dl, bl, tab, fl, vol),
         NEW k \in 1 .. Len(bl),
         \A i \in 1 .. Len(tab) : ElementAt(bl, tab[i].pblkdrv).name # bl[k].name
  PROVE  Sound(dl, Unlinked(bl, k), tab, fl, vol)
<1>1. bl \in Seq(blk_driver) /\ Distinct(bl)
  BY DEF Sound
<1>2. Unlinked(bl, k) \in Seq(blk_driver)
  BY <1>1, UnlinkedElements
<1>3. Distinct(Unlinked(bl, k)) /\ Blocks(Unlinked(bl, k)) = Blocks(bl) \ {bl[k].at}
  BY <1>1, UnlinkedBlocks
<1>4. ElementAt(bl, bl[k].at) = bl[k]
  BY <1>1, ElementFound
<1>5. \A i \in 1 .. Len(tab) : tab[i].pblkdrv # bl[k].at
  BY <1>4
<1> QED BY <1>2, <1>3, <1>5 DEF Sound

-----------------------------------------------------------------------------
(* Volumes come and go *)

\* An entry that is added leaves everything else as it was.
LEMMA EntryAdded ==
  ASSUME Inv,
         NEW e \in fstabentry, NEW d \in Devices, e.devname = Bared(d),
         e.at \notin Blocks(fstab), e.pfs \in VolumeBlocks \ volumes,
         e.pfsdrv \in Blocks(driverlist), e.pblkdrv \in Blocks(blk_driverlist),
         \A i \in 1 .. Len(fstab) : fstab[i].devname # Bared(d),
         NEW more \in Seq(fstabentry), Extends(more, fstab, e)
  PROVE  /\ Sound(driverlist, blk_driverlist, more, filelist, volumes \cup {e.pfs})
         /\ As(driverlist, fstab, d) = NULL
         /\ As(driverlist, more, d) = ElementAt(driverlist, e.pfsdrv).name
         /\ \A c : c # d => As(driverlist, more, c) = As(driverlist, fstab, c)
         /\ \A c : Users(more, filelist, c) = Users(fstab, filelist, c)
<1>1. fstab \in Seq(fstabentry) /\ Tidy(fstab) /\ Distinct(fstab) /\ Len(fstab) \in Nat
  <2>1. fstab \in Seq(fstabentry) /\ Tidy(fstab)
    BY Zenon DEF Inv, Sound
  <2> QED BY <2>1 DEF Tidy
<1>2. /\ more \in Seq(fstabentry) /\ Len(more) = Len(fstab) + 1 /\ more[Len(fstab) + 1] = e
      /\ \A i \in 1 .. Len(fstab) : more[i] = fstab[i]
  BY DEF Extends
<1>3. Distinct(more) /\ Blocks(more) = Blocks(fstab) \cup {e.at}
  BY <1>1, ExtendedBlocks
<1>4. /\ \A i \in 1 .. Len(more) : i \in 1 .. Len(fstab) \/ i = Len(fstab) + 1
      /\ \A i \in 1 .. Len(fstab) : i \in 1 .. Len(more)
      /\ Len(fstab) + 1 \in 1 .. Len(more)
  BY <1>1, <1>2
<1>5. Tidy(more)
  <2>1. ASSUME NEW i \in 1 .. Len(more) PROVE more[i].devname.tail = FALSE
    <3>1. e.devname.tail = FALSE
      BY DEF Bared
    <3> QED BY <1>1, <1>2, <1>4, <3>1 DEF Tidy
  <2>2. ASSUME NEW i \in 1 .. Len(more), NEW j \in 1 .. Len(more),
               more[i].devname = more[j].devname
        PROVE  i = j
    BY <1>1, <1>2, <1>4, <2>2 DEF Tidy
  <2>3. \A i \in 1 .. Len(fstab) : fstab[i].pfs # e.pfs
    BY DEF Inv, Sound
  <2>4. \A i, j \in 1 .. Len(more) : more[i].pfs = more[j].pfs => i = j
    BY <1>2, <1>4, <2>3 DEF Inv, Sound, Tidy
  <2> QED BY <1>3, <2>1, <2>2, <2>4 DEF Tidy
<1>6. Sound(driverlist, blk_driverlist, more, filelist, volumes \cup {e.pfs})
  <2>1. \A i \in 1 .. Len(more) : /\ more[i].pfsdrv \in Blocks(driverlist)
                                  /\ more[i].pblkdrv \in Blocks(blk_driverlist)
                                  /\ more[i].pfs \in volumes \cup {e.pfs}
    BY <1>2, <1>4 DEF Inv, Sound
  <2>2. \A h \in Fds : filelist[h] # NULL => filelist[h] \in Blocks(more)
    BY <1>3 DEF Inv, Sound
  <2>3. volumes \cup {e.pfs} \subseteq VolumeBlocks
    BY DEF Inv, Sound
  <2> QED BY <1>2, <1>5, <2>1, <2>2, <2>3 DEF Inv, Sound
<1>7. As(driverlist, fstab, d) = NULL /\ Users(fstab, filelist, d) = 0
  BY Unseen
<1>8. /\ As(driverlist, more, d) = ElementAt(driverlist, e.pfsdrv).name
      /\ Users(more, filelist, d) = Cardinality(Holders(filelist, e.at))
  <2>1. PICK k \in 1 .. Len(more) : k = Len(fstab) + 1
    BY <1>4
  <2>2. more[k] = e /\ more[k].devname = Bared(d)
    BY <1>2, <2>1
  <2> QED BY <1>5, <2>2, Seen
<1>9. Users(more, filelist, d) = 0
  <2>1. e.at # NULL
    BY MountAssumption DEF fstabentry
  <2>2. Holders(filelist, e.at) = {}
    BY <2>1 DEF Inv, Sound, Holders
  <2> QED BY <1>8, <2>2, FS_EmptySet
<1>10. ASSUME NEW c, c # d
       PROVE  As(driverlist, more, c) = As(driverlist, fstab, c) /\ Users(more, filelist, c) = Users(fstab, filelist, c)
  <2>1. Bared(c) # Bared(d)
    BY <1>10 DEF Bared
  <2>2. CASE \A i \in 1 .. Len(fstab) : fstab[i].devname # Bared(c)
    <3>1. \A i \in 1 .. Len(more) : more[i].devname # Bared(c)
      BY <1>2, <1>4, <2>1, <2>2
    <3> QED BY <2>2, <3>1, Unseen
  <2>3. CASE \E i \in 1 .. Len(fstab) : fstab[i].devname = Bared(c)
    <3>1. PICK i \in 1 .. Len(fstab) : fstab[i].devname = Bared(c)
      BY <2>3
    <3>2. i \in 1 .. Len(more) /\ more[i] = fstab[i]
      BY <1>2, <1>4
    <3>3. /\ As(driverlist, fstab, c) = ElementAt(driverlist, fstab[i].pfsdrv).name
          /\ Users(fstab, filelist, c) = Cardinality(Holders(filelist, fstab[i].at))
      BY <1>1, <3>1, Seen
    <3>4. /\ As(driverlist, more, c) = ElementAt(driverlist, fstab[i].pfsdrv).name
          /\ Users(more, filelist, c) = Cardinality(Holders(filelist, fstab[i].at))
      <4>1. more[i].devname = Bared(c)
        BY <3>1, <3>2
      <4> QED BY <1>5, <3>2, <4>1, Seen
    <3> QED BY <3>3, <3>4
  <2> QED BY <2>2, <2>3
<1>11. \A c : Users(more, filelist, c) = Users(fstab, filelist, c)
  BY <1>7, <1>9, <1>10
<1> QED BY <1>6, <1>7, <1>8, <1>10, <1>11

\* An entry without open files that goes leaves everything else as it was.
LEMMA EntryRemoved ==
  ASSUME Inv,
         NEW k \in 1 .. Len(fstab), NEW d \in Devices, fstab[k].devname = Bared(d),
         \A h \in Fds : filelist[h] # fstab[k].at
  PROVE  /\ Sound(driverlist, blk_driverlist, Unlinked(fstab, k), filelist, volumes \ {fstab[k].pfs})
         /\ As(driverlist, fstab, d) # NULL /\ Users(fstab, filelist, d) = 0
         /\ As(driverlist, Unlinked(fstab, k), d) = NULL
         /\ \A c : c # d => As(driverlist, Unlinked(fstab, k), c) = As(driverlist, fstab, c)
         /\ \A c : Users(Unlinked(fstab, k), filelist, c) = Users(fstab, filelist, c)
<1> DEFINE less == Unlinked(fstab, k)
<1>1. fstab \in Seq(fstabentry) /\ Tidy(fstab) /\ Distinct(fstab)
  BY DEF Inv, Sound, Tidy
<1>2. /\ less \in Seq(fstabentry) /\ Len(less) = Len(fstab) - 1
      /\ \A j \in 1 .. Len(less) : less[j] = fstab[Before(k, j)]
  BY <1>1, UnlinkedElements
<1>3. /\ \A j \in 1 .. Len(less) : Before(k, j) \in 1 .. Len(fstab) /\ Before(k, j) # k
      /\ \A i, j \in 1 .. Len(less) : Before(k, i) = Before(k, j) => i = j
      /\ \A i \in 1 .. Len(fstab) : i # k => \E j \in 1 .. Len(less) : Before(k, j) = i
  BY <1>1, <1>2, UnlinkedFrom
<1>4. Distinct(less) /\ Blocks(less) = Blocks(fstab) \ {fstab[k].at}
  BY <1>1, UnlinkedBlocks
<1> HIDE DEF less
<1>5. Tidy(less)
  <2>1. \A i \in 1 .. Len(less) : less[i].devname.tail = FALSE
    BY <1>1, <1>2, <1>3 DEF Tidy
  <2>2. ASSUME NEW i \in 1 .. Len(less), NEW j \in 1 .. Len(less),
               less[i].devname = less[j].devname \/ less[i].pfs = less[j].pfs
        PROVE  i = j
    <3>1. /\ less[i] = fstab[Before(k, i)] /\ Before(k, i) \in 1 .. Len(fstab)
          /\ less[j] = fstab[Before(k, j)] /\ Before(k, j) \in 1 .. Len(fstab)
      BY <1>2, <1>3
    <3>2. Before(k, i) = Before(k, j)
      BY <1>1, <2>2, <3>1 DEF Tidy
    <3> QED BY <1>3, <3>2
  <2> QED BY <1>4, <2>1, <2>2 DEF Tidy
<1>6. Sound(driverlist, blk_driverlist, less, filelist, volumes \ {fstab[k].pfs})
  <2>1. ASSUME NEW i \in 1 .. Len(less)
        PROVE  /\ less[i].pfsdrv \in Blocks(driverlist) /\ less[i].pblkdrv \in Blocks(blk_driverlist)
               /\ less[i].pfs \in volumes \ {fstab[k].pfs}
    <3>1. less[i] = fstab[Before(k, i)] /\ Before(k, i) \in 1 .. Len(fstab) /\ Before(k, i) # k
      BY <1>2, <1>3
    <3>2. fstab[Before(k, i)].pfs # fstab[k].pfs
      BY <1>1, <3>1 DEF Tidy
    <3> QED BY <3>1, <3>2 DEF Inv, Sound
  <2>2. \A h \in Fds : filelist[h] # NULL => filelist[h] \in Blocks(less)
    BY <1>4 DEF Inv, Sound
  <2>3. volumes \ {fstab[k].pfs} \subseteq VolumeBlocks
    BY DEF Inv, Sound
  <2> QED BY <1>2, <1>5, <2>1, <2>2, <2>3 DEF Inv, Sound
<1>7. /\ As(driverlist, fstab, d) = ElementAt(driverlist, fstab[k].pfsdrv).name
      /\ Users(fstab, filelist, d) = Cardinality(Holders(filelist, fstab[k].at))
  BY <1>1, Seen
<1>8. As(driverlist, fstab, d) # NULL
  <2>1. ElementAt(driverlist, fstab[k].pfsdrv) \in fs_driver
    BY ElementIs DEF Inv, Sound
  <2> QED BY <1>7, <2>1, MountAssumption DEF fs_driver, FileSystems
<1>9. Users(fstab, filelist, d) = 0
  <2>1. Holders(filelist, fstab[k].at) = {}
    BY DEF Holders
  <2> QED BY <1>7, <2>1, FS_EmptySet
<1>10. As(driverlist, less, d) = NULL /\ Users(less, filelist, d) = 0
  <2>1. \A i \in 1 .. Len(less) : less[i].devname # Bared(d)
    BY <1>1, <1>2, <1>3 DEF Tidy
  <2> QED BY <2>1, Unseen
<1>11. ASSUME NEW c, c # d
       PROVE  As(driverlist, less, c) = As(driverlist, fstab, c) /\ Users(less, filelist, c) = Users(fstab, filelist, c)
  <2>1. Bared(c) # Bared(d)
    BY <1>11 DEF Bared
  <2>2. CASE \A i \in 1 .. Len(fstab) : fstab[i].devname # Bared(c)
    <3>1. \A i \in 1 .. Len(less) : less[i].devname # Bared(c)
      BY <1>2, <1>3, <2>2
    <3> QED BY <2>2, <3>1, Unseen
  <2>3. CASE \E i \in 1 .. Len(fstab) : fstab[i].devname = Bared(c)
    <3>1. PICK i \in 1 .. Len(fstab) : fstab[i].devname = Bared(c)
      BY <2>3
    <3>2. PICK j \in 1 .. Len(less) : Before(k, j) = i
      BY <1>3, <2>1, <3>1
    <3>3. less[j] = fstab[i]
      BY <1>2, <3>2
    <3>4. /\ As(driverlist, fstab, c) = ElementAt(driverlist, fstab[i].pfsdrv).name
          /\ Users(fstab, filelist, c) = Cardinality(Holders(filelist, fstab[i].at))
      BY <1>1, <3>1, Seen
    <3>5. /\ As(driverlist, less, c) = ElementAt(driverlist, fstab[i].pfsdrv).name
          /\ Users(less, filelist, c) = Cardinality(Holders(filelist, fstab[i].at))
      BY <1>5, <3>1, <3>3, Seen
    <3> QED BY <3>4, <3>5
  <2> QED BY <2>2, <2>3
<1>12. \A c : Users(less, filelist, c) = Users(fstab, filelist, c)
  BY <1>9, <1>10, <1>11
<1> QED BY <1>6, <1>8, <1>9, <1>10, <1>11, <1>12 DEF less

-----------------------------------------------------------------------------
(* Steps *)

\* What MountMap sees.
LEMMA Views ==
  /\ MountedAs = [d \in Devices |-> As(driverlist, fstab, d)]
  /\ UsersOf = [d \in Devices |-> Users(fstab, filelist, d)]
  /\ MountedAs' = [d \in Devices |-> As(driverlist', fstab', d)]
  /\ UsersOf' = [d \in Devices |-> Users(fstab', filelist', d)]
BY DEF MountedAs, UsersOf, As, Users, EntryOf, Bared, Holders

\* A step after which MountMap sees what it saw before.
LEMMA NothingMoves ==
  ASSUME \A d : As(driverlist', fstab', d) = As(driverlist, fstab, d),
         \A d : Users(fstab', filelist', d) = Users(fstab, filelist, d),
         ret' = "EZERO"
           \/ ret' \in {"ENOMEM", "EINVDRV", "FR_EXIST", "FR_NO_FILE", "FR_INVALID_DRIVE",
                       "FR_NOT_ENOUGH_CORE", "FR_NOT_READY", "FR_NO_FILESYSTEM", "0"}
  PROVE  M!Next
<1>1. MountedAs' = MountedAs /\ UsersOf' = UsersOf
  BY Views
<1>2. CASE ret' = "EZERO"
  <2>1. M!Register
    BY <1>1, <1>2 DEF M!Register
  <2> QED BY <2>1 DEF M!Next
<1>3. CASE ret' \in {"ENOMEM", "EINVDRV", "FR_EXIST", "FR_NO_FILE", "FR_INVALID_DRIVE",
                    "FR_NOT_ENOUGH_CORE", "FR_NOT_READY", "FR_NO_FILESYSTEM", "0"}
  <2>1. ~(ret' \in {"EZERO", "FR_OK", "fd"})
    BY <1>3
  <2>2. M!Fail
    BY <1>1, <2>1 DEF M!Fail
  <2> QED BY <2>2 DEF M!Next
<1> QED BY <1>2, <1>3

LEMMA InitHolds == Init => Inv /\ M!Init
<1> SUFFICES ASSUME Init PROVE Inv /\ M!Init
  OBVIOUS
<1>1. /\ driverlist = << >> /\ blk_driverlist = << >> /\ fstab = << >>
      /\ filelist = [h \in Fds |-> NULL] /\ volumes = {} /\ ret = "EZERO"
  BY DEF Init
<1>2. Inv
  BY <1>1 DEF Inv, Sound, Distinct, Tidy
<1>3. \A i \in 1 .. Len(fstab) : FALSE
  BY <1>1
<1>4. \A d : As(driverlist, fstab, d) = NULL /\ Users(fstab, filelist, d) = 0
  BY <1>3, Unseen
<1>5. M!Init
  BY <1>1, <1>4, Views DEF M!Init
<1> QED BY <1>2, <1>5

LEMMA RegisterDriver ==
  ASSUME Inv, NEW name \in FileSystems, register_driver(name)
  PROVE  Inv' /\ M!Next /\ Kept(driverlist, driverlist', fstab)
<1>1. UNCHANGED <<blk_driverlist, fstab, filelist, volumes>>
  BY DEF register_driver
<1>2. CASE driverlist' = driverlist /\ ret' = "ENOMEM"
  <2>1. Inv'
    BY <1>1, <1>2 DEF Inv
  <2> QED BY <1>1, <1>2, <2>1, NothingMoves DEF Kept
<1>3. ASSUME NEW b \in DriverBlocks \ Blocks(driverlist),
             driverlist' = Append(driverlist, [at |-> b, name |-> name]), ret' = "EZERO"
      PROVE  Inv' /\ M!Next /\ Kept(driverlist, driverlist', fstab)
  <2> DEFINE e == [at |-> b, name |-> name]
  <2>1. e \in fs_driver /\ e.at \notin Blocks(driverlist)
    BY DEF fs_driver
  <2> HIDE DEF e
  <2>2. driverlist' = Append(driverlist, e)
    BY <1>3 DEF e
  <2>3. /\ Sound(driverlist', blk_driverlist, fstab, filelist, volumes)
        /\ Kept(driverlist, driverlist', fstab)
        /\ \A d : As(driverlist', fstab, d) = As(driverlist, fstab, d)
    BY <2>1, <2>2, DriverRegistered DEF Inv
  <2>4. Inv'
    BY <1>1, <2>3 DEF Inv
  <2> QED BY <1>1, <1>3, <2>3, <2>4, NothingMoves
<1> QED BY <1>2, <1>3 DEF register_driver, Returns

LEMMA UnregisterDriver ==
  ASSUME Inv, NEW name \in FileSystems, CARELESS = FALSE,
         MayTake(name), un_register_driver(name)
  PROVE  Inv' /\ M!Next /\ Kept(driverlist, driverlist', fstab)
<1>1. UNCHANGED <<blk_driverlist, fstab, filelist, volumes>>
  BY DEF un_register_driver
<1>2. CASE Named(driverlist, name) = {}
  <2>1. driverlist' = driverlist /\ ret' = "EINVDRV"
    BY <1>2 DEF un_register_driver, Returns
  <2>2. Inv'
    BY <1>1, <2>1 DEF Inv
  <2> QED BY <1>1, <2>1, <2>2, NothingMoves DEF Kept
<1>3. CASE Named(driverlist, name) # {}
  <2> DEFINE k == First(Named(driverlist, name))
  <2>1. driverlist' = Unlinked(driverlist, k) /\ ret' = "EZERO"
    BY <1>3 DEF un_register_driver, Returns
  <2>2. k \in Named(driverlist, name)
    <3>1. Named(driverlist, name) \in SUBSET Nat
      BY DEF Named
    <3> QED BY <1>3, <3>1, FirstMember, Zenon
  <2>3. k \in 1 .. Len(driverlist) /\ driverlist[k].name = name
    BY <2>2 DEF Named
  <2> HIDE DEF k
  <2>4. \A i \in 1 .. Len(fstab) : ElementAt(driverlist, fstab[i].pfsdrv).name # driverlist[k].name
    BY <2>3 DEF MayTake
  <2>5. /\ Sound(driverlist', blk_driverlist, fstab, filelist, volumes)
        /\ Kept(driverlist, driverlist', fstab)
        /\ \A d : As(driverlist', fstab, d) = As(driverlist, fstab, d)
    BY <2>1, <2>3, <2>4, DriverUnregistered DEF Inv
  <2>6. Inv'
    BY <1>1, <2>5 DEF Inv
  <2> QED BY <1>1, <2>1, <2>5, <2>6, NothingMoves
<1> QED BY <1>2, <1>3

LEMMA RegisterBlk ==
  ASSUME Inv, NEW name \in BlkNames, register_blk_driver(name)
  PROVE  Inv' /\ M!Next
<1>1. UNCHANGED <<driverlist, fstab, filelist, volumes>> /\ ret' = "EZERO"
  BY DEF register_blk_driver, Returns
<1>2. PICK b \in BlkBlocks \ Blocks(blk_driverlist) :
        blk_driverlist' = Append(blk_driverlist, [at |-> b, name |-> name])
  BY DEF register_blk_driver
<1> DEFINE e == [at |-> b, name |-> name]
<1>3. e \in blk_driver /\ e.at \notin Blocks(blk_driverlist)
  BY DEF blk_driver
<1> HIDE DEF e
<1>4. blk_driverlist' = Append(blk_driverlist, e)
  BY <1>2 DEF e
<1>5. Sound(driverlist, blk_driverlist', fstab, filelist, volumes)
  BY <1>3, <1>4, BlkRegistered DEF Inv
<1>6. Inv'
  BY <1>1, <1>5 DEF Inv
<1> QED BY <1>1, <1>6, NothingMoves

LEMMA UnregisterBlk ==
  ASSUME Inv, NEW name \in BlkNames, CARELESS = FALSE,
         MayTakeBlk(name), un_register_blk_driver(name)
  PROVE  Inv' /\ M!Next
<1>1. UNCHANGED <<driverlist, fstab, filelist, volumes>>
  BY DEF un_register_blk_driver
<1>2. CASE Named(blk_driverlist, name) = {}
  <2>1. blk_driverlist' = blk_driverlist /\ ret' = "EZERO"
    BY <1>2 DEF un_register_blk_driver, Returns
  <2>2. Inv'
    BY <1>1, <2>1 DEF Inv
  <2> QED BY <1>1, <2>1, <2>2, NothingMoves
<1>3. CASE Named(blk_driverlist, name) # {}
  <2> DEFINE k == First(Named(blk_driverlist, name))
  <2>1. blk_driverlist' = Unlinked(blk_driverlist, k) /\ ret' = "EINVDRV"
    BY <1>3 DEF un_register_blk_driver, Returns
  <2>2. k \in Named(blk_driverlist, name)
    <3>1. Named(blk_driverlist, name) \in SUBSET Nat
      BY DEF Named
    <3> QED BY <1>3, <3>1, FirstMember, Zenon
  <2>3. k \in 1 .. Len(blk_driverlist) /\ blk_driverlist[k].name = name
    BY <2>2 DEF Named
  <2> HIDE DEF k
  <2>4. \A i \in 1 .. Len(fstab) :
          ElementAt(blk_driverlist, fstab[i].pblkdrv).name # blk_driverlist[k].name
    BY <2>3 DEF MayTakeBlk
  <2>5. Sound(driverlist, blk_driverlist', fstab, filelist, volumes)
    BY <2>1, <2>3, <2>4, BlkUnregistered DEF Inv
  <2>6. Inv'
    BY <1>1, <2>5 DEF Inv
  <2> QED BY <1>1, <2>1, <2>6, NothingMoves
<1> QED BY <1>2, <1>3

-----------------------------------------------------------------------------
(* Mounting: the entry is added, then either keeps its volume or goes *)

LEMMA BareName ==
  ASSUME NEW n \in Names, n.tail = FALSE
  PROVE  n = Bared(n.dev) /\ Bare(n) = n
BY DEF Names, Bare, Bared

\* No volume was mounted under the name, and the new entry is found by its
\* name unless that has a tail.
LEMMA EntryFound ==
  ASSUME NEW tab \in Seq(fstabentry), Tidy(tab), NEW n \in Names,
         get_fstabentry(tab, n) = {},
         NEW e \in fstabentry, e.devname = n
  PROVE  /\ Entries(Append(tab, e), n) = {Len(tab) + 1}
         /\ remove_fstabentry(Append(tab, e), n) = tab
         /\ n.tail = FALSE => get_fstabentry(Append(tab, e), n) = {Len(tab) + 1}
         /\ n.tail = TRUE => get_fstabentry(Append(tab, e), n) = {}
<1> DEFINE more == Append(tab, e)
<1>1. /\ Len(tab) \in Nat /\ Len(more) = Len(tab) + 1 /\ more[Len(tab) + 1] = e
      /\ \A i \in 1 .. Len(tab) : more[i] = tab[i]
  BY Appended
<1>2. Unlinked(more, Len(tab) + 1) = tab
  BY UnlinkedAppended
<1> HIDE DEF more
<1>3. /\ \A i \in 1 .. Len(more) : i \in 1 .. Len(tab) \/ i = Len(tab) + 1
      /\ Len(tab) + 1 \in 1 .. Len(more)
  BY <1>1
<1>4. n.tail \in BOOLEAN /\ (n.tail = FALSE => Bare(n) = n)
  BY BareName DEF Names
<1>5. \A i \in 1 .. Len(tab) : tab[i].devname # Bare(n) /\ tab[i].devname.tail = FALSE
  BY DEF get_fstabentry, Entries, Tidy
<1>6. \A i \in 1 .. Len(tab) : tab[i].devname # n
  BY <1>4, <1>5
<1>7. Entries(more, n) = {Len(tab) + 1}
  <2>1. ASSUME NEW i \in 1 .. Len(more) PROVE more[i].devname = n <=> i = Len(tab) + 1
    BY <1>1, <1>3, <1>6
  <2> QED BY <1>3, <2>1 DEF Entries
<1>8. Len(tab) + 1 \in Nat
  BY <1>1
<1>13. First({Len(tab) + 1}) = Len(tab) + 1
  BY <1>8, FirstAlone
<1>9. remove_fstabentry(more, n) = tab
  BY <1>2, <1>7, <1>13 DEF remove_fstabentry
<1>10. n.tail = TRUE => Bare(n) # n
  BY DEF Names, Bare
<1>11. n.tail = TRUE => get_fstabentry(more, n) = {}
  BY <1>1, <1>3, <1>5, <1>10 DEF get_fstabentry, Entries
<1>12. n.tail = FALSE => get_fstabentry(more, n) = {Len(tab) + 1}
  BY <1>4, <1>7 DEF get_fstabentry
<1> QED BY <1>7, <1>9, <1>11, <1>12 DEF more

\* The entry of a mount that is not refused points to drivers that are there.
LEMMA EntryPoints ==
  ASSUME Inv, NEW n \in Names, NEW f \in FileSystems, Accepted(n, f),
         NEW b \in EntryBlocks \ Blocks(fstab)
  PROVE  LET e == NewEntry(n, f, b) IN
         /\ e \in fstabentry /\ e.devname = n /\ e.at \notin Blocks(fstab)
         /\ e.pfsdrv \in Blocks(driverlist) /\ e.pblkdrv \in Blocks(blk_driverlist)
         /\ ElementAt(driverlist, e.pfsdrv).name = f
<1> DEFINE k == First(Named(driverlist, f))
           l == First(Named(blk_driverlist, BlkName[n.dev]))
<1>1. k \in 1 .. Len(driverlist) /\ driverlist[k].name = f
  <2>1. k \in Named(driverlist, f)
    <3>1. Named(driverlist, f) \in SUBSET Nat /\ Named(driverlist, f) # {}
      BY DEF Accepted, Named
    <3> QED BY <3>1, FirstMember
  <2> QED BY <2>1 DEF Named
<1>2. l \in 1 .. Len(blk_driverlist)
  <2>1. l \in Named(blk_driverlist, BlkName[n.dev])
    <3>1. /\ Named(blk_driverlist, BlkName[n.dev]) \in SUBSET Nat
          /\ Named(blk_driverlist, BlkName[n.dev]) # {}
      BY DEF Accepted, Named
    <3> QED BY <3>1, FirstMember
  <2> QED BY <2>1 DEF Named
<1> HIDE DEF k, l
<1>3. /\ driverlist \in Seq(fs_driver) /\ Distinct(driverlist)
      /\ blk_driverlist \in Seq(blk_driver)
  BY DEF Inv, Sound
<1>4. driverlist[k] \in fs_driver /\ blk_driverlist[l] \in blk_driver
  BY <1>1, <1>2, <1>3
<1>5. /\ driverlist[k].at \in DriverBlocks \cap Blocks(driverlist)
      /\ blk_driverlist[l].at \in BlkBlocks \cap Blocks(blk_driverlist)
  BY <1>1, <1>2, <1>4 DEF fs_driver, blk_driver, Blocks
<1>6. ElementAt(driverlist, driverlist[k].at) = driverlist[k]
  BY <1>1, <1>3, ElementFound
<1>7. NewEntry(n, f, b) = [at |-> b, devname |-> n, pfs |-> NULL,
                           pfsdrv |-> driverlist[k].at, pblkdrv |-> blk_driverlist[l].at]
  BY DEF NewEntry, k, l
<1>8. NewEntry(n, f, b) \in fstabentry
  BY <1>5, <1>7 DEF fstabentry
<1> QED BY <1>1, <1>5, <1>6, <1>7, <1>8

LEMMA EntryWithVolume ==
  ASSUME NEW e \in fstabentry, NEW v \in VolumeBlocks
  PROVE  LET full == [e EXCEPT !.pfs = v] IN
         /\ full \in fstabentry /\ full.pfs = v /\ full.devname = e.devname /\ full.at = e.at
         /\ full.pfsdrv = e.pfsdrv /\ full.pblkdrv = e.pblkdrv
BY DEF fstabentry

\* The table with an entry whose volume was mounted.
LEMMA AppendedThenSet ==
  ASSUME NEW tab \in Seq(fstabentry), NEW e \in fstabentry, NEW v,
         NEW full \in fstabentry, full = [e EXCEPT !.pfs = v],
         NEW res, res = [Append(tab, e) EXCEPT ![Len(tab) + 1].pfs = v]
  PROVE  res \in Seq(fstabentry) /\ Extends(res, tab, full)
<1> DEFINE more == Append(tab, e)
           k == Len(tab) + 1
<1>1. /\ more \in Seq(fstabentry) /\ Len(tab) \in Nat /\ Len(more) = k /\ more[k] = e
      /\ \A i \in 1 .. Len(tab) : more[i] = tab[i]
  BY Appended
<1>2. k \in 1 .. Len(more) /\ \A i \in 1 .. Len(tab) : i \in 1 .. Len(more) /\ i # k
  BY <1>1
<1>3. res = [more EXCEPT ![k].pfs = v]
  OBVIOUS
<1> HIDE DEF more, k
<1>4. /\ [more EXCEPT ![k] = full] \in Seq(fstabentry)
      /\ Len([more EXCEPT ![k] = full]) = Len(more)
      /\ \A j \in 1 .. Len(more) : [more EXCEPT ![k] = full][j] = IF j = k THEN full ELSE more[j]
  BY <1>1, <1>2, ExceptSeq
<1>5. res = [more EXCEPT ![k] = full]
  BY <1>1, <1>3
<1>6. /\ res \in Seq(fstabentry) /\ Len(res) = k /\ res[k] = full
      /\ \A i \in 1 .. Len(tab) : res[i] = tab[i]
  BY <1>1, <1>2, <1>4, <1>5
<1> QED BY <1>6 DEF Extends, k

\* A mount that fails changes nothing but, at most, the volume blocks taken.
LEMMA MountUndone ==
  ASSUME Inv, UNCHANGED <<driverlist, blk_driverlist, fstab, filelist>>,
         volumes \subseteq volumes', volumes' \subseteq VolumeBlocks,
         ret' \in {"FR_EXIST", "FR_NO_FILE", "FR_INVALID_DRIVE", "FR_NOT_ENOUGH_CORE",
                  "FR_NOT_READY", "FR_NO_FILESYSTEM"}
  PROVE  Inv' /\ M!Next
<1>1. Sound(driverlist, blk_driverlist, fstab, filelist, volumes')
  BY DEF Inv, Sound
<1>2. Inv'
  BY <1>1 DEF Inv
<1> QED BY <1>2, NothingMoves

\* A mount that goes through puts an entry with its volume behind the table.
Entered(n, f, full) ==
  /\ full \in fstabentry /\ full.devname = n /\ full.at \notin Blocks(fstab)
  /\ full.pfsdrv \in Blocks(driverlist) /\ full.pblkdrv \in Blocks(blk_driverlist)
  /\ ElementAt(driverlist, full.pfsdrv).name = f
  /\ full.pfs \in VolumeBlocks \ volumes
  /\ fstab' \in Seq(fstabentry) /\ Extends(fstab', fstab, full)
  /\ TakeVolume(full.pfs, full) /\ FatCurrent(full)

\* One that fails leaves the table, and at most a block for a volume behind.
Undone ==
  /\ fstab' = fstab
  /\ \/ UNCHANGED <<volumes, pfstab, pCurFs>>
     \/ \E e \in fstabentry, v \in VolumeBlocks \ volumes : TakeVolume(v, e) /\ FatCurrent(e)

LEMMA MountCases ==
  ASSUME Inv, NEW n \in Names, NEW f \in FileSystems, mountfs(n, f)
  PROVE  \/ /\ Undone
            /\ ret' \in {"FR_EXIST", "FR_NO_FILE", "FR_INVALID_DRIVE", "FR_NOT_ENOUGH_CORE",
                        "FR_NOT_READY", "FR_NO_FILESYSTEM"}
         \/ /\ n.tail = FALSE /\ get_fstabentry(fstab, n) = {} /\ ret' = "FR_OK"
            /\ \E full : Entered(n, f, full)
<1> DEFINE Goal ==
         \/ /\ Undone
            /\ ret' \in {"FR_EXIST", "FR_NO_FILE", "FR_INVALID_DRIVE", "FR_NOT_ENOUGH_CORE",
                        "FR_NOT_READY", "FR_NO_FILESYSTEM"}
         \/ /\ n.tail = FALSE /\ get_fstabentry(fstab, n) = {} /\ ret' = "FR_OK"
            /\ \E full : Entered(n, f, full)
<1>2. fstab \in Seq(fstabentry) /\ Tidy(fstab) /\ Len(fstab) \in Nat
  BY DEF Inv, Sound
<1>3. CASE get_fstabentry(fstab, n) # {}
  <2>1. UNCHANGED <<fstab, volumes, pfstab, pCurFs>> /\ ret' = "FR_EXIST"
    BY <1>3 DEF mountfs, Returns
  <2> QED BY <2>1 DEF Undone
<1>4. ASSUME get_fstabentry(fstab, n) = {}, NEW code \in Refusals(n, f),
             UNCHANGED <<fstab, volumes, pfstab, pCurFs>>, ret' = code
      PROVE  Goal
  <2>1. ret' \in {"FR_NO_FILE", "FR_INVALID_DRIVE", "FR_NOT_ENOUGH_CORE"}
    BY <1>4 DEF Refusals
  <2> QED BY <1>4, <2>1 DEF Undone
<1>5. ASSUME get_fstabentry(fstab, n) = {}, Accepted(n, f),
             NEW b \in EntryBlocks \ Blocks(fstab),
             LET tab == Append(fstab, NewEntry(n, f, b))
                 found == get_fstabentry(tab, n)
             IN  IF found # {} THEN Mounted(tab, First(found), n)
                 ELSE /\ fstab' = remove_fstabentry(tab, n)
                      /\ UNCHANGED <<volumes, pfstab, pCurFs>>
                      /\ Returns("FR_NO_FILESYSTEM")
      PROVE  Goal
  <2> DEFINE e == NewEntry(n, f, b)
             tab == Append(fstab, e)
             k == Len(fstab) + 1
  <2>0. /\ e \in fstabentry /\ e.devname = n /\ e.at \notin Blocks(fstab)
        /\ e.pfsdrv \in Blocks(driverlist) /\ e.pblkdrv \in Blocks(blk_driverlist)
        /\ ElementAt(driverlist, e.pfsdrv).name = f
    BY <1>5, EntryPoints
  <2>3. IF get_fstabentry(tab, n) # {} THEN Mounted(tab, First(get_fstabentry(tab, n)), n)
        ELSE /\ fstab' = remove_fstabentry(tab, n)
             /\ UNCHANGED <<volumes, pfstab, pCurFs>>
             /\ Returns("FR_NO_FILESYSTEM")
    BY <1>5
  <2> HIDE DEF e
  <2>4. /\ remove_fstabentry(tab, n) = fstab
        /\ n.tail = FALSE => get_fstabentry(tab, n) = {k}
        /\ n.tail = TRUE => get_fstabentry(tab, n) = {}
    BY <1>2, <1>5, <2>0, EntryFound
  <2>5. tab[k] = e
    BY <1>2, <2>0, Appended
  <2>1. CASE n.tail = TRUE
    <3>3. fstab' = fstab /\ UNCHANGED <<volumes, pfstab, pCurFs>> /\ ret' = "FR_NO_FILESYSTEM"
      BY <2>1, <2>3, <2>4 DEF Returns
    <3> QED BY <3>3 DEF Undone
  <2>2. CASE n.tail = FALSE
    <3>3. First({k}) = k
      <4>1. k \in Nat
        BY <1>2
      <4> QED BY <4>1, FirstAlone
    <3>4. Mounted(tab, k, n)
      BY <2>2, <2>3, <2>4, <3>3
    <3> HIDE DEF k
    <3>5. CASE /\ fstab' = Dropped(tab, n) /\ ret' = "FR_NOT_READY"
               /\ \/ UNCHANGED <<volumes, pfstab, pCurFs>>
                  \/ /\ IsFat(tab[k]) /\ FatCurrent(tab[k])
                     /\ \E v \in VolumeBlocks \ volumes : TakeVolume(v, tab[k])
      <4>1. fstab' = fstab
        BY <2>4, <3>5 DEF Dropped
      <4> HIDE DEF tab
      <4>2. Undone
        BY <2>0, <2>5, <3>5, <4>1 DEF Undone
      <4> QED BY <3>5, <4>2
    <3>6. ASSUME NEW v \in VolumeBlocks \ volumes,
                 TakeVolume(v, tab[k]), FatCurrent(tab[k]),
                 fstab' = [tab EXCEPT ![k].pfs = v], ret' = "FR_OK"
          PROVE  Goal
      <4> DEFINE full == [e EXCEPT !.pfs = v]
      <4>1. /\ full \in fstabentry /\ full.devname = n /\ full.at \notin Blocks(fstab)
            /\ full.pfs = v /\ full.pfsdrv \in Blocks(driverlist)
            /\ full.pblkdrv \in Blocks(blk_driverlist)
            /\ ElementAt(driverlist, full.pfsdrv).name = f
            /\ full.at = e.at /\ full.pfsdrv = e.pfsdrv
        BY <2>0, EntryWithVolume
      <4>2. full = [e EXCEPT !.pfs = v]
        OBVIOUS
      <4> HIDE DEF full
      <4>3. fstab' \in Seq(fstabentry) /\ Extends(fstab', fstab, full)
        BY <1>2, <2>0, <3>6, <4>1, <4>2, AppendedThenSet DEF k
      <4> HIDE DEF tab
      <4>4. TakeVolume(v, e) /\ FatCurrent(e)
        BY <2>5, <3>6
      <4>5. TakeVolume(full.pfs, full) /\ FatCurrent(full)
        BY <4>1, <4>4 DEF TakeVolume, FatCurrent, IsFat
      <4>6. Entered(n, f, full)
        BY <4>1, <4>3, <4>5 DEF Entered
      <4> QED BY <1>5, <2>2, <3>6, <4>6
    <3> QED BY <3>4, <3>5, <3>6 DEF Mounted, Returns
  <2> QED BY <2>1, <2>2 DEF Names
<1>6. \/ get_fstabentry(fstab, n) # {}
      \/ /\ get_fstabentry(fstab, n) = {}
         /\ \E code \in Refusals(n, f) :
              UNCHANGED <<fstab, volumes, pfstab, pCurFs>> /\ Returns(code)
      \/ /\ get_fstabentry(fstab, n) = {} /\ Accepted(n, f)
         /\ \E b \in EntryBlocks \ Blocks(fstab) :
              LET tab == Append(fstab, NewEntry(n, f, b))
                  found == get_fstabentry(tab, n)
              IN  IF found # {} THEN Mounted(tab, First(found), n)
                  ELSE /\ fstab' = remove_fstabentry(tab, n)
                       /\ UNCHANGED <<volumes, pfstab, pCurFs>>
                       /\ Returns("FR_NO_FILESYSTEM")
  BY Zenon DEF mountfs
<1> QED BY <1>3, <1>4, <1>5, <1>6 DEF Returns

LEMMA MountFs ==
  ASSUME Inv, NEW n \in Names, NEW f \in FileSystems, mountfs(n, f)
  PROVE  Inv' /\ M!Next
<1>1. UNCHANGED <<driverlist, blk_driverlist, filelist>>
  BY DEF mountfs
<1>2. volumes \subseteq VolumeBlocks
  BY DEF Inv, Sound
<1>3. CASE /\ Undone
           /\ ret' \in {"FR_EXIST", "FR_NO_FILE", "FR_INVALID_DRIVE", "FR_NOT_ENOUGH_CORE",
                       "FR_NOT_READY", "FR_NO_FILESYSTEM"}
  <2>1. fstab' = fstab /\ volumes \subseteq volumes' /\ volumes' \subseteq VolumeBlocks
    BY <1>2, <1>3 DEF Undone, TakeVolume
  <2> QED BY <1>1, <1>3, <2>1, MountUndone
<1>4. ASSUME n.tail = FALSE, get_fstabentry(fstab, n) = {}, ret' = "FR_OK",
             NEW full, Entered(n, f, full)
      PROVE  Inv' /\ M!Next
  <2> DEFINE d == n.dev
  <2>1. n = Bared(d) /\ Bare(n) = n /\ d \in Devices
    BY <1>4, BareName DEF Names
  <2>2. \A i \in 1 .. Len(fstab) : fstab[i].devname # Bared(d)
    BY <1>4, <2>1 DEF get_fstabentry, Entries
  <2> HIDE DEF d
  <2>3. volumes' = volumes \cup {full.pfs}
    BY <1>4 DEF Entered, TakeVolume
  <2>4. /\ Sound(driverlist, blk_driverlist, fstab', filelist, volumes \cup {full.pfs})
        /\ As(driverlist, fstab, d) = NULL
        /\ As(driverlist, fstab', d) = ElementAt(driverlist, full.pfsdrv).name
        /\ \A c : c # d => As(driverlist, fstab', c) = As(driverlist, fstab, c)
        /\ \A c : Users(fstab', filelist, c) = Users(fstab, filelist, c)
    BY <1>4, <2>1, <2>2, EntryAdded DEF Entered
  <2>5. Inv'
    BY <1>1, <2>3, <2>4 DEF Inv
  <2>6. UsersOf' = UsersOf
    BY <1>1, <2>4, Views
  <2>7. As(driverlist, fstab', d) = f
    BY <1>4, <2>4 DEF Entered
  <2>8. MountedAs[d] = NULL /\ MountedAs' = [MountedAs EXCEPT ![d] = f]
    BY <1>1, <2>1, <2>4, <2>7, Views
  <2>9. M!Mount(d, f)
    BY <1>4, <2>6, <2>8 DEF M!Mount
  <2> QED BY <2>1, <2>5, <2>9 DEF M!Next
<1> QED BY <1>3, <1>4, MountCases

\* An unmount that is not refused takes an entry without files out.
UmountedAt(n, k) ==
  /\ k \in 1 .. Len(fstab) /\ fstab[k].devname = n
  /\ \A h \in Fds : filelist[h] # fstab[k].at
  /\ fstab' = Unlinked(fstab, k) /\ Unmounted(fstab[k])

LEMMA UmountCases ==
  ASSUME Inv, NEW n \in Names, CARELESS = FALSE, MayUmount(n), umountfs(n)
  PROVE  /\ n = Bared(n.dev) /\ n.dev \in Devices
         /\ \/ UNCHANGED <<fstab, volumes, pfstab, pCurFs>> /\ ret' = "FR_INVALID_DRIVE"
            \/ ret' = "FR_OK" /\ \E k : UmountedAt(n, k)
<1>1. n = Bared(n.dev) /\ Bare(n) = n /\ n.dev \in Devices /\ n.tail = FALSE
  <2>1. n.tail = FALSE
    BY DEF MayUmount, Names
  <2> QED BY <2>1, BareName DEF Names
<1>2. CASE get_fstabentry(fstab, n) = {}
  <2>1. UNCHANGED <<fstab, volumes, pfstab, pCurFs>> /\ ret' = "FR_INVALID_DRIVE"
    BY <1>2 DEF umountfs, Returns
  <2> QED BY <1>1, <2>1
<1>3. CASE get_fstabentry(fstab, n) # {}
  <2> DEFINE k == First(get_fstabentry(fstab, n))
             tab == IF IsFat(fstab[k]) THEN [fstab EXCEPT ![k].pfs = NULL] ELSE fstab
  <2>1. /\ Unmounted(fstab[k])
        /\ fstab' = remove_fstabentry(tab, n) /\ ret' = "FR_OK"
    BY <1>3 DEF umountfs, Returns
  <2>3. fstab \in Seq(fstabentry) /\ Tidy(fstab)
    BY DEF Inv, Sound
  <2>4. k \in 1 .. Len(fstab) /\ fstab[k].devname = n
    <3>1. get_fstabentry(fstab, n) \in SUBSET Nat
      BY DEF get_fstabentry, Entries
    <3>2. k \in get_fstabentry(fstab, n)
      BY <1>3, <3>1, FirstMember
    <3> QED BY <1>1, <3>2 DEF get_fstabentry, Entries
  <2> HIDE DEF k
  <2>5. \A h \in Fds : filelist[h] # fstab[k].at
    BY <2>4 DEF MayUmount, Entries
  <2>6. /\ tab \in Seq(fstabentry) /\ Len(tab) = Len(fstab)
        /\ \A i \in 1 .. Len(fstab) : tab[i].devname = fstab[i].devname
        /\ Unlinked(tab, k) = Unlinked(fstab, k)
    <3> DEFINE e == [fstab[k] EXCEPT !.pfs = NULL]
    <3>1. CASE tab = fstab
      BY <2>3, <3>1
    <3>2. CASE tab = [fstab EXCEPT ![k].pfs = NULL]
      <4>1. fstab[k] \in fstabentry
        BY <2>3, <2>4
      <4>2. e \in fstabentry /\ e.devname = fstab[k].devname
        BY <4>1 DEF fstabentry
      <4>3. tab = [fstab EXCEPT ![k] = e]
        BY <2>3, <2>4, <3>2
      <4> HIDE DEF e, tab
      <4>4. /\ [fstab EXCEPT ![k] = e] \in Seq(fstabentry)
            /\ Len([fstab EXCEPT ![k] = e]) = Len(fstab)
            /\ \A j \in 1 .. Len(fstab) :
                 [fstab EXCEPT ![k] = e][j] = IF j = k THEN e ELSE fstab[j]
        BY <2>3, <2>4, <4>2, ExceptSeq
      <4>5. Unlinked([fstab EXCEPT ![k] = e], k) = Unlinked(fstab, k)
        BY <2>3, <2>4, <4>2, UnlinkedExcept
      <4> QED BY <4>2, <4>3, <4>4, <4>5
    <3> QED BY <3>1, <3>2
  <2> HIDE DEF tab
  <2>7. Entries(tab, n) = {k}
    <3>1. Entries(fstab, n) = {k}
      BY <2>3, <2>4, EntryAlone
    <3> QED BY <2>6, <3>1 DEF Entries
  <2>8. fstab' = Unlinked(fstab, k)
    <3>1. k \in Nat
      BY <2>4
    <3>2. First({k}) = k
      BY <3>1, FirstAlone
    <3> QED BY <2>1, <2>6, <2>7, <3>2 DEF remove_fstabentry
  <2>9. UmountedAt(n, k)
    BY <2>1, <2>4, <2>5, <2>8 DEF UmountedAt
  <2> QED BY <1>1, <2>1, <2>9
<1> QED BY <1>2, <1>3

LEMMA UmountFs ==
  ASSUME Inv, NEW n \in Names, CARELESS = FALSE, MayUmount(n), umountfs(n)
  PROVE  Inv' /\ M!Next
<1>1. UNCHANGED <<driverlist, blk_driverlist, filelist>>
  BY DEF umountfs
<1>2. CASE UNCHANGED <<fstab, volumes, pfstab, pCurFs>> /\ ret' = "FR_INVALID_DRIVE"
  <2>1. volumes \subseteq volumes' /\ volumes' \subseteq VolumeBlocks
    BY <1>2 DEF Inv, Sound
  <2> QED BY <1>1, <1>2, <2>1, MountUndone
<1>3. ASSUME ret' = "FR_OK", NEW k, UmountedAt(n, k)
      PROVE  Inv' /\ M!Next
  <2> DEFINE d == n.dev
  <2>1. /\ k \in 1 .. Len(fstab) /\ fstab[k].devname = Bared(d) /\ d \in Devices
        /\ \A h \in Fds : filelist[h] # fstab[k].at
        /\ fstab' = Unlinked(fstab, k) /\ volumes' = volumes \ {fstab[k].pfs}
    BY <1>3, UmountCases DEF UmountedAt, Unmounted
  <2> HIDE DEF d
  <2>2. /\ Sound(driverlist, blk_driverlist, Unlinked(fstab, k), filelist, volumes \ {fstab[k].pfs})
        /\ As(driverlist, fstab, d) # NULL /\ Users(fstab, filelist, d) = 0
        /\ As(driverlist, Unlinked(fstab, k), d) = NULL
        /\ \A c : c # d => As(driverlist, Unlinked(fstab, k), c) = As(driverlist, fstab, c)
        /\ \A c : Users(Unlinked(fstab, k), filelist, c) = Users(fstab, filelist, c)
    BY <2>1, EntryRemoved
  <2>3. Inv'
    BY <1>1, <2>1, <2>2 DEF Inv
  <2>4. UsersOf' = UsersOf /\ UsersOf[d] = 0
    BY <1>1, <2>1, <2>2, Views
  <2>5. MountedAs[d] # NULL /\ MountedAs' = [MountedAs EXCEPT ![d] = NULL]
    BY <1>1, <2>1, <2>2, Views
  <2>6. M!Umount(d)
    BY <1>3, <2>4, <2>5 DEF M!Umount
  <2> QED BY <2>1, <2>3, <2>6 DEF M!Next
<1> QED BY <1>2, <1>3, UmountCases

-----------------------------------------------------------------------------
(* Files *)

\* The handle h, which stood on no entry, stands on the i-th.
Stands(fl, then, h, i) ==
  /\ fl[h] = NULL /\ then[h] = fstab[i].at
  /\ \A g \in Fds : g # h => then[g] = fl[g]

\* A handle that comes to stand on an entry, or leaves it.
LEMMA UsersChange ==
  ASSUME Inv, NEW h \in Fds, NEW i \in 1 .. Len(fstab), NEW d \in Devices,
         fstab[i].devname = Bared(d),
         NEW now, NEW then, Stands(now, then, h, i)
  PROVE  /\ Users(fstab, now, d) \in Nat
         /\ Users(fstab, then, d) = Users(fstab, now, d) + 1
         /\ \A c : c # d => Users(fstab, then, c) = Users(fstab, now, c)
<1>1. fstab \in Seq(fstabentry) /\ Tidy(fstab)
  BY DEF Inv, Sound
<1>2. ASSUME NEW j \in 1 .. Len(fstab) PROVE fstab[j].at \in EntryBlocks /\ fstab[j].at # NULL
  <2>1. fstab[j] \in fstabentry
    BY <1>1
  <2> QED BY <2>1, MountAssumption DEF fstabentry
<1>3. \A j \in 1 .. Len(fstab) : j # i => fstab[j].at # fstab[i].at
  BY <1>1 DEF Tidy, Distinct
<1>4. Users(fstab, now, d) = Cardinality(Holders(now, fstab[i].at))
  BY <1>1, Seen
<1>5. Users(fstab, then, d) = Cardinality(Holders(then, fstab[i].at))
  BY <1>1, Seen
<1>6. Holders(then, fstab[i].at) = Holders(now, fstab[i].at) \cup {h} /\ h \notin Holders(now, fstab[i].at)
  BY <1>2 DEF Holders, Stands
<1>7. IsFiniteSet(Holders(now, fstab[i].at))
  <2>1. Holders(now, fstab[i].at) \in SUBSET Fds
    BY DEF Holders
  <2> QED BY <2>1, FS_Subset, MountAssumption
<1>8. /\ Cardinality(Holders(now, fstab[i].at)) \in Nat
      /\ Cardinality(Holders(now, fstab[i].at) \cup {h}) = Cardinality(Holders(now, fstab[i].at)) + 1
  BY <1>6, <1>7, FS_AddElement, FS_CardinalityType
<1>9. ASSUME NEW c, c # d PROVE Users(fstab, then, c) = Users(fstab, now, c)
  <2>1. CASE \A j \in 1 .. Len(fstab) : fstab[j].devname # Bared(c)
    BY <2>1, Unseen
  <2>2. CASE \E j \in 1 .. Len(fstab) : fstab[j].devname = Bared(c)
    <3>1. PICK j \in 1 .. Len(fstab) : fstab[j].devname = Bared(c)
      BY <2>2
    <3>2. j # i
      BY <1>9, <3>1 DEF Bared
    <3>3. Holders(then, fstab[j].at) = Holders(now, fstab[j].at)
      BY <1>2, <1>3, <3>2 DEF Holders, Stands
    <3>4. /\ Users(fstab, now, c) = Cardinality(Holders(now, fstab[j].at))
          /\ Users(fstab, then, c) = Cardinality(Holders(then, fstab[j].at))
      BY <1>1, <3>1, Seen
    <3> QED BY <3>3, <3>4
  <2> QED BY <2>1, <2>2
<1> QED BY <1>4, <1>5, <1>6, <1>8, <1>9

LEMMA OpenFile ==
  ASSUME Inv, NEW h \in Fds, NEW d \in Devices, _ll_open(h, d)
  PROVE  Inv' /\ M!Next
<1> DEFINE n == [dev |-> d, tail |-> FALSE]
           found == get_fstabentry(fstab, n)
           i == First(found)
<1>1. filelist[h] = NULL /\ UNCHANGED <<driverlist, blk_driverlist, fstab, volumes>>
  BY DEF _ll_open
<1>2. CASE filelist' = filelist /\ ret' = "0"
  <2>1. Inv'
    BY <1>1, <1>2 DEF Inv
  <2> QED BY <1>1, <1>2, <2>1, NothingMoves
<1>3. CASE found # {} /\ ret' = "fd" /\ filelist' = [filelist EXCEPT ![h] = fstab[i].at]
  <2>1. i \in 1 .. Len(fstab) /\ fstab[i].devname = Bared(d)
    <3>1. found \in SUBSET Nat
      BY DEF get_fstabentry, Entries
    <3>2. i \in found
      BY <1>3, <3>1, FirstMember
    <3>3. Bare(n) = Bared(d)
      <4>1. n \in Names /\ n.tail = FALSE /\ n.dev = d
        BY DEF Names
      <4> HIDE DEF n
      <4> QED BY <4>1, BareName
    <3> QED BY <3>2, <3>3 DEF get_fstabentry, Entries
  <2> HIDE DEF i
  <2>2. filelist \in [Fds -> EntryBlocks \cup {NULL}]
    BY DEF Inv, Sound
  <2>3. /\ Users(fstab, filelist', d) = Users(fstab, filelist, d) + 1
        /\ \A c : c # d => Users(fstab, filelist', c) = Users(fstab, filelist, c)
    <3>1. Stands(filelist, filelist', h, i)
      BY <1>1, <1>3, <2>2 DEF Stands
    <3> QED BY <2>1, <3>1, UsersChange
  <2>4. Inv'
    <3>1. fstab[i].at \in EntryBlocks /\ fstab[i].at \in Blocks(fstab)
      <4>1. fstab[i] \in fstabentry
        BY <2>1 DEF Inv, Sound
      <4> QED BY <2>1, <4>1 DEF fstabentry, Blocks
    <3>2. /\ filelist' \in [Fds -> EntryBlocks \cup {NULL}]
          /\ \A g \in Fds : filelist'[g] # NULL => filelist'[g] \in Blocks(fstab)
      BY <1>3, <2>2, <3>1 DEF Inv, Sound
    <3>3. Sound(driverlist, blk_driverlist, fstab, filelist', volumes)
      BY <3>2 DEF Inv, Sound
    <3> QED BY <1>1, <3>3 DEF Inv
  <2>5. MountedAs' = MountedAs /\ MountedAs[d] # NULL
    <3>1. As(driverlist, fstab, d) = ElementAt(driverlist, fstab[i].pfsdrv).name
      BY <2>1, Seen DEF Inv, Sound
    <3>2. ElementAt(driverlist, fstab[i].pfsdrv) \in fs_driver
      BY <2>1, ElementIs DEF Inv, Sound
    <3>3. As(driverlist, fstab, d) # NULL
      BY <3>1, <3>2, MountAssumption DEF fs_driver, FileSystems
    <3> QED BY <1>1, <3>3, Views
  <2>6. UsersOf' = [UsersOf EXCEPT ![d] = @ + 1]
    BY <1>1, <2>3, Views
  <2>7. M!Open(d)
    BY <1>3, <2>5, <2>6 DEF M!Open
  <2> QED BY <2>4, <2>7 DEF M!Next
<1> QED BY <1>2, <1>3 DEF _ll_open, Returns

LEMMA CloseFile ==
  ASSUME Inv, NEW h \in Fds, _ll_close(h)
  PROVE  Inv' /\ M!Next
<1>1. /\ filelist[h] # NULL /\ UNCHANGED <<driverlist, blk_driverlist, fstab, volumes>>
      /\ filelist' = [filelist EXCEPT ![h] = NULL] /\ ret' = "EZERO"
  BY DEF _ll_close, Returns
<1>2. filelist \in [Fds -> EntryBlocks \cup {NULL}]
  BY DEF Inv, Sound
<1>3. PICK i \in 1 .. Len(fstab) : filelist[h] = fstab[i].at
  BY <1>1 DEF Inv, Sound, Blocks
<1> DEFINE d == fstab[i].devname.dev
<1>4. d \in Devices /\ fstab[i].devname = Bared(d)
  <2>1. fstab[i] \in fstabentry /\ fstab[i].devname.tail = FALSE
    BY DEF Inv, Sound, Tidy
  <2> QED BY <2>1 DEF fstabentry, Names, Bared
<1> HIDE DEF d
<1>5. /\ filelist' \in [Fds -> EntryBlocks \cup {NULL}] /\ filelist'[h] = NULL
      /\ filelist = [filelist' EXCEPT ![h] = fstab[i].at]
  BY <1>1, <1>2, <1>3
<1>6. /\ Users(fstab, filelist', d) \in Nat
      /\ Users(fstab, filelist, d) = Users(fstab, filelist', d) + 1
      /\ \A c : c # d => Users(fstab, filelist, c) = Users(fstab, filelist', c)
  <2>1. Stands(filelist', filelist, h, i)
    BY <1>1, <1>3, <1>5 DEF Stands
  <2> QED BY <1>4, <2>1, UsersChange
<1>7. Inv'
  <2>1. \A g \in Fds : filelist'[g] # NULL => filelist'[g] \in Blocks(fstab)
    BY <1>1, <1>2 DEF Inv, Sound
  <2>2. Sound(driverlist, blk_driverlist, fstab, filelist', volumes)
    BY <1>5, <2>1 DEF Inv, Sound
  <2> QED BY <1>1, <2>2 DEF Inv
<1>8. MountedAs' = MountedAs
  BY <1>1, Views
<1>9. UsersOf[d] > 0 /\ UsersOf' = [UsersOf EXCEPT ![d] = @ - 1]
  <2>1. /\ UsersOf = [c \in Devices |-> Users(fstab, filelist, c)]
        /\ UsersOf' = [c \in Devices |-> Users(fstab, filelist', c)]
    BY <1>1, Views
  <2>2. UsersOf[d] = Users(fstab, filelist', d) + 1
    BY <1>4, <1>6, <2>1
  <2>3. \A c \in Devices : UsersOf'[c] = IF c = d THEN UsersOf[d] - 1 ELSE UsersOf[c]
    BY <1>6, <2>1, <2>2
  <2>4. UsersOf' = [UsersOf EXCEPT ![d] = @ - 1]
    BY <2>1, <2>3
  <2> QED BY <1>6, <2>2, <2>4
<1>10. M!Close(d)
  BY <1>1, <1>8, <1>9 DEF M!Close
<1> QED BY <1>4, <1>7, <1>10 DEF M!Next

-----------------------------------------------------------------------------
(* The pointers of FatFs into the table *)

\* The block of a FAT volume points back to its entry.
Backs(dl, tab, pt) ==
  \A i \in 1 .. Len(tab) :
    pt[tab[i].pfs] = IF ElementAt(dl, tab[i].pfsdrv).name = FAT THEN tab[i].at ELSE NULL

PInv ==
  /\ pfstab \in [VolumeBlocks -> EntryBlocks \cup {NULL}]
  /\ pCurFs \in EntryBlocks \cup {NULL}
  /\ Backs(driverlist, fstab, pfstab)

\* The entry made current is an entry.
LEMMA CurrentTyped ==
  ASSUME PInv, NEW e, e.at \in EntryBlocks, FatCurrent(e)
  PROVE  pCurFs' \in EntryBlocks \cup {NULL}
BY DEF PInv, FatCurrent

\* A step that neither mounts nor unmounts leaves them.
LEMMA PointersStay ==
  ASSUME PInv, UNCHANGED <<fstab, pfstab>>, Kept(driverlist, driverlist', fstab),
         pCurFs' \in EntryBlocks \cup {NULL}
  PROVE  PInv'
<1>1. \A i \in 1 .. Len(fstab) :
        ElementAt(driverlist', fstab[i].pfsdrv) = ElementAt(driverlist, fstab[i].pfsdrv)
  BY DEF Kept
<1>2. Backs(driverlist', fstab, pfstab)
  BY <1>1 DEF PInv, Backs
<1> QED BY <1>2 DEF PInv

LEMMA VolumeTaken ==
  ASSUME Inv, PInv, NEW e \in fstabentry, NEW v \in VolumeBlocks \ volumes, TakeVolume(v, e)
  PROVE  /\ pfstab' \in [VolumeBlocks -> EntryBlocks \cup {NULL}]
         /\ pfstab'[v] = IF IsFat(e) THEN e.at ELSE NULL
         /\ Backs(driverlist, fstab, pfstab')
<1>1. e.at \in EntryBlocks
  BY DEF fstabentry
<1>2. /\ pfstab' \in [VolumeBlocks -> EntryBlocks \cup {NULL}]
      /\ \A w \in VolumeBlocks :
           pfstab'[w] = IF w = v THEN (IF IsFat(e) THEN e.at ELSE NULL) ELSE pfstab[w]
  BY <1>1 DEF PInv, TakeVolume
<1>3. \A i \in 1 .. Len(fstab) : fstab[i].pfs \in volumes /\ fstab[i].pfs \in VolumeBlocks
  BY DEF Inv, Sound
<1>4. \A i \in 1 .. Len(fstab) : pfstab'[fstab[i].pfs] = pfstab[fstab[i].pfs]
  BY <1>2, <1>3
<1>5. Backs(driverlist, fstab, pfstab')
  BY <1>4 DEF PInv, Backs
<1> QED BY <1>2, <1>5

LEMMA MountPointers ==
  ASSUME Inv, PInv, NEW n \in Names, NEW f \in FileSystems, mountfs(n, f)
  PROVE  PInv'
<1>1. driverlist' = driverlist
  BY DEF mountfs
<1>2. CASE Undone
  <2>1. fstab' = fstab
    BY <1>2 DEF Undone
  <2>2. CASE UNCHANGED <<volumes, pfstab, pCurFs>>
    BY <1>1, <2>1, <2>2 DEF PInv
  <2>3. ASSUME NEW e \in fstabentry, NEW v \in VolumeBlocks \ volumes,
               TakeVolume(v, e), FatCurrent(e)
        PROVE  PInv'
    <3>1. e.at \in EntryBlocks
      BY DEF fstabentry
    <3>2. pCurFs' \in EntryBlocks \cup {NULL}
      BY <2>3, <3>1, CurrentTyped
    <3>3. /\ pfstab' \in [VolumeBlocks -> EntryBlocks \cup {NULL}]
          /\ Backs(driverlist, fstab, pfstab')
      BY <2>3, VolumeTaken
    <3> QED BY <1>1, <2>1, <3>2, <3>3 DEF PInv
  <2> QED BY <1>2, <2>2, <2>3 DEF Undone
<1>3. ASSUME NEW full, Entered(n, f, full) PROVE PInv'
  <2>1. /\ full \in fstabentry /\ full.pfs \in VolumeBlocks \ volumes
        /\ Extends(fstab', fstab, full) /\ TakeVolume(full.pfs, full) /\ FatCurrent(full)
    BY <1>3 DEF Entered
  <2>2. full.at \in EntryBlocks
    BY <2>1 DEF fstabentry
  <2>3. pCurFs' \in EntryBlocks \cup {NULL}
    BY <2>1, <2>2, CurrentTyped
  <2>4. /\ pfstab' \in [VolumeBlocks -> EntryBlocks \cup {NULL}]
        /\ pfstab'[full.pfs] = IF IsFat(full) THEN full.at ELSE NULL
        /\ Backs(driverlist, fstab, pfstab')
    BY <2>1, VolumeTaken
  <2>5. /\ Len(fstab) \in Nat /\ Len(fstab') = Len(fstab) + 1 /\ fstab'[Len(fstab) + 1] = full
        /\ \A i \in 1 .. Len(fstab) : fstab'[i] = fstab[i]
    BY <2>1 DEF Inv, Sound, Extends
  <2>6. \A i \in 1 .. Len(fstab') : i \in 1 .. Len(fstab) \/ i = Len(fstab) + 1
    BY <2>5
  <2>7. Backs(driverlist, fstab', pfstab')
    BY <2>4, <2>5, <2>6 DEF Backs, IsFat
  <2> QED BY <1>1, <2>3, <2>4, <2>7 DEF PInv
<1> QED BY <1>2, <1>3, MountCases

LEMMA UmountPointers ==
  ASSUME Inv, PInv, NEW n \in Names, CARELESS = FALSE, MayUmount(n), umountfs(n)
  PROVE  PInv'
<1>1. driverlist' = driverlist
  BY DEF umountfs
<1>2. CASE UNCHANGED <<fstab, volumes, pfstab, pCurFs>>
  BY <1>1, <1>2 DEF PInv
<1>3. ASSUME NEW k, UmountedAt(n, k) PROVE PInv'
  <2>1. /\ k \in 1 .. Len(fstab) /\ fstab' = Unlinked(fstab, k) /\ Unmounted(fstab[k])
    BY <1>3 DEF UmountedAt
  <2>2. fstab \in Seq(fstabentry) /\ Tidy(fstab)
    BY DEF Inv, Sound
  <2>3. fstab[k].at \in EntryBlocks
    <3>1. fstab[k] \in fstabentry
      BY <2>1, <2>2
    <3> QED BY <3>1 DEF fstabentry
  <2>4. pCurFs' \in EntryBlocks \cup {NULL}
    BY <2>1, <2>3, CurrentTyped DEF Unmounted, PInv
  <2>5. /\ pfstab' = [v \in VolumeBlocks |-> IF v = fstab[k].pfs THEN NULL ELSE pfstab[v]]
        /\ pfstab \in [VolumeBlocks -> EntryBlocks \cup {NULL}]
    BY <2>1 DEF Unmounted, PInv
  <2>6. /\ Len(fstab') = Len(fstab) - 1
        /\ \A j \in 1 .. Len(fstab') : fstab'[j] = fstab[Before(k, j)]
    BY <2>1, <2>2, UnlinkedElements
  <2>7. \A j \in 1 .. Len(fstab') : Before(k, j) \in 1 .. Len(fstab) /\ Before(k, j) # k
    BY <2>1, <2>2, <2>6, UnlinkedFrom
  <2>8. ASSUME NEW j \in 1 .. Len(fstab')
        PROVE  pfstab'[fstab'[j].pfs] =
                 IF ElementAt(driverlist, fstab'[j].pfsdrv).name = FAT THEN fstab'[j].at ELSE NULL
    <3> DEFINE i == Before(k, j)
    <3>1. i \in 1 .. Len(fstab) /\ i # k /\ fstab'[j] = fstab[i]
      BY <2>6, <2>7
    <3> HIDE DEF i
    <3>2. fstab[i].pfs # fstab[k].pfs /\ fstab[i].pfs \in VolumeBlocks
      BY <2>1, <2>2, <3>1 DEF Tidy, Inv, Sound
    <3>3. pfstab'[fstab[i].pfs] = pfstab[fstab[i].pfs]
      BY <2>5, <3>2
    <3> QED BY <3>1, <3>3 DEF PInv, Backs
  <2>9. Backs(driverlist, fstab', pfstab')
    BY <2>8 DEF Backs
  <2>10. pfstab' \in [VolumeBlocks -> EntryBlocks \cup {NULL}]
    BY <2>5
  <2> QED BY <1>1, <2>4, <2>9, <2>10 DEF PInv
<1> QED BY <1>2, <1>3, UmountCases

LEMMA OpenPointers ==
  ASSUME Inv, PInv, NEW h \in Fds, NEW d \in Devices, _ll_open(h, d)
  PROVE  PInv'
<1> DEFINE n == [dev |-> d, tail |-> FALSE]
           found == get_fstabentry(fstab, n)
           e == fstab[First(found)]
<1>1. UNCHANGED <<driverlist, fstab, pfstab>>
  BY DEF _ll_open
<1>2. pCurFs' = pCurFs \/ (found # {} /\ FatCurrent(e))
  BY DEF _ll_open
<1>3. ASSUME found # {} PROVE e.at \in EntryBlocks
  <2>1. found \in SUBSET Nat
    BY DEF get_fstabentry, Entries
  <2>2. First(found) \in found
    BY <1>3, <2>1, FirstMember
  <2>3. First(found) \in 1 .. Len(fstab)
    BY <2>2 DEF get_fstabentry, Entries
  <2>4. e \in fstabentry
    BY <2>3 DEF Inv, Sound
  <2> QED BY <2>4 DEF fstabentry
<1> HIDE DEF e, found
<1>4. pCurFs' \in EntryBlocks \cup {NULL}
  BY <1>2, <1>3, CurrentTyped DEF PInv
<1>5. Kept(driverlist, driverlist', fstab)
  BY <1>1 DEF Kept
<1> QED BY <1>1, <1>4, <1>5, PointersStay

LEMMA PointersHold ==
  ASSUME CARELESS = FALSE, Inv, PInv, [Next]_vars
  PROVE  PInv'
<1>1. CASE UNCHANGED vars
  BY <1>1 DEF PInv, vars
<1>2. ASSUME UNCHANGED <<fstab, pfstab, pCurFs>>, Kept(driverlist, driverlist', fstab)
      PROVE  PInv'
  BY <1>2, PointersStay DEF PInv
<1>3. ASSUME UNCHANGED <<driverlist, fstab, pfstab, pCurFs>> PROVE PInv'
  BY <1>2, <1>3 DEF Kept
<1>4. ASSUME NEW name \in FileSystems,
             register_driver(name) \/ (MayTake(name) /\ un_register_driver(name))
      PROVE  PInv'
  <2>1. Kept(driverlist, driverlist', fstab)
    BY <1>4, RegisterDriver, UnregisterDriver
  <2> QED BY <1>2, <1>4, <2>1 DEF register_driver, un_register_driver
<1>5. ASSUME NEW name \in BlkNames,
             register_blk_driver(name) \/ (MayTakeBlk(name) /\ un_register_blk_driver(name))
      PROVE  PInv'
  BY <1>3, <1>5 DEF register_blk_driver, un_register_blk_driver
<1>6. ASSUME NEW n \in Names, NEW f \in FileSystems, mountfs(n, f) PROVE PInv'
  BY <1>6, MountPointers
<1>7. ASSUME NEW n \in Names, MayUmount(n), umountfs(n) PROVE PInv'
  BY <1>7, UmountPointers
<1>8. ASSUME NEW h \in Fds, NEW d \in Devices, _ll_open(h, d) PROVE PInv'
  BY <1>8, OpenPointers
<1>9. ASSUME NEW h \in Fds, _ll_close(h) PROVE PInv'
  BY <1>3, <1>9 DEF _ll_close
<1> QED BY <1>1, <1>4, <1>5, <1>6, <1>7, <1>8, <1>9 DEF Next

-----------------------------------------------------------------------------
(* Theorems *)

LEMMA StepHolds ==
  ASSUME CARELESS = FALSE, Inv, [Next]_vars
  PROVE  Inv' /\ [M!Next]_(M!mmvars)
<1>1. CASE UNCHANGED vars
  <2>1. Inv'
    BY <1>1 DEF Inv, vars
  <2>2. UNCHANGED M!mmvars
    BY <1>1, Views DEF vars, M!mmvars
  <2> QED BY <2>1, <2>2
<1>2. ASSUME NEW name \in FileSystems, register_driver(name) PROVE Inv' /\ M!Next
  BY <1>2, RegisterDriver
<1>3. ASSUME NEW name \in FileSystems, MayTake(name), un_register_driver(name) PROVE Inv' /\ M!Next
  BY <1>3, UnregisterDriver
<1>4. ASSUME NEW name \in BlkNames, register_blk_driver(name) PROVE Inv' /\ M!Next
  BY <1>4, RegisterBlk
<1>5. ASSUME NEW name \in BlkNames, MayTakeBlk(name), un_register_blk_driver(name)
      PROVE  Inv' /\ M!Next
  BY <1>5, UnregisterBlk
<1>6. ASSUME NEW n \in Names, NEW f \in FileSystems, mountfs(n, f) PROVE Inv' /\ M!Next
  BY <1>6, MountFs
<1>7. ASSUME NEW n \in Names, MayUmount(n), umountfs(n) PROVE Inv' /\ M!Next
  BY <1>7, UmountFs
<1>8. ASSUME NEW h \in Fds, NEW d \in Devices, _ll_open(h, d) PROVE Inv' /\ M!Next
  BY <1>8, OpenFile
<1>9. ASSUME NEW h \in Fds, _ll_close(h) PROVE Inv' /\ M!Next
  BY <1>9, CloseFile
<1> QED BY <1>1, <1>2, <1>3, <1>4, <1>5, <1>6, <1>7, <1>8, <1>9 DEF Next

LEMMA InvariantHolds ==
  ASSUME CARELESS = FALSE
  PROVE  Spec => [](Inv /\ PInv)
<1>1. Init => Inv
  BY InitHolds
<1>2. Init => PInv
  BY MountAssumption DEF Init, PInv, Backs
<1>3. Inv /\ [Next]_vars => Inv'
  BY StepHolds
<1>4. Inv /\ PInv /\ [Next]_vars => PInv'
  BY PointersHold
<1> QED BY <1>1, <1>2, <1>3, <1>4, PTL DEF Spec

\* The lists hold what their structures declare, for lists of every length.
THEOREM MountTypeCorrect ==
  ASSUME CARELESS = FALSE
  PROVE  Spec => []TypeOK
<1>1. Inv /\ PInv => TypeOK
  BY DEF Inv, Sound, PInv, TypeOK
<1> QED BY <1>1, InvariantHolds, PTL

\* Nothing a mounted volume or an open file points to has been freed, whatever
\* mounts fail half way and in whatever order drivers, volumes and files come
\* and go, as long as clients take away only what nobody uses (fs.c,
\* drivers.c).  It does not speak of FatFs's pCurFs, which does dangle.
THEOREM NothingIsFreedInUse ==
  ASSUME CARELESS = FALSE
  PROVE  Spec => []NothingDangles
<1>1. ASSUME Inv, PInv PROVE NothingDangles
  <2>1. \A i \in 1 .. Len(fstab) :
          pfstab[fstab[i].pfs] = IF IsFat(fstab[i]) THEN fstab[i].at ELSE NULL
    BY <1>1 DEF PInv, Backs, IsFat
  <2> QED BY <1>1, <2>1 DEF Inv, Sound, Tidy, NothingDangles
<1> QED BY <1>1, InvariantHolds, PTL

\* The table implements MountMap: a device is mounted as one file system or
\* not at all, and a mount that fails leaves no trace in the table.
THEOREM TableIsMountMap ==
  ASSUME CARELESS = FALSE
  PROVE  Spec => IsMountMap
<1>1. Init => Inv /\ M!Init
  BY InitHolds
<1>2. Inv /\ [Next]_vars => Inv' /\ [M!Next]_(M!mmvars)
  BY StepHolds
<1> QED BY <1>1, <1>2, PTL DEF Spec, IsMountMap, M!Spec

=============================================================================
