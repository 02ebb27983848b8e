---------------------------- MODULE DrivesProofs ----------------------------
(* What a volume may rely on, whichever drive it is mounted on: the hard    *)
(* disk's promises (IdeProofs) hold of Drives, and the SD card driver moves *)
(* exactly the blocks it was asked for on cards of every size.              *)
(*                                                                          *)
(* SdExact is not inductive.  It rests on what is true in the middle of a   *)
(* transfer (Moving), and on what the driver knows of the card (Known): a   *)
(* card addressed the way it wants takes an address for one block only.     *)
EXTENDS Drives, IdeProofs

SdContent == SdVersions \X Nat
Transfers == {"read", "write"}
Initialisations == {"open", "geometry", "ioctl"}

SdTyped ==
  /\ SdTypeOK
  /\ scall \in [op : Transfers \cup Initialisations, block : Nat, count : 1 .. COUNT,
                version : SdVersions]
  /\ sbuf \in Seq(SdContent)
  /\ card # NOCARD => (medium \in [0 .. card.size - 1 -> SdContent])
  /\ spc \notin {"idle", "cmd0", "block"} => card # NOCARD

\* What the driver believes of a card it has initialised last.
Known == fresh => card # NOCARD /\ drv = [type |-> card.type, size |-> card.size]

\* The first n blocks of the call are where they belong.
Placed(n) ==
  LET b(k) == scall.block + k - 1 IN
  /\ scall.op = "read" =>
       Len(sbuf) = n /\ \A k \in 1 .. n : sbuf[k] = medium[b(k)]
  /\ scall.op = "write" => \A k \in 1 .. n : medium[b(k)] = <<scall.version, b(k)>>

Moving ==
  /\ spc = "block" => scall.op \in Transfers
  /\ spc \notin {"idle", "block"} => scall.op \in Initialisations
  /\ fresh /\ spc = "block" => Placed(i)

SdInv == SdTyped /\ Known /\ Moving /\ SdExact

-----------------------------------------------------------------------------
(* Addresses *)

\* Two blocks of a standard card do not start at the same byte.
LEMMA BytesApart ==
  ASSUME NEW a \in Nat, NEW b \in Nat, a * BLOCK = b * BLOCK
  PROVE  a = b
<1>1. BLOCK \in Nat /\ BLOCK >= 1
  BY SdAssumption
<1>2. \A x, y \in Nat : x < y => x * BLOCK < y * BLOCK
  BY <1>1
<1>3. ~(a < b) /\ ~(b < a)
  <2>1. a < b => a * BLOCK < b * BLOCK
    BY <1>2, Zenon
  <2>2. b < a => b * BLOCK < a * BLOCK
    BY <1>2, Zenon
  <2>3. a * BLOCK \in Nat /\ b * BLOCK \in Nat
    BY <1>1
  <2> QED BY <2>1, <2>2, <2>3
<1> QED BY <1>3

\* A card the driver knows takes the address of a block for that block.
LEMMA KnownAddress ==
  ASSUME SdTyped, Known, fresh, NEW b \in Nat, NEW a \in Addressed(Address(b))
  PROVE  a = b
<1>1. card \in Cards /\ drv.type = card.type /\ card.type \in {0, 1}
      /\ DOMAIN medium = 0 .. card.size - 1
  BY SdAssumption DEF Known, SdTyped, SdTypeOK
<1>2. a \in DOMAIN medium /\ (IF card.type = 1 THEN a = Address(b) ELSE a * BLOCK = Address(b))
  BY DEF Addressed
<1>3. a \in Nat
  BY <1>1, <1>2, SdAssumption
<1>4. CASE card.type = 1
  BY <1>1, <1>2, <1>4 DEF Address
<1>5. CASE card.type = 0
  BY <1>1, <1>2, <1>3, <1>5, BytesApart DEF Address
<1> QED BY <1>1, <1>4, <1>5

-----------------------------------------------------------------------------
(* The steps of the SD card driver *)

LEMMA SdInvInit == SdInit => SdInv
<1> SUFFICES ASSUME SdInit PROVE SdInv
  OBVIOUS
<1> DEFINE v == CHOOSE v \in SdVersions : TRUE
<1>1. v \in SdVersions
  BY SdAssumption
<1> HIDE DEF v
<1>2. scall = [op |-> "open", block |-> 0, count |-> 1, version |-> v]
  BY DEF SdInit, v
<1>3. 1 \in 1 .. COUNT
  BY SdAssumption
<1>4. sbuf \in Seq(SdContent)
  BY EmptySeq DEF SdInit
<1>5. scall \in [op : Transfers \cup Initialisations, block : Nat, count : 1 .. COUNT,
               version : SdVersions]
  BY <1>1, <1>2, <1>3 DEF Initialisations
<1>6. /\ spc = "idle" /\ fresh = FALSE /\ card = NOCARD /\ j = 0 /\ i = 0
      /\ sret = "OK" /\ sstat = "NOINIT" /\ drv = [type |-> 0, size |-> 0]
  BY DEF SdInit
<1>7. SdTypeOK
  <2>1. scall.count = 1
    BY <1>2
  <2>2. i \in 0 .. scall.count /\ j \in Nat
    BY <1>6, <2>1
  <2>3. drv \in [type : {0, 1}, size : {0} \cup {c.size : c \in Cards}]
    BY <1>6
  <2> QED BY <1>6, <2>2, <2>3, Zenon DEF SdTypeOK
<1>8. SdTyped
  BY <1>4, <1>5, <1>6, <1>7 DEF SdTyped
<1> QED BY <1>6, <1>8 DEF SdInv, Known, Moving, SdExact

LEMMA BlocksAreNumbers == Blocks \subseteq Nat
BY SdAssumption DEF Blocks

LEMMA CallFields ==
  ASSUME SdTyped
  PROVE  /\ scall.op \in Transfers \cup Initialisations /\ scall.block \in Nat
         /\ scall.count \in 1 .. COUNT /\ scall.count \in Nat /\ scall.version \in SdVersions
         /\ i \in Nat
<1>1. scall.op \in Transfers \cup Initialisations /\ scall.block \in Nat
      /\ scall.count \in 1 .. COUNT /\ scall.version \in SdVersions
  BY DEF SdTyped
<1> QED BY <1>1, SdAssumption DEF SdTyped, SdTypeOK

\* Calls, and the user at the slot.
LEMMA SdClientKeeps == SdInv /\ SdClient => SdInv'
<1> SUFFICES ASSUME SdInv, SdClient PROVE SdInv'
  OBVIOUS
<1>0. SdTyped
  BY DEF SdInv
<1>1. ASSUME NEW op \in Initialisations, SdInitialise(op)
      PROVE  SdInv'
  <2>1. scall' \in [op : Transfers \cup Initialisations, block : Nat, count : 1 .. COUNT,
                    version : SdVersions]
        /\ scall'.op = op /\ scall'.count = 1
    <3>1. scall' = [scall EXCEPT !.op = op, !.block = 0, !.count = 1] /\ 1 \in 1 .. COUNT
      BY <1>1, SdAssumption DEF SdInitialise
    <3> QED BY <1>0, <3>1 DEF SdTyped
  <2>2. sbuf' \in Seq(SdContent)
    BY <1>1, EmptySeq DEF SdInitialise
  <2> QED BY <1>1, <2>1, <2>2 DEF SdInitialise, SdInv, SdTyped, SdTypeOK, Known, Moving, SdExact,
          Transfers, Initialisations
<1>2. ASSUME NEW op \in Transfers, NEW b \in Blocks, NEW n \in 1 .. COUNT, NEW v \in SdVersions,
             SdTransfer(op, b, n, v)
      PROVE  SdInv'
  <2>1. scall' \in [op : Transfers \cup Initialisations, block : Nat, count : 1 .. COUNT,
                    version : SdVersions]
        /\ scall'.op = op /\ scall'.count = n /\ n \in Nat /\ n >= 1
    BY <1>2, BlocksAreNumbers, SdAssumption DEF SdTransfer
  <2>2. sbuf' \in Seq(SdContent) /\ Len(sbuf') = 0 /\ i' = 0
    BY <1>2, EmptySeq DEF SdTransfer
  <2>3. Placed(i)'
    BY <2>2 DEF Placed
  <2> QED BY <1>2, <2>1, <2>2, <2>3 DEF SdTransfer, SdInv, SdTyped, SdTypeOK, Known, Moving, SdExact,
          Transfers, Initialisations
<1>3. ASSUME NEW c \in Cards \cup {NOCARD}, Swap(c)
      PROVE  SdInv'
  <2>1. c # NOCARD => (medium' \in [0 .. c.size - 1 -> SdContent])
    <3>1. c # NOCARD => (\A b \in 0 .. c.size - 1 : <<scall.version, b>> \in SdContent)
      BY <1>0, CallFields, SdAssumption DEF SdContent
    <3> QED BY <1>3, <3>1 DEF Swap, Formatted
  <2> QED BY <1>3, <2>1 DEF Swap, SdInv, SdTyped, SdTypeOK, Known, Moving, SdExact
<1>4. \A b \in Blocks, n \in 1 .. COUNT : scall.version \in SdVersions
  BY <1>0, CallFields
<1> QED BY <1>1, <1>2, <1>3, <1>4 DEF SdClient, Transfers, Initialisations

\* An initialisation transfers nothing, and forgets the card it clears.
Initialising ==
  /\ spc \notin {"idle", "block"} /\ spc' # "block"
  /\ spc' \in {"idle", "cmd0", "cmd8", "ocr", "acmd41", "blocklen", "ocr2", "csd", "token",
             "cid", "cidtoken"}
  /\ sret' \in {"OK", "COM_ERROR", "TIMEOUT"} /\ sstat' \in {"OK", "NOINIT"}
  /\ j' \in Nat
  /\ UNCHANGED <<scall, i, sbuf, card, medium>>
  /\ spc' \notin {"idle", "cmd0"} => card # NOCARD
  /\ \/ UNCHANGED <<drv, fresh>>
     \/ drv' = [drv EXCEPT !.type = 0] /\ fresh' = FALSE
     \/ drv' = CidStored /\ fresh' = TRUE /\ card # NOCARD

LEMMA InitialisingKeeps ==
  ASSUME SdInv, Initialising
  PROVE  SdInv'
<1>0. SdTyped /\ scall.op \in Initialisations
  BY DEF SdInv, Moving, Initialising
<1>1. drv' \in [type : {0, 1}, size : {0} \cup {c.size : c \in Cards}] /\ fresh' \in BOOLEAN
  <2>1. CASE UNCHANGED <<drv, fresh>>
    BY <1>0, <2>1 DEF SdTyped, SdTypeOK
  <2>2. CASE drv' = [drv EXCEPT !.type = 0] /\ fresh' = FALSE
    BY <1>0, <2>2 DEF SdTyped, SdTypeOK
  <2>3. CASE drv' = CidStored /\ fresh' = TRUE /\ card # NOCARD
    <3>1. card \in Cards /\ card.type \in {0, 1}
      BY <1>0, <2>3, SdAssumption DEF SdTyped, SdTypeOK
    <3> QED BY <2>3, <3>1 DEF CidStored
  <2> QED BY <2>1, <2>2, <2>3 DEF Initialising
<1>2. Known'
  BY DEF Known, CidStored, Initialising, SdInv
<1>3. SdTyped'
  BY <1>0, <1>1 DEF SdTyped, SdTypeOK, Initialising
<1>4. Moving' /\ SdExact'
  BY <1>0 DEF Moving, SdExact, Initialising, Initialisations, Transfers
<1> QED BY <1>2, <1>3, <1>4 DEF SdInv

LEMMA SdInitialises ==
  ASSUME SdTyped,
         \/ Cmd0Fails \/ Cmd0 \/ Cmd8 \/ Ocr \/ (\E ready \in BOOLEAN : Poll(ready))
         \/ Cmd55Fails \/ Blocklen \/ Ocr2 \/ Csd \/ NoToken \/ Token \/ Cid \/ CidToken
  PROVE  Initialising
<1> USE DEF SdTyped, SdTypeOK, Initialising, InitFails, Goes, Fails, TimesOut, Passes
<1>1. CASE Cmd0Fails \/ Cmd0
  BY <1>1 DEF Cmd0Fails, Cmd0
<1>2. CASE Cmd8 \/ Ocr
  BY <1>2 DEF Cmd8, Ocr
<1>3. CASE (\E ready \in BOOLEAN : Poll(ready)) \/ Cmd55Fails
  BY <1>3 DEF Poll, Cmd55Fails
<1>4. CASE Blocklen \/ Ocr2 \/ Csd
  BY <1>4 DEF Blocklen, Ocr2, Csd
<1>5. CASE NoToken \/ Token
  <2>1. (j + 1) % BYTE_RANGE \in Nat
    BY SdAssumption
  <2> QED BY <1>5, <2>1 DEF NoToken, Token
<1>6. CASE Cid \/ CidToken
  BY <1>6 DEF Cid, CidToken
<1> QED BY <1>1, <1>2, <1>3, <1>4, <1>5, <1>6

\* A write that reaches the medium: one block, of the call, gets what is
\* meant for it.
LEMMA StoredBlock ==
  ASSUME SdTyped, spc = "block", card # NOCARD, NEW b \in DOMAIN medium
  PROVE  /\ Stored(b) \in [0 .. card.size - 1 -> SdContent]
         /\ \A a \in DOMAIN medium :
              Stored(b)[a] = IF a = b THEN <<scall.version, scall.block + i>> ELSE medium[a]
<1>1. <<scall.version, scall.block + i>> \in SdContent
  BY CallFields DEF SdContent
<1>2. medium \in [0 .. card.size - 1 -> SdContent]
  BY DEF SdTyped
<1> QED BY <1>1, <1>2 DEF Stored

LEMMA BlockEnds == SdInv /\ (BlockFails \/ BlockLate) => SdInv'
<1> SUFFICES ASSUME SdInv, BlockFails \/ BlockLate PROVE SdInv'
  OBVIOUS
<1>1. spc = "block" /\ SdEnds("COM_ERROR") /\ i' = i /\ SdTyped
  BY DEF BlockFails, BlockLate, SdInv
<1>2. card # NOCARD => (medium' \in [0 .. card.size - 1 -> SdContent])
  <2>1. CASE BlockFails
    BY <1>1, <2>1 DEF BlockFails, SdTyped
  <2>2. CASE BlockLate
    <3>1. PICK b \in Addressed(Address(scall.block + i)) : medium' = Stored(b)
      BY <2>2 DEF BlockLate
    <3>2. b \in DOMAIN medium /\ card # NOCARD
      BY <2>2 DEF Addressed, BlockLate
    <3> QED BY <1>1, <3>1, <3>2, StoredBlock
  <2> QED BY <2>1, <2>2
<1> QED BY <1>1, <1>2 DEF SdEnds, SdInv, SdTyped, SdTypeOK, Known, Moving, SdExact

LEMMA BlockMoves == SdInv /\ Block => SdInv'
<1> SUFFICES ASSUME SdInv, Block PROVE SdInv'
  OBVIOUS
<1>1. /\ SdTyped /\ spc = "block" /\ card # NOCARD /\ i' = i + 1
      /\ UNCHANGED <<scall, drv, sstat, j, card, fresh>>
      /\ scall.op \in Transfers
  BY DEF Block, SdInv, Moving
<1>2. PICK b \in Addressed(Address(scall.block + i)) :
        IF scall.op = "read" THEN sbuf' = Append(sbuf, medium[b]) /\ medium' = medium
        ELSE medium' = Stored(b) /\ sbuf' = sbuf
  BY DEF Block
<1>3. /\ b \in DOMAIN medium /\ medium \in [0 .. card.size - 1 -> SdContent]
      /\ medium[b] \in SdContent /\ sbuf \in Seq(SdContent)
  BY <1>1 DEF Addressed, SdTyped
<1>4. /\ scall.block \in Nat /\ scall.count \in Nat /\ i \in Nat /\ i < scall.count
      /\ i' \in 0 .. scall.count /\ scall.block + i \in Nat
  BY <1>1, CallFields DEF SdTyped, SdTypeOK
<1>5. fresh => b = scall.block + i
  BY <1>1, <1>4, KnownAddress DEF SdInv
<1>6. medium' \in [0 .. card.size - 1 -> SdContent]
  BY <1>1, <1>2, <1>3, StoredBlock
<1>7. sbuf' \in Seq(SdContent)
  <2>1. Append(sbuf, medium[b]) \in Seq(SdContent)
    BY <1>3, AppendProperties
  <2> QED BY <1>2, <1>3, <2>1
<1>8. /\ spc' \in {"idle", "block"} /\ (spc' = "block" => i' # scall.count)
      /\ sret' \in {"OK", sret} /\ (spc' = "idle" => i' = scall.count)
  BY <1>1 DEF Block
<1>9. SdTyped'
  BY <1>1, <1>4, <1>6, <1>7, <1>8, SMTT(30) DEF SdTyped, SdTypeOK
<1>10. ASSUME fresh PROVE Placed(i)'
  <2>1. Placed(i) /\ b = scall.block + i
    BY <1>1, <1>5, <1>10 DEF SdInv, Moving
  <2>2. CASE scall.op = "read"
    <3>1. /\ Len(sbuf) = i /\ \A k \in 1 .. i : sbuf[k] = medium[scall.block + k - 1]
          /\ sbuf' = Append(sbuf, medium[b]) /\ medium' = medium
      BY <1>2, <2>1, <2>2 DEF Placed
    <3>2. /\ Len(sbuf') = i + 1 /\ sbuf'[i + 1] = medium[b]
          /\ \A k \in 1 .. i : sbuf'[k] = sbuf[k]
      BY <1>3, <1>4, <3>1, AppendProperties
    <3>3. \A k \in 1 .. i + 1 : sbuf'[k] = medium[scall.block + k - 1]
      BY <1>4, <2>1, <3>1, <3>2
    <3> QED BY <1>1, <2>2, <3>1, <3>2, <3>3 DEF Placed
  <2>3. CASE scall.op = "write"
    <3>1. /\ \A k \in 1 .. i : medium[scall.block + k - 1] = <<scall.version, scall.block + k - 1>>
          /\ medium' = Stored(b)
      BY <1>2, <2>1, <2>3 DEF Placed
    <3>2. medium' = [medium EXCEPT ![b] = <<scall.version, b>>]
      BY <2>1, <3>1 DEF Stored
    <3>3. ASSUME NEW k \in 1 .. i + 1
          PROVE  medium'[scall.block + k - 1] = <<scall.version, scall.block + k - 1>>
      <4>1. CASE k = i + 1
        <5>1. scall.block + k - 1 = b
          BY <1>4, <2>1, <4>1
        <5> QED BY <1>3, <3>2, <5>1
      <4>2. CASE k # i + 1
        <5>1. k \in 1 .. i /\ scall.block + k - 1 # b
          BY <1>4, <2>1, <4>2
        <5>2. medium[scall.block + k - 1] = <<scall.version, scall.block + k - 1>>
          BY <3>1, <5>1
        <5>3. medium'[scall.block + k - 1] = medium[scall.block + k - 1]
          BY <1>3, <3>2, <5>1
        <5> QED BY <5>2, <5>3
      <4> QED BY <4>1, <4>2
    <3> QED BY <1>1, <2>3, <3>3 DEF Placed
  <2> QED BY <1>1, <2>2, <2>3 DEF Transfers
<1>11. Moving' /\ SdExact'
  BY <1>1, <1>8, <1>10 DEF Moving, SdExact, Placed, Transfers
<1>12. Known'
  BY <1>1 DEF Known, SdInv
<1> QED BY <1>9, <1>11, <1>12 DEF SdInv

LEMMA SdStep == SdInv /\ [SdNext]_sdvars => SdInv'
<1> SUFFICES ASSUME SdInv, [SdNext]_sdvars PROVE SdInv'
  OBVIOUS
<1>1. CASE SdClient
  BY <1>1, SdClientKeeps
<1>2. CASE \/ Cmd0Fails \/ Cmd0 \/ Cmd8 \/ Ocr \/ (\E ready \in BOOLEAN : Poll(ready))
           \/ Cmd55Fails \/ Blocklen \/ Ocr2 \/ Csd \/ NoToken \/ Token \/ Cid \/ CidToken
  BY <1>2, SdInitialises, InitialisingKeeps DEF SdInv
<1>3. CASE BlockFails \/ BlockLate \/ Block
  BY <1>3, BlockEnds, BlockMoves
<1>4. CASE UNCHANGED sdvars
  BY <1>4 DEF sdvars, SdInv, SdTyped, SdTypeOK, Known, Moving, Placed, SdExact
<1> QED BY <1>1, <1>2, <1>3, <1>4 DEF SdNext, SdSteps

-----------------------------------------------------------------------------
(* Both drives.  A step of one leaves the other alone, so each drive does   *)
(* what it does by itself.                                                  *)

LEMMA DrivesDoTheirOwn == Spec => IdeSpec /\ SdInit /\ [][SdNext]_sdvars
<1>1. Init => IdeInit /\ SdInit
  BY DEF Init
<1>2. [Next]_vars => [IdeNext]_idevars /\ [SdNext]_sdvars
  BY DEF Next, hd, sd, vars
<1> QED BY <1>1, <1>2, PTL DEF Spec, IdeSpec

LEMMA SdInvHolds == Spec => []SdInv
<1>1. SdInit => SdInv
  BY SdInvInit
<1>2. SdInv /\ [SdNext]_sdvars => SdInv'
  BY SdStep
<1> QED BY <1>1, <1>2, DrivesDoTheirOwn, PTL

\* Every variable of both drivers keeps its type: the registers of the task
\* file, the tries, the polls and the blocks of a call stay in range.
THEOREM DrivesTypeCorrect == Spec => []TypeOK
<1>1. SdInv => SdTypeOK
  BY DEF SdInv, SdTyped
<1>2. Init => pblkdrv \in {"hd", "sd"}
  BY DEF Init
<1>3. pblkdrv \in {"hd", "sd"} /\ [Next]_vars => (pblkdrv \in {"hd", "sd"})'
  BY DEF Next, hd, sd, vars
<1>4. IdeTypeOK /\ SdTypeOK /\ pblkdrv \in {"hd", "sd"} => TypeOK
  BY DEF TypeOK
<1> QED BY <1>1, <1>2, <1>3, <1>4, SdInvHolds, DrivesDoTheirOwn, IdeTypeCorrect, PTL DEF Spec

\* While the card in the slot is the one initialised last, a successful read
\* delivers the blocks asked for and a successful write has stored what it was
\* given, on cards of every type and size.
THEOREM SdTransfersAreExact == Spec => []SdExact
<1>1. SdInv => SdExact
  BY DEF SdInv
<1> QED BY <1>1, SdInvHolds, PTL

\* On such a card no write, failed or late, touches a block it was not asked
\* to write.
THEOREM NoBlockStrays == Spec => SdNoStrayBlocks
<1>1. SdInv /\ [SdNext]_sdvars
        => [fresh /\ fresh' => \A b \in DOMAIN medium :
              medium'[b] # medium[b] =>
                /\ scall.op = "write" /\ b \in scall.block .. scall.block + scall.count - 1
                /\ medium'[b] = <<scall.version, b>>]_sdvars
  <2> SUFFICES ASSUME SdInv, SdNext, fresh, fresh', NEW b \in DOMAIN medium, medium'[b] # medium[b]
               PROVE  /\ scall.op = "write" /\ b \in scall.block .. scall.block + scall.count - 1
                      /\ medium'[b] = <<scall.version, b>>
    OBVIOUS
  <2>1. SdTyped /\ Known
    BY DEF SdInv
  <2>2. BlockLate \/ Block
    BY DEF SdNext, SdClient, SdSteps, SdInitialise, SdTransfer, Swap, Cmd0Fails, Cmd0, Cmd8, Ocr,
           Poll, Cmd55Fails, Blocklen, Ocr2, Csd, NoToken, Token, Cid, CidToken, BlockFails,
           InitFails, Goes, Fails, TimesOut, Passes
  <2>3. spc = "block" /\ card # NOCARD
    BY <2>2 DEF BlockLate, Block
  <2>4. scall.op = "write" /\ \E a \in Addressed(Address(scall.block + i)) : medium' = Stored(a)
    BY <2>2, <2>3 DEF BlockLate, Block, SdInv, Moving, Transfers
  <2>5. PICK a \in Addressed(Address(scall.block + i)) : medium' = Stored(a)
    BY <2>4
  <2>6. a \in DOMAIN medium
    BY DEF Addressed
  <2>7. b = a /\ medium'[b] = <<scall.version, scall.block + i>>
    BY <2>1, <2>3, <2>5, <2>6, StoredBlock
  <2>8. scall.block \in Nat /\ scall.count \in Nat /\ i \in Nat /\ i < scall.count
    BY <2>1, <2>3, CallFields DEF SdTyped, SdTypeOK
  <2>9. a = scall.block + i
    BY <2>1, <2>8, KnownAddress
  <2> QED BY <2>4, <2>7, <2>8, <2>9
<1> QED BY <1>1, SdInvHolds, DrivesDoTheirOwn, PTL DEF SdNoStrayBlocks

\* The hard disk keeps its promises under a volume too.
THEOREM HardDiskKeepsPromises ==
  Spec => /\ []InterruptsRestored /\ []ReadsExact /\ []WritesDurable
          /\ NoStraySectors
BY DrivesDoTheirOwn, CallersKeepInterrupts, ReadsAreExact, WritesAreDurable, NoSectorStrays, PTL
=============================================================================
