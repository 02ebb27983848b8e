------------------------------- MODULE SdCard -------------------------------
(***************************************************************************)
(* The SD card driver: sd_init0 and the block transfers of sdcard.c, with  *)
(* the calls of sd_block_drv.c around them.                                *)
(*                                                                         *)
(* The card is external: it may leave any command unanswered or refuse any *)
(* block, and be pulled and replaced between calls.  The host's SPI        *)
(* controller is taken to pass each byte some time: _spi_rcv_byte waits    *)
(* for it without a limit (sd.S:138, FIXME LOOP).  The driver keeps type   *)
(* and size of the card it last initialised; the type decides whether it   *)
(* addresses blocks or bytes.  A block's contents are a pair of the        *)
(* version a call wrote and the block it was meant for.                    *)
(***************************************************************************)
EXTENDS Integers, Sequences

CONSTANTS
  IDLE_WAIT_MAX,   \* SD_IDLE_WAIT_MAX, polls for a card to become ready
  BLOCK,           \* bytes of a block (SD_BLOCKSIZE)
  Cards,           \* cards a user owns: type, v1 (answers CMD8 with illegal command), size
  NOCARD,          \* no card in the slot
  COUNT,           \* the most blocks clients ask for in one call (bound)
  SdVersions,      \* what clients write
  BYTE_RANGE,      \* values of a BYTE (256)
  CMD_TIMEOUT      \* SD_CMD_TIMEOUT (100000)

ASSUME SdAssumption ==
  /\ IDLE_WAIT_MAX \in Nat \ {0} /\ BLOCK \in Nat \ {0} /\ COUNT \in Nat \ {0}
  /\ Cards \subseteq [type : {0, 1}, v1 : BOOLEAN, size : Nat \ {0}]
  /\ NOCARD \notin Cards
  /\ SdVersions # {}
  /\ BYTE_RANGE \in Nat \ {0} /\ CMD_TIMEOUT \in Nat /\ BYTE_RANGE <= CMD_TIMEOUT

VARIABLES
  spc,       \* where the call is
  scall,     \* the call
  sret,      \* its result
  drv,       \* drive[disk].type and .size
  sstat,     \* Stat[disk].status
  j,         \* polls of a card that is not ready
  i,         \* blocks transferred
  sbuf,      \* the caller's buffer, by block
  card,      \* the card in the slot
  medium,    \* its blocks
  fresh      \* the driver's last initialisation was of this card, and succeeded

sdvars == <<spc, scall, sret, drv, sstat, j, i, sbuf, card, medium, fresh>>

Formatted(c, v) == [b \in 0 .. c.size - 1 |-> <<v, b>>]
\* Where clients read and write.
Blocks == UNION {0 .. c.size - 1 : c \in Cards}

SdInit ==
  /\ spc = "idle" /\ sret = "OK" /\ j = 0 /\ i = 0 /\ fresh = FALSE
  /\ drv = [type |-> 0, size |-> 0] /\ sstat = "NOINIT"
  /\ card = NOCARD /\ medium = <<>> /\ sbuf = <<>>
  /\ scall = [op |-> "open", block |-> 0, count |-> 1, version |-> CHOOSE v \in SdVersions : TRUE]

\* sd_open, sd_geometry, disk_initialize (by ioctl): sd_init is called.
SdInitialise(op) ==
  /\ spc = "idle" /\ spc' = "cmd0"
  /\ scall' = [scall EXCEPT !.op = op, !.block = 0, !.count = 1]
  /\ sbuf' = <<>> /\ i' = 0 /\ j' = 0
  /\ UNCHANGED <<sret, drv, sstat, card, medium, fresh>>

\* sd_read, sd_write: neither asks for the drive's status.
SdTransfer(op, b, n, v) ==
  /\ spc = "idle" /\ spc' = "block"
  /\ scall' = [op |-> op, block |-> b, count |-> n, version |-> v]
  /\ i' = 0 /\ j' = 0 /\ sbuf' = <<>>
  /\ UNCHANGED <<sret, drv, sstat, card, medium, fresh>>

\* The user pulls the card, or puts in another one.
Swap(c) ==
  /\ spc = "idle" /\ c # card
  /\ card' = c /\ fresh' = FALSE
  /\ medium' = IF c = NOCARD THEN <<>> ELSE Formatted(c, scall.version)
  /\ UNCHANGED <<spc, scall, sret, drv, sstat, j, i, sbuf>>

-----------------------------------------------------------------------------
(* sd_init0, one action per answer it waits for. *)

\* The initialisation fails: Stat keeps what it was, except that
\* disk_initialize stores a variable it never set.
InitFails(r) ==
  /\ spc' = "idle" /\ sret' = r
  /\ sstat' \in IF scall.op = "ioctl" THEN {"OK", "NOINIT"} ELSE {sstat}
  /\ UNCHANGED <<scall, drv, j, i, sbuf, card, medium>>

Goes(l) == spc' = l /\ UNCHANGED <<scall, sret, sstat, i, sbuf, card, medium>>

Cmd0Fails == spc = "cmd0" /\ InitFails("COM_ERROR") /\ UNCHANGED fresh

\* Type and name are cleared early; the size stays.
Cmd0 ==
  /\ spc = "cmd0" /\ card # NOCARD
  /\ drv' = [drv EXCEPT !.type = 0] /\ fresh' = FALSE
  /\ Goes("cmd8") /\ UNCHANGED j

Fails == InitFails("COM_ERROR") /\ UNCHANGED fresh
TimesOut == InitFails("TIMEOUT") /\ UNCHANGED fresh
Passes(l) == Goes(l) /\ UNCHANGED <<drv, j, fresh>>

\* CMD59, when CRC is compiled in, may fail; CMD8 may go unanswered.
Cmd8 == spc = "cmd8" /\ (Fails \/ Passes("csd") \/ Passes("ocr"))

Ocr ==
  /\ spc = "ocr"
  /\ \/ Passes("csd")
     \/ Goes("acmd41") /\ j' = 0 /\ UNCHANGED <<drv, fresh>>

\* CMD55 and ACMD41, at most IDLE_WAIT_MAX times; a card that is ready at
\* the last poll is too late all the same.
Poll(ready) ==
  /\ spc = "acmd41"
  /\ IF j + 1 < IDLE_WAIT_MAX
     THEN /\ Goes(IF ~ready THEN "acmd41" ELSE IF card.v1 THEN "blocklen" ELSE "ocr2")
          /\ j' = j + 1 /\ UNCHANGED <<drv, fresh>>
     ELSE TimesOut

\* CMD55 unanswered counts as the last poll.
Cmd55Fails == spc = "acmd41" /\ TimesOut

Blocklen == spc = "blocklen" /\ (Fails \/ Passes("csd"))
Ocr2 == spc = "ocr2" /\ (TimesOut \/ Passes("csd"))

Csd == spc = "csd" /\ (Fails \/ (Goes("token") /\ j' = 0 /\ UNCHANGED <<drv, fresh>>))

\* CMD9 and CMD10 ask for a register: csd, then cid.
Cid == spc = "cid" /\ (Fails \/ (Goes("cidtoken") /\ j' = 0 /\ UNCHANGED <<drv, fresh>>))

\* sd_rd_csd and sd_rd_cid wait for the token of the register; the polls are
\* counted in a BYTE, which never reaches the limit.
NoToken ==
  /\ spc \in {"token", "cidtoken"} /\ j' = (j + 1) % BYTE_RANGE /\ j' < CMD_TIMEOUT
  /\ Goes(spc) /\ UNCHANGED <<drv, fresh>>

\* The csd is there; with CRC compiled in it may turn out damaged.
Token == spc = "token" /\ (Fails \/ Passes("cid"))

\* Mutant: the type of the card before stays.
CidTypeless == [drv EXCEPT !.size = card.size]
\* What the registers say of the card.
CidStored == [type |-> card.type, size |-> card.size]

\* The cid is there, and sd_init0 is through.
CidToken ==
  \/ spc = "cidtoken" /\ Fails
  \/ /\ spc = "cidtoken" /\ spc' = "idle"
     /\ drv' = CidStored /\ fresh' = TRUE /\ sret' = "OK"
     /\ sstat' = IF scall.op = "geometry" THEN sstat ELSE "OK"
     /\ UNCHANGED <<scall, j, i, sbuf, card, medium>>

-----------------------------------------------------------------------------
(* sd_read_nblock, sd_write_nblock: one block per step. *)

\* Mutant: always by bytes.
AddressBytes(b) == b * BLOCK
Address(b) == IF drv.type # 0 THEN b ELSE b * BLOCK

\* The block the card takes an address for; a standard card wants the start
\* of a block.
Addressed(a) ==
  {b \in DOMAIN medium : IF card.type = 1 THEN b = a ELSE b * BLOCK = a}

\* A size of 0 wraps: nothing is out of range.
InRange(b) == drv.size = 0 \/ b <= drv.size - 1

SdEnds(r) ==
  /\ spc' = "idle" /\ sret' = r
  /\ UNCHANGED <<scall, drv, sstat, j, sbuf, card, fresh>>

\* Out of range, no answer, an error answer, no token, or a wrong checksum.
BlockFails == spc = "block" /\ SdEnds("COM_ERROR") /\ UNCHANGED <<i, medium>>

Stored(b) == [medium EXCEPT ![b] = <<scall.version, scall.block + i>>]

\* The block is written, and the card stays busy too long.
BlockLate ==
  /\ spc = "block" /\ scall.op = "write" /\ card # NOCARD /\ InRange(scall.block + i)
  /\ \E b \in Addressed(Address(scall.block + i)) : medium' = Stored(b)
  /\ SdEnds("COM_ERROR") /\ UNCHANGED i

Block ==
  /\ spc = "block" /\ card # NOCARD /\ InRange(scall.block + i)
  /\ \E b \in Addressed(Address(scall.block + i)) :
       IF scall.op = "read" THEN sbuf' = Append(sbuf, medium[b]) /\ medium' = medium
       ELSE medium' = Stored(b) /\ sbuf' = sbuf
  /\ i' = i + 1
  /\ IF i' = scall.count THEN spc' = "idle" /\ sret' = "OK" ELSE UNCHANGED <<spc, sret>>
  /\ UNCHANGED <<scall, drv, sstat, j, card, fresh>>

SdSteps ==
  \/ Cmd0Fails \/ Cmd0 \/ Cmd8 \/ Ocr \/ (\E ready \in BOOLEAN : Poll(ready))
  \/ Cmd55Fails \/ Blocklen \/ Ocr2 \/ Csd \/ NoToken \/ Token \/ Cid
  \/ CidToken
  \/ BlockFails \/ BlockLate \/ Block

SdClient ==
  \/ \E op \in {"open", "geometry", "ioctl"} : SdInitialise(op)
  \/ \E b \in Blocks, n \in 1 .. COUNT :
       \/ SdTransfer("read", b, n, scall.version)
       \/ \E v \in SdVersions : SdTransfer("write", b, n, v)
  \/ \E c \in Cards \cup {NOCARD} : Swap(c)

SdNext == SdClient \/ SdSteps

-----------------------------------------------------------------------------
(* Properties *)

SdTypeOK ==
  /\ spc \in {"idle", "cmd0", "cmd8", "ocr", "acmd41", "blocklen", "ocr2", "csd", "token",
             "cid", "cidtoken", "block"}
  /\ sret \in {"OK", "COM_ERROR", "TIMEOUT"} /\ sstat \in {"OK", "NOINIT"}
  /\ drv \in [type : {0, 1}, size : {0} \cup {c.size : c \in Cards}]
  /\ j \in Nat /\ i \in 0 .. scall.count
  /\ spc = "block" => i < scall.count
  /\ card \in Cards \cup {NOCARD} /\ fresh \in BOOLEAN

\* While the card in the slot is the one the driver initialised last, with
\* success, and however many transfers failed since: what a successful read
\* delivers are the blocks asked for, and what a successful write was given
\* is in them (sdcard.c, sd_read_nblock and sd_write_nblock).
SdExact ==
  fresh /\ spc = "idle" /\ sret = "OK" =>
    LET b(k) == scall.block + k - 1 IN
    /\ scall.op = "read" =>
         Len(sbuf) = scall.count /\ \A k \in 1 .. scall.count : sbuf[k] = medium[b(k)]
    /\ scall.op = "write" =>
         \A k \in 1 .. scall.count : medium[b(k)] = <<scall.version, b(k)>>

\* On such a card a write, failed or not, changes only blocks it was asked to
\* write, and only to the data meant for them.
SdNoStrayBlocks ==
  [][fresh /\ fresh' => \A b \in DOMAIN medium :
       medium'[b] # medium[b] =>
         /\ scall.op = "write" /\ b \in scall.block .. scall.block + scall.count - 1
         /\ medium'[b] = <<scall.version, b>>]_sdvars

=============================================================================
