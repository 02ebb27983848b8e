------------------------------ MODULE IdeDisk ------------------------------
(***************************************************************************)
(* The hard disk driver: _ide of drivers/block/gideS.S, with the calls of  *)
(* hd_block_drv.c around it.  A call transfers sectors in PIO mode, one    *)
(* wait for the drive at a time, and starts over when a wait runs out (the *)
(* task file stays) or the drive reports an error (the drive is reset and  *)
(* the task file loaded again).                                            *)
(*                                                                         *)
(* The drive is external: it may stay busy or ask for no data at any wait, *)
(* and may fail any sector.  A sector's contents are a pair of the version *)
(* a call wrote and the sector it was meant for.                           *)
(***************************************************************************)
EXTENDS Integers, Sequences

CONSTANTS
  TRIES,       \* attempts of a transfer (10)
  SECTORS,     \* sectors of the disk
  MAX_COUNT,   \* the most sectors clients ask for in one call, a BYTE (bound)
  Versions,    \* what clients write
  BAD          \* what a sector that could not be read leaves in the buffer

ASSUME IdeAssumption ==
  /\ TRIES \in Nat \ {0} /\ SECTORS \in Nat \ {0} /\ MAX_COUNT \in 1 .. 255
  /\ Versions # {}
  /\ BAD \notin Versions \X (0 .. SECTORS - 1)

VARIABLES
  pc,          \* where _ide is
  cmd,         \* its arguments, and the caller's interrupt mask
  d0, d5,      \* result register, tries left
  sent,        \* sectors transferred in this attempt
  buf,         \* the caller's buffer, by sector
  masked,      \* interrupts are off
  stack,       \* status registers saved
  regs,        \* the drive's task file
  dev,         \* the drive's command: next sector, sectors left, error
  cache,       \* what the drive delivers for each sector
  platter,     \* what it has after power was off
  keeps,       \* whether this drive's task file survives a command
  clean        \* the last transfer ended with a clean status

driver == <<pc, cmd, d0, d5, sent, buf, masked, stack, clean>>
drive == <<regs, dev, cache, platter, keeps>>
idevars == <<driver, drive>>

Sectors == 0 .. SECTORS - 1
Content == Versions \X Sectors
Op == {"READ", "WRITE"}

Span(c) == c.lba .. c.lba + c.count - 1

-----------------------------------------------------------------------------
IdeInit ==
  /\ pc = "idle" /\ d0 = 0 /\ d5 = 0 /\ sent = 0 /\ clean = FALSE
  /\ masked = FALSE
  /\ LET v == CHOOSE v \in Versions : TRUE IN
       /\ cmd = [op |-> "READ", lba |-> 0, count |-> 1, version |-> v, sr |-> masked]
       /\ cache = [s \in Sectors |-> <<v, s>>]
  /\ platter = cache
  /\ buf = [i \in 0 .. MAX_COUNT - 1 |-> BAD]
  /\ stack = <<>>
  /\ regs = [lba |-> 0, count |-> 1]
  /\ dev = [lba |-> 0, left |-> 0, err |-> FALSE]
  /\ keeps \in BOOLEAN

\* hd_read and hd_write: _ide is entered, with interrupts on or off (m).
\* What v is matters to a write only.
Enter(op, l, n, v, m) ==
  /\ pc = "idle" /\ l + n <= SECTORS
  /\ pc' = "load"
  /\ cmd' = [op |-> op, lba |-> l, count |-> n, version |-> v, sr |-> m]
  /\ masked' = m /\ d0' = 0 /\ d5' = TRIES - 1 /\ sent' = 0 /\ clean' = FALSE
  /\ buf' = [i \in 0 .. MAX_COUNT - 1 |-> BAD]
  /\ UNCHANGED <<stack, drive>>

\* _iderd_01, _idewr_01
Load ==
  /\ pc = "load" /\ pc' = "start"
  /\ regs' = [lba |-> cmd.lba, count |-> cmd.count]
  /\ UNCHANGED <<cmd, d0, d5, sent, buf, masked, stack, dev, cache, platter, keeps, clean>>

\* Mutant: a write returns without flushing.
DoneUnflushed == "idle"
\* Where a transfer that is over continues: a write flushes the drive's cache.
Done == IF cmd.op = "READ" THEN "idle" ELSE "flush"

\* Mutant: the tries are counted one too far.
AgainOnceMore(l) == IF d5 < 0 THEN pc' = Done /\ d5' = 0 ELSE pc' = l /\ d5' = d5 - 1

\* dbra d5: another try at label l, or the end with d0 as it is.
Again(l) ==
  IF d5 = 0 THEN pc' = Done /\ d5' = 0 ELSE pc' = l /\ d5' = d5 - 1

\* Mutant: interrupts stay off.
KeepMask == masked' = masked /\ stack' = stack
\* move (%a7)+, %sr
Restore == masked' = Head(stack) /\ stack' = Tail(stack)

\* A wait ran out with code e; task file and buffer contents stay.
Retry(e) ==
  /\ d0' = e /\ Again("start")
  /\ UNCHANGED <<cmd, sent, buf, regs, dev, cache, platter, keeps, clean>>

\* The drive starts on what the task file says; a count of 0 means 256.
Started ==
  [lba |-> regs.lba, left |-> IF regs.count = 0 THEN 256 ELSE regs.count, err |-> FALSE]

\* Mutant: buffer address and sector count are not set again.
ResumeAt == IF sent < cmd.count THEN sent ELSE 0
StartAt == 0

\* The command is sent with interrupts off.
Command ==
  /\ masked' = TRUE /\ stack' = <<masked>> \o stack
  /\ dev' = Started
  /\ sent' = StartAt /\ d0' = 0 /\ pc' = "sector"
  /\ UNCHANGED <<cmd, d5, buf, regs, cache, platter, keeps, clean>>

\* _iderd_01a, _idewr_01a: waitRDY's answer is lost to waitNBSY's.
StartBusy == pc = "start" /\ Retry(-3) /\ UNCHANGED <<masked, stack>>
Start == pc = "start" /\ Command

\* _iderd_02: the drive stays busy, or asks for no data.
SectorBusy == pc = "sector" /\ Retry(-3) /\ Restore
SectorNoData == pc = "sector" /\ Retry(-2) /\ Restore

\* One sector passes; i is its place in the buffer.
Transfer(i, ok) ==
  IF cmd.op = "READ"
  THEN /\ buf' = [buf EXCEPT ![i] = IF ok THEN cache[dev.lba] ELSE BAD]
       /\ cache' = cache
  ELSE /\ cache' = IF ~ok THEN cache ELSE [cache EXCEPT ![dev.lba] = <<cmd.version, cmd.lba + i>>]
       /\ buf' = buf

\* _iderd_03: the drive asks for data; a sector it fails, or does not have,
\* ends its command.
Sector(ok) ==
  /\ pc = "sector" /\ dev.left > 0 /\ (ok => dev.lba < SECTORS)
  /\ Transfer(sent, ok)
  /\ sent' = sent + 1
  /\ dev' = IF ok THEN [lba |-> dev.lba + 1, left |-> dev.left - 1, err |-> dev.err]
                  ELSE [lba |-> dev.lba, left |-> 0, err |-> TRUE]
  /\ regs' = IF keeps THEN regs ELSE [lba |-> dev.lba, count |-> dev'.left]
  /\ d0' = 0
  /\ IF sent' = cmd.count THEN pc' = "status" /\ Restore
     ELSE pc' = pc /\ UNCHANGED <<masked, stack>>
  /\ UNCHANGED <<cmd, d5, platter, keeps, clean>>

StatusBusy == pc = "status" /\ Retry(-3) /\ UNCHANGED <<masked, stack>>

\* _iderd_success, _idewr_success
StatusClean ==
  /\ pc = "status" /\ ~dev.err
  /\ clean' = TRUE /\ d0' = 0 /\ pc' = Done
  /\ UNCHANGED <<cmd, d5, sent, buf, masked, stack, drive>>

\* Mutants: the transfer starts over without the task file; the tries start
\* over too.
RecoverUnloaded == Again("start")
RecoverForever == pc' = "load" /\ d5' = TRIES - 1
RecoverThen == Again("load")

\* _iderd_tryrecover: ERR or DF is set.  resetIDE leaves the drive's
\* signature in the task file and waitRDY's answer in d0.
Recover ==
  /\ pc = "status"
  /\ RecoverThen
  /\ d0' \in {0, -1}
  /\ regs' = [lba |-> 1, count |-> 1]
  /\ dev' = [lba |-> dev.lba, left |-> 0, err |-> FALSE]
  /\ UNCHANGED <<cmd, sent, buf, masked, stack, cache, platter, keeps, clean>>

\* The drive's answers to a flush: it ends having carried it out, it ends with
\* ERR or DF set, or it stays busy.  Part of the cache may be written by then.
Flushes == {"done", "failed", "busy"}

FlushedBy(answer) ==
  IF answer = "done" THEN platter' = cache
  ELSE \E part \in SUBSET Sectors :
         platter' = [s \in Sectors |-> IF s \in part THEN cache[s] ELSE platter[s]]

\* ideCacheFlush, after every write, waits until BSY clears, and that wait
\* decides what _ide returns: ERR and DF, which say how the flush ended, are
\* not read, and d0 = 0 hides any error of the transfer before.
Flush(answer) ==
  /\ pc = "flush" /\ pc' = "idle"
  /\ d0' = IF answer = "busy" THEN -3 ELSE 0
  /\ FlushedBy(answer)
  /\ dev' = [lba |-> dev.lba, left |-> 0, err |-> answer = "failed"]
  /\ UNCHANGED <<cmd, d5, sent, buf, masked, stack, regs, cache, keeps, clean>>

Steps ==
  \/ Load \/ StartBusy \/ Start
  \/ SectorBusy \/ SectorNoData \/ (\E ok \in BOOLEAN : Sector(ok))
  \/ StatusBusy \/ StatusClean \/ Recover
  \/ \E answer \in Flushes : Flush(answer)

\* Callers read and write sectors of the disk.
Client ==
  \E l \in Sectors, n \in 1 .. MAX_COUNT, m \in BOOLEAN :
    \/ Enter("READ", l, n, cmd.version, m)
    \/ \E v \in Versions : Enter("WRITE", l, n, v, m)

IdeNext == Client \/ Steps

IdeSpec == IdeInit /\ [][IdeNext]_idevars

-----------------------------------------------------------------------------
(* Properties *)

IdeTypeOK ==
  /\ pc \in {"idle", "load", "start", "sector", "status", "flush"}
  /\ cmd \in [op : Op, lba : Sectors, count : 1 .. MAX_COUNT, version : Versions, sr : BOOLEAN]
  /\ cmd.lba + cmd.count <= SECTORS
  /\ d0 \in {0, -1, -2, -3} /\ d5 \in 0 .. TRIES - 1
  /\ sent \in 0 .. cmd.count /\ (pc = "sector" => sent < cmd.count)
  /\ buf \in [0 .. MAX_COUNT - 1 -> Content \cup {BAD}]
  /\ masked \in BOOLEAN /\ stack \in Seq(BOOLEAN)
  /\ regs \in [lba : 0 .. SECTORS, count : 0 .. 256]
  /\ dev \in [lba : 0 .. SECTORS, left : 0 .. 256, err : BOOLEAN]
  /\ cache \in [Sectors -> Content] /\ platter \in [Sectors -> Content]
  /\ keeps \in BOOLEAN /\ clean \in BOOLEAN

\* Interrupts are off exactly while sectors pass, and the stack holds exactly
\* the caller's status register then: on every way out of the transfer, all
\* six of them, the caller gets its interrupts back (gideS.S, iderd_02).
InterruptsRestored ==
  IF pc = "sector" THEN masked /\ Len(stack) = 1 /\ Head(stack) = cmd.sr
  ELSE masked = cmd.sr /\ Len(stack) = 0

\* A read that ended with a clean status, after whatever retries and resets,
\* left exactly the sectors asked for in the buffer, in order, on a drive
\* whose task file survives a command that is broken off.
ReadsExact ==
  keeps /\ clean /\ cmd.op = "READ" =>
    \A i \in 0 .. cmd.count - 1 : buf[i] = cache[cmd.lba + i]

\* A write that ended with a clean status left what the caller gave in the
\* sectors asked for.  When it also returns success and the drive's status has
\* no error after the flush, power may fail.  Nobody looks at that status: what
\* the return value alone says is SuccessIsWritten, which does not hold.
WritesDurable ==
  keeps /\ clean /\ cmd.op = "WRITE" =>
    \A s \in Span(cmd) :
      /\ cache[s] = <<cmd.version, s>>
      /\ pc = "idle" /\ d0 = 0 /\ ~dev.err => platter[s] = <<cmd.version, s>>

\* What hd_write takes _ide's answer for, "0: success" (hd_block_drv.c:427):
\* the sectors are written.  Neither a transfer whose tries all failed nor a
\* flush that ended with an error leaves a trace in d0.
SuccessIsWritten ==
  keeps /\ pc = "idle" /\ d0 = 0 /\ cmd.op = "WRITE" =>
    \A s \in Span(cmd) : cache[s] = <<cmd.version, s>> /\ platter[s] = cache[s]

\* Even a write that fails, is retried or reset changes no sector outside its
\* range, and no sector to data meant for another.
NoStraySectors ==
  [][keeps => \A s \in Sectors :
       cache'[s] # cache[s] =>
         cmd.op = "WRITE" /\ s \in Span(cmd) /\ cache'[s] = <<cmd.version, s>>]_idevars

=============================================================================
