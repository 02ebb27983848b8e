------------------------------ MODULE IdeProofs ------------------------------
(* What _ide promises on disks of every size, for transfers of every length *)
(* and any number of tries: it gives the interrupts back, and on a drive    *)
(* whose task file survives a command a transfer that ended with a clean    *)
(* status moved exactly the sectors asked for.                              *)
(*                                                                          *)
(* Neither ReadsExact nor WritesDurable is inductive: they follow from what *)
(* is true in the middle of a transfer.  The task file holds the caller's   *)
(* request from Load to the end (Loaded), the drive is at the sector that   *)
(* _ide counts (InStep), and what has passed so far without an error is     *)
(* right (Passed).                                                          *)
EXTENDS IdeDisk, SequenceTheorems, TLAPS

Loaded ==
  keeps /\ pc \in {"start", "sector", "status"} =>
    regs = [lba |-> cmd.lba, count |-> cmd.count]

InStep ==
  /\ keeps /\ pc = "sector" /\ dev.left > 0 => dev.lba = cmd.lba + sent
  /\ pc = "status" => sent = cmd.count
  /\ clean => pc \in {"flush", "idle"}

Passed ==
  keeps /\ pc \in {"sector", "status"} /\ ~dev.err =>
    \A i \in 0 .. sent - 1 :
      IF cmd.op = "READ" THEN buf[i] = cache[cmd.lba + i]
                         ELSE cache[cmd.lba + i] = <<cmd.version, cmd.lba + i>>

DiskInv == Loaded /\ InStep /\ Passed /\ ReadsExact /\ WritesDurable

\* The stack of status registers: what is pushed comes off first.
LEMMA PushPop ==
  ASSUME NEW s \in Seq(BOOLEAN), NEW b \in BOOLEAN
  PROVE  /\ <<b>> \o s \in Seq(BOOLEAN) /\ Len(<<b>> \o s) = Len(s) + 1
         /\ Head(<<b>> \o s) = b
         /\ (Len(s) = 1 => Head(s) \in BOOLEAN /\ Tail(s) \in Seq(BOOLEAN) /\ Len(Tail(s)) = 0)
<1>1. <<b>> \in Seq(BOOLEAN) /\ Len(<<b>>) = 1 /\ <<b>>[1] = b
  OBVIOUS
<1>2. /\ <<b>> \o s \in Seq(BOOLEAN) /\ Len(<<b>> \o s) = Len(s) + 1
      /\ (<<b>> \o s)[1] = b
  <2>1. /\ <<b>> \o s \in Seq(BOOLEAN) /\ Len(<<b>> \o s) = Len(<<b>>) + Len(s)
        /\ \A i \in 1 .. Len(<<b>>) + Len(s) :
             (<<b>> \o s)[i] = IF i <= Len(<<b>>) THEN <<b>>[i] ELSE s[i - Len(<<b>>)]
    BY <1>1, ConcatProperties, Zenon
  <2>2. Len(s) \in Nat
    BY LenProperties
  <2> QED BY <1>1, <2>1, <2>2
<1>3. Len(s) = 1 => s # <<>>
  BY EmptySeq, SMTT(30)
<1>4. Len(s) = 1 => Head(s) \in BOOLEAN /\ Tail(s) \in Seq(BOOLEAN) /\ Len(Tail(s)) = 0
  BY <1>3, HeadTailProperties
<1>5. Head(<<b>> \o s) = b
  BY <1>2
<1> QED BY <1>2, <1>4, <1>5

\* The states of _ide have their types.
LEMMA TypeInit == IdeInit => IdeTypeOK
<1> SUFFICES ASSUME IdeInit PROVE IdeTypeOK
  OBVIOUS
<1> DEFINE v == CHOOSE v \in Versions : TRUE
<1>1. v \in Versions
  BY IdeAssumption
<1> HIDE DEF v
<1>2. cmd = [op |-> "READ", lba |-> 0, count |-> 1, version |-> v, sr |-> FALSE]
      /\ cache = [s \in Sectors |-> <<v, s>>]
  BY DEF IdeInit, v
<1>3. cache \in [Sectors -> Content] /\ platter \in [Sectors -> Content]
  BY <1>1, <1>2 DEF IdeInit, Content
<1>4. cmd \in [op : Op, lba : Sectors, count : 1 .. MAX_COUNT, version : Versions, sr : BOOLEAN]
      /\ cmd.lba + cmd.count <= SECTORS
  BY <1>1, <1>2, IdeAssumption DEF Op, Sectors
<1>5. 1 <= MAX_COUNT /\ MAX_COUNT \in Nat /\ SECTORS \in Nat /\ TRIES \in Nat \ {0}
  BY IdeAssumption
<1>6. stack \in Seq(BOOLEAN)
  BY EmptySeq DEF IdeInit
<1>7. buf \in [0 .. MAX_COUNT - 1 -> Content \cup {BAD}] /\ sent \in 0 .. cmd.count
  BY <1>2, <1>5 DEF IdeInit
<1>8. /\ regs \in [lba : 0 .. SECTORS, count : 0 .. 256]
      /\ dev \in [lba : 0 .. SECTORS, left : 0 .. 256, err : BOOLEAN]
  BY <1>5 DEF IdeInit
<1>9. d0 \in {0, -1, -2, -3} /\ d5 \in 0 .. TRIES - 1 /\ pc = "idle"
  BY <1>5 DEF IdeInit
<1>10. masked \in BOOLEAN /\ keeps \in BOOLEAN /\ clean \in BOOLEAN
  BY Zenon DEF IdeInit
<1> QED BY <1>10, <1>3, <1>4, <1>6, <1>7, <1>8, <1>9 DEF IdeTypeOK

\* The request and the drive's state, field by field.
LEMMA Args ==
  ASSUME IdeTypeOK
  PROVE  /\ cmd.lba \in 0 .. SECTORS - 1 /\ cmd.lba \in 0 .. SECTORS
         /\ cmd.count \in 1 .. MAX_COUNT /\ cmd.count \in 0 .. 256
         /\ cmd.lba \in Nat /\ cmd.count \in Nat
         /\ cmd.lba + cmd.count <= SECTORS /\ cmd.version \in Versions /\ cmd.op \in Op
<1>1. cmd \in [op : Op, lba : Sectors, count : 1 .. MAX_COUNT, version : Versions, sr : BOOLEAN]
      /\ cmd.lba + cmd.count <= SECTORS
  BY DEF IdeTypeOK
<1>2. cmd.lba \in Sectors /\ cmd.count \in 1 .. MAX_COUNT /\ cmd.version \in Versions /\ cmd.op \in Op
  BY <1>1
<1>3. SECTORS \in Nat /\ MAX_COUNT \in Nat /\ MAX_COUNT <= 255
  BY IdeAssumption
<1> QED BY <1>1, <1>2, <1>3 DEF Sectors

LEMMA DevFields ==
  ASSUME IdeTypeOK
  PROVE  /\ dev.lba \in 0 .. SECTORS /\ dev.left \in 0 .. 256 /\ dev.err \in BOOLEAN
         /\ SECTORS \in Nat
<1>1. dev \in [lba : 0 .. SECTORS, left : 0 .. 256, err : BOOLEAN]
  BY DEF IdeTypeOK
<1> QED BY <1>1, IdeAssumption

LEMMA AgainTyped ==
  ASSUME IdeTypeOK, NEW l \in {"load", "start"}, Again(l)
  PROVE  pc' \in {"idle", "load", "start", "flush"} /\ d5' \in 0 .. TRIES - 1
BY IdeAssumption DEF Again, Done, IdeTypeOK

LEMMA TypeStep == IdeTypeOK /\ InterruptsRestored /\ [IdeNext]_idevars => IdeTypeOK'
<1> SUFFICES ASSUME IdeTypeOK, InterruptsRestored, [IdeNext]_idevars PROVE IdeTypeOK'
  OBVIOUS
<1> USE IdeAssumption
<1>1. ASSUME NEW op \in Op, NEW l \in Sectors, NEW n \in 1 .. MAX_COUNT, NEW v \in Versions,
             NEW m \in BOOLEAN, Enter(op, l, n, v, m)
      PROVE  IdeTypeOK'
  <2>1. cmd' \in [op : Op, lba : Sectors, count : 1 .. MAX_COUNT, version : Versions, sr : BOOLEAN]
        /\ cmd'.lba + cmd'.count <= SECTORS /\ cmd'.count \in 1 .. MAX_COUNT
    BY <1>1 DEF Enter
  <2>2. buf' \in [0 .. MAX_COUNT - 1 -> Content \cup {BAD}]
    BY <1>1 DEF Enter
  <2>3. sent' \in 0 .. cmd'.count /\ d0' = 0 /\ d5' \in 0 .. TRIES - 1 /\ pc' = "load"
        /\ masked' \in BOOLEAN /\ clean' = FALSE
    BY <1>1, <2>1 DEF Enter
  <2>4. UNCHANGED <<stack, regs, dev, cache, platter, keeps>>
    BY <1>1 DEF Enter, drive
  <2> QED BY <2>1, <2>2, <2>3, <2>4 DEF IdeTypeOK
<1>2. CASE Load
  <2>1. regs' \in [lba : 0 .. SECTORS, count : 0 .. 256]
    <3>1. /\ cmd.lba \in 0 .. SECTORS /\ cmd.count \in 0 .. 256
      BY Args
    <3>2. regs' = [lba |-> cmd.lba, count |-> cmd.count]
      BY <1>2 DEF Load
    <3> QED BY <3>1, <3>2
  <2>2. pc' = "start" /\ UNCHANGED <<cmd, d0, d5, sent, buf, masked, stack, dev, cache, platter, keeps, clean>>
    BY <1>2 DEF Load
  <2> QED BY <2>1, <2>2 DEF IdeTypeOK
<1>3. ASSUME NEW e \in {-2, -3}, pc \in {"start", "sector", "status"}, Retry(e),
             \/ Restore /\ pc = "sector"
             \/ UNCHANGED <<masked, stack>>
      PROVE  IdeTypeOK'
  <2>1. masked' \in BOOLEAN /\ stack' \in Seq(BOOLEAN)
    <3>1. masked \in BOOLEAN /\ stack \in Seq(BOOLEAN)
      BY DEF IdeTypeOK
    <3>2. pc = "sector" => Head(stack) \in BOOLEAN /\ Tail(stack) \in Seq(BOOLEAN)
      BY <3>1, PushPop DEF InterruptsRestored
    <3> QED BY <1>3, <3>1, <3>2 DEF Restore
  <2>2. pc' \in {"idle", "load", "start", "flush"} /\ d5' \in 0 .. TRIES - 1
    BY <1>3, AgainTyped DEF Retry
  <2> QED BY <1>3, <2>1, <2>2 DEF Retry, IdeTypeOK
<1>4. CASE Start
  <2>1. stack' \in Seq(BOOLEAN)
    BY <1>4 DEF Start, Command, InterruptsRestored, IdeTypeOK
  <2>2. dev' \in [lba : 0 .. SECTORS, left : 0 .. 256, err : BOOLEAN]
    BY <1>4 DEF Start, Command, Started, IdeTypeOK
  <2> QED BY <1>4, <2>1, <2>2 DEF Start, Command, StartAt, IdeTypeOK
<1>5. ASSUME NEW ok \in BOOLEAN, Sector(ok) PROVE IdeTypeOK'
  <2>1. masked' \in BOOLEAN /\ stack' \in Seq(BOOLEAN)
    <3>1. masked \in BOOLEAN /\ stack \in Seq(BOOLEAN) /\ pc = "sector"
      BY <1>5 DEF IdeTypeOK, Sector
    <3>2. Head(stack) \in BOOLEAN /\ Tail(stack) \in Seq(BOOLEAN)
      BY <3>1, PushPop DEF InterruptsRestored
    <3>3. \/ masked' = Head(stack) /\ stack' = Tail(stack)
          \/ masked' = masked /\ stack' = stack
      BY <1>5 DEF Sector, Restore
    <3> QED BY <3>1, <3>2, <3>3
  <2>2. /\ dev' \in [lba : 0 .. SECTORS, left : 0 .. 256, err : BOOLEAN]
        /\ regs' \in [lba : 0 .. SECTORS, count : 0 .. 256]
    <3>1. dev.left > 0 /\ (ok => dev.lba < SECTORS)
      BY <1>5 DEF Sector
    <3>2. dev' = IF ok THEN [lba |-> dev.lba + 1, left |-> dev.left - 1, err |-> dev.err]
                 ELSE [lba |-> dev.lba, left |-> 0, err |-> TRUE]
      BY <1>5 DEF Sector
    <3>3. /\ dev' \in [lba : 0 .. SECTORS, left : 0 .. 256, err : BOOLEAN]
          /\ dev'.left \in 0 .. 256
      <4>1. CASE ok
        BY <3>1, <3>2, <4>1, DevFields
      <4>2. CASE ~ok
        BY <3>2, <4>2, DevFields
      <4> QED BY <4>1, <4>2
    <3>4. regs' = IF keeps THEN regs ELSE [lba |-> dev.lba, count |-> dev'.left]
      BY <1>5 DEF Sector
    <3>5. regs \in [lba : 0 .. SECTORS, count : 0 .. 256]
      BY DEF IdeTypeOK
    <3>6. CASE keeps
      BY <3>3, <3>4, <3>5, <3>6
    <3>7. CASE ~keeps
      <4>1. regs' = [lba |-> dev.lba, count |-> dev'.left]
        BY <3>4, <3>7
      <4>2. dev.lba \in 0 .. SECTORS /\ dev'.left \in 0 .. 256
        BY <3>3, DevFields
      <4>3. [lba |-> dev.lba, count |-> dev'.left] \in [lba : 0 .. SECTORS, count : 0 .. 256]
        BY <4>2
      <4> QED BY <3>3, <4>1, <4>3
    <3> QED BY <3>3, <3>6, <3>7
  <2>3. /\ buf' \in [0 .. MAX_COUNT - 1 -> Content \cup {BAD}]
        /\ cache' \in [Sectors -> Content]
    <3>1. ok => dev.lba \in Sectors
      BY <1>5 DEF Sector, IdeTypeOK, Sectors
    <3>2. cmd.lba + sent \in Sectors /\ cmd.version \in Versions
      <4>1. sent \in 0 .. cmd.count - 1
        BY <1>5, Args DEF Sector, IdeTypeOK
      <4>2. SECTORS \in Nat
        BY IdeAssumption
      <4> QED BY <4>1, <4>2, Args DEF Sectors
    <3>3. <<cmd.version, cmd.lba + sent>> \in Content
      BY <3>2 DEF Content
    <3>4. ok => cache[dev.lba] \in Content
      BY <3>1 DEF IdeTypeOK
    <3>5. /\ buf \in [0 .. MAX_COUNT - 1 -> Content \cup {BAD}]
          /\ cache \in [Sectors -> Content]
      BY DEF IdeTypeOK
    <3>6. \/ buf' = [buf EXCEPT ![sent] = IF ok THEN cache[dev.lba] ELSE BAD] /\ cache' = cache
          \/ ok /\ cache' = [cache EXCEPT ![dev.lba] = <<cmd.version, cmd.lba + sent>>] /\ buf' = buf
          \/ cache' = cache /\ buf' = buf
      BY <1>5 DEF Sector, Transfer
    <3> QED BY <3>1, <3>3, <3>4, <3>5, <3>6
  <2>4. /\ sent' \in 0 .. cmd'.count /\ (pc' = "sector" => sent' < cmd'.count)
        /\ pc' \in {"sector", "status"}
    BY <1>5 DEF Sector, IdeTypeOK
  <2> QED BY <1>5, <2>1, <2>2, <2>3, <2>4 DEF Sector, IdeTypeOK
<1>6. CASE StatusClean
  BY <1>6 DEF StatusClean, Done, drive, IdeTypeOK
<1>7. CASE Recover
  <2>1. pc' \in {"idle", "load", "start", "flush"} /\ d5' \in 0 .. TRIES - 1
    BY <1>7, AgainTyped DEF Recover, RecoverThen
  <2>0. 1 <= SECTORS
    BY IdeAssumption
  <2>2. dev' = [lba |-> dev.lba, left |-> 0, err |-> FALSE] /\ regs' = [lba |-> 1, count |-> 1]
    BY <1>7 DEF Recover
  <2>3. /\ dev' \in [lba : 0 .. SECTORS, left : 0 .. 256, err : BOOLEAN]
        /\ regs' \in [lba : 0 .. SECTORS, count : 0 .. 256]
    BY <2>0, <2>2, DevFields
  <2>4. /\ pc = "status" /\ d0' \in {0, -1}
        /\ UNCHANGED <<cmd, sent, buf, masked, stack, cache, platter, keeps, clean>>
    BY <1>7 DEF Recover
  <2> QED BY <2>1, <2>3, <2>4 DEF IdeTypeOK
<1>8. ASSUME NEW answer, Flush(answer) PROVE IdeTypeOK'
  <2>1. platter' \in [Sectors -> Content]
    BY <1>8 DEF Flush, FlushedBy, IdeTypeOK
  <2>2. dev' \in [lba : 0 .. SECTORS, left : 0 .. 256, err : BOOLEAN]
    BY <1>8, DevFields DEF Flush
  <2>3. /\ pc = "flush" /\ pc' = "idle" /\ d0' \in {0, -3}
        /\ UNCHANGED <<cmd, d5, sent, buf, masked, stack, regs, cache, keeps, clean>>
    BY <1>8 DEF Flush
  <2> QED BY <2>1, <2>2, <2>3 DEF IdeTypeOK
<1>9. CASE UNCHANGED idevars
  BY <1>9 DEF idevars, driver, drive, IdeTypeOK
<1>10. cmd.version \in Versions
  BY DEF IdeTypeOK
<1> QED
  BY <1>1, <1>2, <1>3, <1>4, <1>5, <1>6, <1>7, <1>8, <1>9, <1>10
  DEF IdeNext, Client, Steps, StartBusy, SectorBusy, SectorNoData, StatusBusy, Op

\* Every way out of the transfer gives the status register back.
LEMMA MaskStep == IdeTypeOK /\ InterruptsRestored /\ [IdeNext]_idevars => InterruptsRestored'
<1> SUFFICES ASSUME IdeTypeOK, InterruptsRestored, [IdeNext]_idevars PROVE InterruptsRestored'
  OBVIOUS
<1>1. ASSUME NEW op, NEW l, NEW n, NEW v, NEW m, Enter(op, l, n, v, m)
      PROVE  InterruptsRestored'
  <2>1. pc' = "load" /\ masked' = m /\ cmd'.sr = m /\ Len(stack') = 0
    BY <1>1 DEF Enter, InterruptsRestored
  <2> QED BY <2>1 DEF InterruptsRestored
<1>2. CASE Load
  BY <1>2 DEF Load, InterruptsRestored
<1>3. pc = "sector" => Head(stack) = cmd.sr /\ Len(Tail(stack)) = 0
  <2>1. stack \in Seq(BOOLEAN) /\ masked \in BOOLEAN
    BY DEF IdeTypeOK
  <2> QED BY <2>1, PushPop DEF InterruptsRestored
<1>4. ASSUME NEW l \in {"load", "start"}, Again(l) PROVE pc' # "sector"
  BY <1>4 DEF Again, Done
<1>5. ASSUME NEW e, Retry(e), pc = "sector", Restore PROVE InterruptsRestored'
  BY <1>3, <1>4, <1>5 DEF Retry, Restore, InterruptsRestored
<1>6. ASSUME NEW e, Retry(e), pc # "sector", UNCHANGED <<masked, stack>>
      PROVE  InterruptsRestored'
  BY <1>4, <1>6 DEF Retry, InterruptsRestored
<1>7. CASE Start
  <2>1. pc = "start" /\ pc' = "sector" /\ masked' = TRUE /\ stack' = <<masked>> \o stack
    BY <1>7 DEF Start, Command
  <2>2. masked = cmd.sr /\ Len(stack) = 0 /\ cmd' = cmd
    BY <1>7, <2>1 DEF Start, Command, InterruptsRestored
  <2>3. stack \in Seq(BOOLEAN) /\ masked \in BOOLEAN
    BY DEF IdeTypeOK
  <2>4. Len(stack') = 1 /\ Head(stack') = cmd'.sr
    BY <2>1, <2>2, <2>3, PushPop
  <2> QED BY <2>1, <2>4 DEF InterruptsRestored
<1>8. ASSUME NEW ok, Sector(ok) PROVE InterruptsRestored'
  <2>1. pc = "sector" /\ cmd' = cmd
    BY <1>8 DEF Sector
  <2>2. CASE sent' = cmd.count
    <3>1. pc' = "status" /\ masked' = Head(stack) /\ stack' = Tail(stack)
      BY <1>8, <2>2 DEF Sector, Restore
    <3> QED BY <1>3, <2>1, <3>1 DEF InterruptsRestored
  <2>3. CASE sent' # cmd.count
    BY <1>8, <2>1, <2>3 DEF Sector, InterruptsRestored
  <2> QED BY <2>2, <2>3
<1>9. CASE StatusClean
  BY <1>9 DEF StatusClean, Done, InterruptsRestored
<1>10. CASE Recover
  BY <1>4, <1>10 DEF Recover, RecoverThen, InterruptsRestored
<1>11. ASSUME NEW answer, Flush(answer) PROVE InterruptsRestored'
  BY <1>11 DEF Flush, InterruptsRestored
<1>12. CASE UNCHANGED idevars
  BY <1>12 DEF idevars, driver, InterruptsRestored
<1> QED
  BY <1>1, <1>2, <1>5, <1>6, <1>7, <1>8, <1>9, <1>10, <1>11, <1>12
  DEF IdeNext, Client, Steps, StartBusy, SectorBusy, SectorNoData, StatusBusy

\* _ide's registers, buffers and stack, and the drive's, stay in range.
THEOREM IdeTypeCorrect == IdeSpec => []IdeTypeOK
<1>1. IdeInit => IdeTypeOK /\ InterruptsRestored
  BY TypeInit DEF IdeInit, InterruptsRestored
<1>2. IdeTypeOK /\ InterruptsRestored /\ [IdeNext]_idevars => (IdeTypeOK /\ InterruptsRestored)'
  BY TypeStep, MaskStep
<1> QED BY <1>1, <1>2, PTL DEF IdeSpec

\* Whichever of its six exits a transfer takes, the caller gets back the
\* status register _ide saved when it took the interrupts away.
THEOREM CallersKeepInterrupts == IdeSpec => []InterruptsRestored
<1>1. IdeInit => IdeTypeOK /\ InterruptsRestored
  BY TypeInit DEF IdeInit, InterruptsRestored
<1>2. IdeTypeOK /\ InterruptsRestored /\ [IdeNext]_idevars => (IdeTypeOK /\ InterruptsRestored)'
  BY TypeStep, MaskStep
<1> QED BY <1>1, <1>2, PTL DEF IdeSpec

\* The drive is asked for what the caller asked for, and stays with _ide.
LEMMA LoadedStep == IdeTypeOK /\ Loaded /\ [IdeNext]_idevars => Loaded'
<1> SUFFICES ASSUME IdeTypeOK, Loaded, [IdeNext]_idevars PROVE Loaded'
  OBVIOUS
<1>1. ASSUME NEW op, NEW l, NEW n, NEW v, NEW m, Enter(op, l, n, v, m)
      PROVE  Loaded'
  BY <1>1 DEF Enter, Loaded
<1>2. CASE Load
  BY <1>2 DEF Load, Loaded
<1>3. ASSUME NEW e, Retry(e), pc \in {"start", "sector", "status"} PROVE Loaded'
  BY <1>3 DEF Retry, Again, Done, Loaded
<1>4. CASE Start
  BY <1>4 DEF Start, Command, Loaded
<1>5. ASSUME NEW ok, Sector(ok) PROVE Loaded'
  BY <1>5 DEF Sector, Loaded
<1>6. CASE StatusClean
  BY <1>6 DEF StatusClean, Done, Loaded
<1>7. CASE Recover
  BY <1>7 DEF Recover, RecoverThen, Again, Done, Loaded
<1>8. ASSUME NEW answer, Flush(answer) PROVE Loaded'
  BY <1>8 DEF Flush, Loaded
<1>9. CASE UNCHANGED idevars
  BY <1>9 DEF idevars, driver, drive, Loaded
<1> QED
  BY <1>1, <1>2, <1>3, <1>4, <1>5, <1>6, <1>7, <1>8, <1>9
  DEF IdeNext, Client, Steps, StartBusy, SectorBusy, SectorNoData, StatusBusy

LEMMA InStepStep == IdeTypeOK /\ Loaded /\ InStep /\ [IdeNext]_idevars => InStep'
<1> SUFFICES ASSUME IdeTypeOK, Loaded, InStep, [IdeNext]_idevars PROVE InStep'
  OBVIOUS
<1>1. ASSUME NEW op, NEW l, NEW n, NEW v, NEW m, Enter(op, l, n, v, m)
      PROVE  InStep'
  BY <1>1 DEF Enter, InStep
<1>2. CASE Load
  BY <1>2 DEF Load, InStep
<1>3. ASSUME NEW e, Retry(e), pc \in {"start", "sector", "status"} PROVE InStep'
  BY <1>3 DEF Retry, Again, Done, InStep
<1>4. CASE Start
  <2>1. keeps => dev'.lba = cmd.lba
    BY <1>4 DEF Start, Command, Started, Loaded
  <2>2. sent' = 0 /\ pc' = "sector" /\ cmd' = cmd /\ keeps' = keeps /\ clean' = clean /\ pc = "start"
    BY <1>4 DEF Start, Command, StartAt
  <2> QED BY <2>1, <2>2, Args DEF InStep
<1>5. ASSUME NEW ok \in BOOLEAN, Sector(ok) PROVE InStep'
  <2>1. /\ pc = "sector" /\ sent' = sent + 1 /\ dev.left > 0
        /\ cmd' = cmd /\ keeps' = keeps /\ clean' = clean
        /\ pc' = IF sent' = cmd.count THEN "status" ELSE "sector"
    BY <1>5 DEF Sector
  <2>2. dev' = IF ok THEN [lba |-> dev.lba + 1, left |-> dev.left - 1, err |-> dev.err]
               ELSE [lba |-> dev.lba, left |-> 0, err |-> TRUE]
    BY <1>5 DEF Sector
  <2>3. dev'.left > 0 => dev'.lba = dev.lba + 1
    BY <2>2
  <2>4. sent \in Nat /\ cmd.lba \in Nat
    BY Args DEF IdeTypeOK
  <2> QED BY <2>1, <2>3, <2>4, DevFields DEF InStep
<1>6. CASE StatusClean
  BY <1>6 DEF StatusClean, Done, drive, InStep
<1>7. CASE Recover
  BY <1>7 DEF Recover, RecoverThen, Again, Done, InStep
<1>8. ASSUME NEW answer, Flush(answer) PROVE InStep'
  BY <1>8 DEF Flush, InStep
<1>9. CASE UNCHANGED idevars
  BY <1>9 DEF idevars, driver, drive, InStep
<1> QED
  BY <1>1, <1>2, <1>3, <1>4, <1>5, <1>6, <1>7, <1>8, <1>9
  DEF IdeNext, Client, Steps, StartBusy, SectorBusy, SectorNoData, StatusBusy

\* One sector that passes without an error is the one _ide counts.
LEMMA OneSector ==
  ASSUME IdeTypeOK, InStep, keeps, NEW ok \in BOOLEAN, Sector(ok)
  PROVE  /\ dev.lba = cmd.lba + sent /\ sent \in 0 .. cmd.count - 1 /\ cmd' = cmd
         /\ sent' = sent + 1 /\ pc = "sector"
         /\ pc' = IF sent' = cmd.count THEN "status" ELSE "sector"
         /\ ok => dev'.err = dev.err /\ dev.lba \in Sectors
         /\ ~ok => dev'.err /\ cache' = cache
         /\ ok /\ cmd.op = "READ" =>
              buf' = [buf EXCEPT ![sent] = cache[dev.lba]] /\ cache' = cache
         /\ ok /\ cmd.op # "READ" =>
              cache' = [cache EXCEPT ![dev.lba] = <<cmd.version, dev.lba>>] /\ buf' = buf
<1>1. dev.lba = cmd.lba + sent
  BY DEF InStep, Sector
<1>2. sent \in 0 .. cmd.count - 1
  BY Args DEF Sector, IdeTypeOK
<1>3. /\ sent' = sent + 1 /\ cmd' = cmd /\ pc = "sector"
      /\ pc' = IF sent' = cmd.count THEN "status" ELSE "sector"
  BY DEF Sector
<1>4. /\ ok => dev'.err = dev.err
      /\ ~ok => dev'.err
  BY DEF Sector
<1>5. ok => dev.lba \in Sectors
  BY DevFields DEF Sector, Sectors
<1>6. ~ok => cache' = cache
  BY DEF Sector, Transfer
<1>7. ok /\ cmd.op = "READ" =>
        buf' = [buf EXCEPT ![sent] = cache[dev.lba]] /\ cache' = cache
  BY DEF Sector, Transfer
<1>8. ok /\ cmd.op # "READ" =>
        cache' = [cache EXCEPT ![dev.lba] = <<cmd.version, dev.lba>>] /\ buf' = buf
  BY <1>1 DEF Sector, Transfer
<1> QED BY <1>1, <1>2, <1>3, <1>4, <1>5, <1>6, <1>7, <1>8

LEMMA PassedStep ==
  IdeTypeOK /\ InStep /\ Passed /\ [IdeNext]_idevars => Passed'
<1> SUFFICES ASSUME IdeTypeOK, InStep, Passed, [IdeNext]_idevars PROVE Passed'
  OBVIOUS
<1>1. ASSUME NEW op, NEW l, NEW n, NEW v, NEW m, Enter(op, l, n, v, m)
      PROVE  Passed'
  BY <1>1 DEF Enter, Passed
<1>2. CASE Load
  BY <1>2 DEF Load, Passed
<1>3. ASSUME NEW e, Retry(e), pc \in {"start", "sector", "status"} PROVE Passed'
  BY <1>3 DEF Retry, Again, Done, Passed
<1>4. CASE Start
  <2>1. sent' = 0
    BY <1>4 DEF Start, Command, StartAt
  <2> QED BY <2>1 DEF Passed
<1>5. ASSUME NEW ok \in BOOLEAN, Sector(ok) PROVE Passed'
  <2> SUFFICES ASSUME keeps, ~dev'.err, NEW i \in 0 .. sent' - 1
               PROVE  IF cmd.op = "READ" THEN buf'[i] = cache'[cmd.lba + i]
                      ELSE cache'[cmd.lba + i] = <<cmd.version, cmd.lba + i>>
    <3>1. keeps' = keeps /\ cmd' = cmd
      BY <1>5 DEF Sector
    <3> QED BY <3>1 DEF Passed
  <2>1. ok /\ ~dev.err /\ dev.lba \in Sectors
    BY <1>5, OneSector
  <2>2. /\ dev.lba = cmd.lba + sent /\ sent \in 0 .. cmd.count - 1 /\ sent' = sent + 1 /\ pc = "sector"
        /\ cmd.op = "READ" => buf' = [buf EXCEPT ![sent] = cache[dev.lba]] /\ cache' = cache
        /\ cmd.op # "READ" => cache' = [cache EXCEPT ![dev.lba] = <<cmd.version, dev.lba>>]
    BY <1>5, <2>1, OneSector
  <2>3. /\ buf \in [0 .. MAX_COUNT - 1 -> Content \cup {BAD}]
        /\ cache \in [Sectors -> Content]
    BY DEF IdeTypeOK
  <2>4. /\ cmd.lba \in 0 .. SECTORS - 1 /\ cmd.count \in 1 .. MAX_COUNT
        /\ MAX_COUNT \in Nat /\ SECTORS \in Nat /\ cmd.lba + cmd.count <= SECTORS
    BY Args, IdeAssumption
  <2>5. i \in 0 .. sent /\ i \in 0 .. MAX_COUNT - 1 /\ cmd.lba + i \in Sectors
    BY <2>2, <2>4 DEF Sectors
  <2>6. CASE i = sent
    BY <2>2, <2>3, <2>5, <2>6
  <2>7. CASE i # sent
    <3>1. i \in 0 .. sent - 1 /\ cmd.lba + i # dev.lba
      BY <2>2, <2>4, <2>5, <2>7
    <3>2. IF cmd.op = "READ" THEN buf[i] = cache[cmd.lba + i]
          ELSE cache[cmd.lba + i] = <<cmd.version, cmd.lba + i>>
      BY <2>1, <2>2, <3>1 DEF Passed
    <3> QED BY <2>2, <2>3, <2>5, <2>7, <3>1, <3>2
  <2> QED BY <2>6, <2>7
<1>6. CASE StatusClean
  BY <1>6 DEF StatusClean, Done, Passed
<1>7. CASE Recover
  BY <1>7 DEF Recover, RecoverThen, Again, Done, Passed
<1>8. ASSUME NEW answer, Flush(answer) PROVE Passed'
  BY <1>8 DEF Flush, Passed
<1>9. CASE UNCHANGED idevars
  BY <1>9 DEF idevars, driver, drive, Passed
<1> QED
  BY <1>1, <1>2, <1>3, <1>4, <1>5, <1>6, <1>7, <1>8, <1>9
  DEF IdeNext, Client, Steps, StartBusy, SectorBusy, SectorNoData, StatusBusy

\* What a clean status says of the transfer before it.
LEMMA ExactStep ==
  /\ IdeTypeOK /\ Loaded /\ InStep /\ Passed /\ ReadsExact /\ WritesDurable
  /\ [IdeNext]_idevars
  => ReadsExact' /\ WritesDurable'
<1> SUFFICES ASSUME IdeTypeOK, Loaded, InStep, Passed, ReadsExact, WritesDurable, [IdeNext]_idevars
             PROVE  ReadsExact' /\ WritesDurable'
  OBVIOUS
<1>1. ASSUME clean' = FALSE PROVE ReadsExact' /\ WritesDurable'
  BY <1>1 DEF ReadsExact, WritesDurable
<1>2. ASSUME NEW op, NEW l, NEW n, NEW v, NEW m, Enter(op, l, n, v, m)
      PROVE  clean' = FALSE
  BY <1>2 DEF Enter
<1>3. ASSUME pc \notin {"flush", "idle"}, clean' = clean PROVE ReadsExact' /\ WritesDurable'
  BY <1>3 DEF InStep, ReadsExact, WritesDurable
<1>4. CASE StatusClean
  <2>1. /\ pc = "status" /\ ~dev.err /\ pc' \in {"idle", "flush"} /\ (cmd.op # "READ" => pc' = "flush")
        /\ UNCHANGED <<cmd, sent, buf, cache, platter, keeps>>
    BY <1>4 DEF StatusClean, Done, drive
  <2>2. sent = cmd.count /\ cmd.count \in Nat
    BY <2>1, Args, IdeAssumption DEF InStep
  <2>3. keeps => \A i \in 0 .. cmd.count - 1 :
                   IF cmd.op = "READ" THEN buf[i] = cache[cmd.lba + i]
                   ELSE cache[cmd.lba + i] = <<cmd.version, cmd.lba + i>>
    BY <2>1, <2>2 DEF Passed
  <2>4. ReadsExact'
    BY <2>1, <2>3 DEF ReadsExact
  <2>5. ASSUME keeps, cmd.op = "WRITE", NEW s \in Span(cmd) PROVE cache[s] = <<cmd.version, s>>
    <3>1. cmd.lba \in Nat
      BY Args
    <3>2. s - cmd.lba \in 0 .. cmd.count - 1 /\ cmd.lba + (s - cmd.lba) = s
      BY <2>2, <2>5, <3>1 DEF Span
    <3> QED BY <2>3, <2>5, <3>2
  <2>6. Span(cmd)' = Span(cmd)
    BY <2>1 DEF Span
  <2> QED BY <2>1, <2>4, <2>5, <2>6 DEF WritesDurable
<1>5. ASSUME NEW answer \in Flushes, Flush(answer) PROVE ReadsExact' /\ WritesDurable'
  <2>0. answer = "failed" => dev'.err
    BY <1>5 DEF Flush, IdeTypeOK
  <2>1. /\ pc = "flush" /\ UNCHANGED <<cmd, buf, cache, keeps, clean>>
        /\ (d0' = 0 /\ ~dev'.err => platter' = cache)
    BY <1>5, <2>0 DEF Flush, Flushes, FlushedBy
  <2>2. Span(cmd)' = Span(cmd)
    BY <2>1 DEF Span
  <2> QED BY <2>1, <2>2 DEF ReadsExact, WritesDurable
<1>6. CASE UNCHANGED idevars
  <2>1. Span(cmd)' = Span(cmd)
    BY <1>6 DEF Span, idevars, driver
  <2> QED BY <1>6, <2>1 DEF idevars, driver, drive, ReadsExact, WritesDurable
<1>7. CASE Load
  BY <1>3, <1>7 DEF Load
<1>8. ASSUME NEW e, Retry(e), pc \in {"start", "sector", "status"}
      PROVE  ReadsExact' /\ WritesDurable'
  BY <1>3, <1>8 DEF Retry
<1>9. CASE Start
  BY <1>3, <1>9 DEF Start, Command
<1>10. ASSUME NEW ok, Sector(ok) PROVE ReadsExact' /\ WritesDurable'
  BY <1>3, <1>10 DEF Sector
<1>11. CASE Recover
  BY <1>3, <1>11 DEF Recover
<1> QED
  BY <1>1, <1>2, <1>4, <1>5, <1>6, <1>7, <1>8, <1>9, <1>10, <1>11
  DEF IdeNext, Client, Steps, StartBusy, SectorBusy, SectorNoData, StatusBusy

LEMMA DiskInvHolds == IdeSpec => [](IdeTypeOK /\ DiskInv)
<1>1. IdeInit => InterruptsRestored
  BY EmptySeq DEF IdeInit, InterruptsRestored
<1>2. IdeInit => IdeTypeOK /\ InterruptsRestored /\ DiskInv
  BY <1>1, TypeInit DEF IdeInit, DiskInv, Loaded, InStep, Passed, ReadsExact, WritesDurable
<1>3. IdeTypeOK /\ InterruptsRestored /\ DiskInv /\ [IdeNext]_idevars
        => (IdeTypeOK /\ InterruptsRestored /\ DiskInv)'
  BY TypeStep, MaskStep, LoadedStep, InStepStep, PassedStep, ExactStep DEF DiskInv
<1> QED BY <1>2, <1>3, PTL DEF IdeSpec

\* After whatever retries and resets: a read that ended with a clean status
\* left exactly the sectors asked for in the caller's buffer.
THEOREM ReadsAreExact == IdeSpec => []ReadsExact
<1>1. IdeTypeOK /\ DiskInv => ReadsExact
  BY DEF DiskInv
<1> QED BY <1>1, DiskInvHolds, PTL

\* A write that ended with a clean status left its data in exactly the
\* sectors asked for, on the platters too when it returned success and the
\* flush behind it left no error in the drive's status.
THEOREM WritesAreDurable == IdeSpec => []WritesDurable
<1>1. IdeTypeOK /\ DiskInv => WritesDurable
  BY DEF DiskInv
<1> QED BY <1>1, DiskInvHolds, PTL

\* No step of a transfer, failed, retried or reset, writes a sector outside
\* the range of the call, nor data meant for another sector.
THEOREM NoSectorStrays == IdeSpec => NoStraySectors
<1>1. IdeTypeOK /\ DiskInv /\ [IdeNext]_idevars
        => [keeps => \A s \in Sectors :
              cache'[s] # cache[s] =>
                cmd.op = "WRITE" /\ s \in Span(cmd) /\ cache'[s] = <<cmd.version, s>>]_idevars
  <2> SUFFICES ASSUME IdeTypeOK, DiskInv, IdeNext, keeps,
                      NEW s \in Sectors, cache'[s] # cache[s]
               PROVE  cmd.op = "WRITE" /\ s \in Span(cmd) /\ cache'[s] = <<cmd.version, s>>
    OBVIOUS
  <2>1. PICK ok \in BOOLEAN : Sector(ok)
    BY DEF IdeNext, Client, Steps, Enter, drive, Load, StartBusy, Retry, Start, Command,
           SectorBusy, SectorNoData, StatusBusy, StatusClean, Recover, Flush
  <2>2. InStep
    BY DEF DiskInv
  <2>3. ok /\ cmd.op # "READ" /\ dev.lba \in Sectors /\ dev.lba = cmd.lba + sent
        /\ sent \in 0 .. cmd.count - 1
        /\ cache' = [cache EXCEPT ![dev.lba] = <<cmd.version, dev.lba>>]
    BY <2>1, <2>2, OneSector
  <2>4. cache \in [Sectors -> Content] /\ cmd.lba \in Nat /\ cmd.count \in Nat /\ cmd.op \in Op
    BY Args DEF IdeTypeOK
  <2>5. s = dev.lba
    BY <2>3, <2>4
  <2>6. s \in Span(cmd)
    BY <2>3, <2>4, <2>5 DEF Span
  <2> QED BY <2>3, <2>4, <2>5, <2>6 DEF Op
<1> QED BY <1>1, DiskInvHolds, PTL DEF IdeSpec, NoStraySectors

=============================================================================
